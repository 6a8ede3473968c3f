---------------------------- MODULE AdminProofs ----------------------------
(***************************************************************************)
(* What administrators cannot do to one another's database, proved for any *)
(* number of them, of names and of rows.                                   *)
(*                                                                         *)
(* The screens act on rows read long before, so the invariant is about     *)
(* them: FlowOK says what each step may rely on of the row it kept, mainly *)
(* that the row with id 1 is ZZADMIN and that no other group is reserved.  *)
(* GuardInv carries the last-admin guard over to the removal it allows:    *)
(* as long as nobody crosses it, another administrator remains.            *)
(***************************************************************************)
EXTENDS Admin, FiniteSetTheorems, TLAPS

AllNames == {Absent} \cup UserNames \cup GroupNames \cup ServiceNames
Ops == {"none", "delete", "remove", "create", "update"}

(* A row of kind k as it once was in the table *)
RowOK(k, r) ==
  /\ r \in [id : Ids(k), name : NamesOf[k]]
  /\ k = "group" => IF r.id = 1 THEN r.name = ZZADMIN ELSE r.name \notin Reserved

OtherKind(k) == IF k = "group" THEN "user" ELSE "group"

FlowOK(f) ==
  /\ f.at \in {"row", "confirm", "join", "pair", "guard", "act"} => RowOK(f.kind, f.item)
  /\ f.at = "confirm" /\ f.kind = "group" => f.item.id # 1
  /\ f.at = "pair" => RowOK(OtherKind(f.kind), f.other)
  /\ f.at \in {"guard", "act"} =>
       \/ f.op = "delete" /\ f.kind = "user"
       \/ f.op = "remove" /\ f.kind # "service" /\ RowOK(OtherKind(f.kind), f.other)
  /\ f.at = "checked" =>
       \/ f.op = "create" /\ f.name \in NamesOf[f.kind] /\ (f.kind = "group" => f.name \notin Reserved)
       \/ f.op = "update" /\ f.kind = "service" /\ RowOK("service", f.item) /\ f.name \in ServiceNames

Flow ==
  {f \in [at : Places, me : 0 .. MaxUsers, kind : Kinds, item : AnyRow, other : AnyRow,
          op : Ops, name : AllNames] : FlowOK(f)}

FlowInv == flow \in [Flows -> Flow] /\ crossed \in BOOLEAN

TableInv ==
  /\ tab = [k \in Kinds |-> tab[k]]
  /\ \A k \in Kinds :
       /\ tab[k] \in [Ids(k) -> NamesOf[k] \cup {Absent}]
       /\ \A i, j \in Ids(k) : i # j => tab[k][i] = Absent \/ tab[k][i] # tab[k][j]
  /\ tab["group"][1] = ZZADMIN
  /\ \A i \in Ids("group") : i # 1 => tab["group"][i] \notin Reserved

GrantInv ==
  /\ members \subseteq Ids("user") \X Ids("group")
  /\ links \subseteq Ids("group") \X Ids("service")
  /\ \A p \in members : tab["user"][p[1]] # Absent /\ tab["group"][p[2]] # Absent
  /\ \A p \in links : tab["group"][p[1]] # Absent /\ tab["service"][p[2]] # Absent

(* The users in ZZADMIN, whose id is 1 *)
AdminIds == {u \in Ids("user") : <<u, 1>> \in members}

(* The account a guarded operation takes out of ZZADMIN *)
Target(f) == IF f.op = "delete" THEN f.item.id ELSE UserRow(f).id

GuardInv ==
  ~crossed =>
    /\ AdminIds # {}
    /\ \A a \in Flows : At(a) = "act" => \E u \in AdminIds : u # Target(flow[a])

AdminInv == FlowInv /\ TableInv /\ GrantInv /\ GuardInv

-----------------------------------------------------------------------------
(* The screens *)

(* A session outside the admin screens keeps nothing.                      *)
LEMMA NoFlowOK == NoFlow \in Flow
<1>1. NoRow \in AnyRow
  BY DEF AnyRow, Row
<1>. QED
  BY <1>1, AdminAssumption DEF NoFlow, Flow, FlowOK, Places, Kinds, Ops, AllNames

(* Going back to the first list keeps nothing.                             *)
LEMMA ToListOK ==
  ASSUME FlowInv, NEW a \in Flows
  PROVE  ToList(a) \in Flow /\ ToList(a).at = "list"
BY NoFlowOK DEF FlowInv, ToList, NoFlow, Flow, FlowOK, Places

(* Going back to the membership or access list keeps its row.              *)
LEMMA ToJoinOK ==
  ASSUME FlowInv, NEW a \in Flows, RowOK(flow[a].kind, flow[a].item)
  PROVE  ToJoin(a) \in Flow /\ ToJoin(a).at = "join"
<1>1. NoRow \in AnyRow
  BY DEF AnyRow, Row
<1>. QED
  BY <1>1 DEF FlowInv, ToJoin, Flow, FlowOK, Places, Ops

(* What a list shows is a row as it is.                                    *)
LEMMA ReadRow ==
  ASSUME TableInv, NEW k \in Kinds, NEW r \in RowsOf(k)
  PROVE  RowOK(k, r) /\ r \in AnyRow
<1>1. PICK i \in Ids(k) : tab[k][i] # Absent /\ r = [id |-> i, name |-> tab[k][i]]
  BY DEF RowsOf
<1>2. tab[k][i] \in NamesOf[k]
  BY <1>1 DEF TableInv
<1>3. r \in [id : Ids(k), name : NamesOf[k]]
  BY <1>1, <1>2
<1>4. k = "group" => IF r.id = 1 THEN r.name = ZZADMIN ELSE r.name \notin Reserved
  BY <1>1 DEF TableInv
<1>. QED
  BY <1>3, <1>4 DEF RowOK, AnyRow, Row, Kinds

(* The users in ZZADMIN are those with a membership in group 1, now        *)
LEMMA AdminsAre ==
  ASSUME TableInv
  PROVE  Admins = AdminIds
<1>1. 1 \in Ids("group")
  BY AdminAssumption DEF Ids, MaxOf
<1>2. \A g \in Ids("group") : tab["group"][g] = ZZADMIN <=> g = 1
  BY <1>1, AdminAssumption DEF TableInv
<1>. QED
  BY <1>1, <1>2 DEF Admins, AdminIds

(* and after the step.                                                     *)
LEMMA AdminsWillBe ==
  ASSUME TableInv'
  PROVE  Admins' = AdminIds'
<1>1. 1 \in Ids("group")
  BY AdminAssumption DEF Ids, MaxOf
<1>2. \A g \in Ids("group") : tab'["group"][g] = ZZADMIN <=> g = 1
  BY <1>1, AdminAssumption DEF TableInv
<1>. QED
  BY <1>1, <1>2 DEF Admins, AdminIds

(* A step that stores nothing                                              *)
LEMMA Stays ==
  ASSUME AdminInv, NEW a \in Flows, NEW f \in Flow, Moves(a, f), Unstored,
         crossed' = (crossed \/ Crosses(a)),
         f.at = "act" => (~crossed => \E u \in AdminIds : u # Target(f))
  PROVE  AdminInv'
<1>1. Admins' = Admins /\ AdminIds' = AdminIds
  BY DEF Unstored, Admins, AdminIds
<1>2. crossed' = crossed
  BY <1>1 DEF Crosses, AdminInv, FlowInv
<1>3. FlowInv'
  BY <1>2 DEF AdminInv, FlowInv, Moves
<1>4. TableInv'
  BY DEF AdminInv, TableInv, Unstored
<1>5. GrantInv'
  BY DEF AdminInv, GrantInv, Unstored
<1>6. ASSUME ~crossed, NEW b \in Flows, At(b)' = "act"
      PROVE  \E u \in AdminIds : u # Target(flow'[b])
  <2>1. CASE b = a
    BY <1>6, <2>1 DEF At, Moves, AdminInv, FlowInv
  <2>2. CASE b # a
    <3>1. flow'[b] = flow[b]
      BY <2>2 DEF Moves, AdminInv, FlowInv
    <3>. QED
      BY <1>6, <3>1 DEF At, AdminInv, GuardInv
  <2>. QED
    BY <2>1, <2>2
<1>7. GuardInv'
  BY <1>1, <1>2, <1>6 DEF AdminInv, GuardInv
<1>. QED
  BY <1>3, <1>4, <1>5, <1>7 DEF AdminInv

(* A step that stores something: the guard holds if it takes out of        *)
(* ZZADMIN only whom the guard was asked about.                            *)
LEMMA Stores ==
  ASSUME AdminInv, NEW a \in Flows, NEW f \in Flow, Moves(a, f), f.at # "act",
         TableInv', GrantInv', crossed' = (crossed \/ Crosses(a)),
         \A u \in AdminIds : u \in AdminIds' \/ (At(a) = "act" /\ u = Target(flow[a]))
  PROVE  AdminInv'
<1>1. FlowInv'
  BY DEF AdminInv, FlowInv, Moves
<1>2. Admins = AdminIds /\ Admins' = AdminIds'
  BY AdminsAre, AdminsWillBe DEF AdminInv
<1>3. ASSUME ~crossed' PROVE AdminIds' # {}
  <2>1. ~crossed
    BY <1>3
  <2>2. CASE At(a) = "act"
    BY <2>1, <2>2 DEF AdminInv, GuardInv
  <2>3. CASE At(a) # "act"
    BY <2>1, <2>3 DEF AdminInv, GuardInv
  <2>. QED
    BY <2>2, <2>3
<1>4. ASSUME ~crossed', NEW b \in Flows, At(b)' = "act"
      PROVE  \E u \in AdminIds' : u # Target(flow'[b])
  <2>1. b # a /\ flow'[b] = flow[b] /\ At(b) = "act"
    BY <1>4 DEF At, Moves, AdminInv, FlowInv
  <2>2. ~crossed /\ AdminIds' = AdminIds
    BY <1>2, <1>4, <2>1 DEF Crosses
  <2>. QED
    BY <2>1, <2>2 DEF AdminInv, GuardInv
<1>5. GuardInv'
  BY <1>3, <1>4 DEF GuardInv
<1>. QED
  BY <1>1, <1>5 DEF AdminInv

-----------------------------------------------------------------------------
(* The store *)

(* A row that is cleared takes its memberships and grants along.           *)
LEMMA RowGone ==
  ASSUME TableInv, GrantInv, NEW k \in Kinds, NEW i \in Ids(k), k = "group" => i # 1,
         DeleteRow(k, i)
  PROVE  /\ TableInv' /\ GrantInv'
         /\ \A u \in AdminIds : u \in AdminIds' \/ (k = "user" /\ u = i)
<1>1. /\ \A j \in Kinds : tab'[j] = IF j = k THEN [tab[k] EXCEPT ![i] = Absent] ELSE tab[j]
      /\ tab' = [j \in Kinds |-> tab'[j]]
  BY DEF DeleteRow, TableInv
<1>2. ASSUME NEW j \in Kinds, NEW x \in Ids(j)
      PROVE  tab'[j][x] = IF j = k /\ x = i THEN Absent ELSE tab[j][x]
  BY <1>1, <1>2 DEF TableInv
<1>3. \A j \in Kinds : tab'[j] \in [Ids(j) -> NamesOf[j] \cup {Absent}]
  BY <1>1 DEF TableInv
<1>4. ASSUME NEW j \in Kinds, NEW x \in Ids(j), NEW y \in Ids(j), x # y
      PROVE  tab'[j][x] = Absent \/ tab'[j][x] # tab'[j][y]
  BY <1>2, <1>4 DEF TableInv
<1>5. tab'["group"][1] = ZZADMIN
  <2>1. 1 \in Ids("group")
    BY AdminAssumption DEF Ids, MaxOf
  <2>. QED
    BY <1>2, <2>1 DEF TableInv, Kinds
<1>6. \A x \in Ids("group") : x # 1 => tab'["group"][x] \notin Reserved
  BY <1>2, AdminAssumption DEF TableInv, Kinds
<1>7. TableInv'
  BY <1>1, <1>3, <1>4, <1>5, <1>6 DEF TableInv
<1>8. GrantInv'
  <2>1. members' \subseteq members /\ links' \subseteq links
    BY DEF DeleteRow
  <2>2. ASSUME NEW q \in members' PROVE tab'["user"][q[1]] # Absent /\ tab'["group"][q[2]] # Absent
    <3>1. q \in members /\ q[1] \in Ids("user") /\ q[2] \in Ids("group")
      BY <2>1 DEF GrantInv
    <3>. QED
      BY <1>2, <2>2, <3>1 DEF GrantInv, Kinds, DeleteRow
  <2>3. ASSUME NEW q \in links' PROVE tab'["group"][q[1]] # Absent /\ tab'["service"][q[2]] # Absent
    <3>1. q \in links /\ q[1] \in Ids("group") /\ q[2] \in Ids("service")
      BY <2>1 DEF GrantInv
    <3>. QED
      BY <1>2, <2>3, <3>1 DEF GrantInv, Kinds, DeleteRow
  <2>. QED
    BY <2>1, <2>2, <2>3 DEF GrantInv
<1>9. \A u \in AdminIds : u \in AdminIds' \/ (k = "user" /\ u = i)
  BY DEF AdminIds, DeleteRow
<1>. QED
  BY <1>7, <1>8, <1>9

(* Bounded sets of numbers have a largest element, which Max chooses.      *)
LEMMA MaxOfNats ==
  ASSUME NEW n \in Nat, NEW S \in SUBSET (0 .. n), S # {}
  PROVE  Max(S) \in S /\ \A x \in S : Max(S) >= x
<1>. DEFINE T == {m \in Nat : n - m \in S}
<1>1. T # {} /\ T \subseteq Nat
  <2>1. PICK x \in S : TRUE
    OBVIOUS
  <2>2. n - x \in Nat /\ n - (n - x) = x
    BY <2>1
  <2>. QED
    BY <2>1, <2>2
<1>2. PICK m \in T : \A y \in T : ~(<<y, m>> \in OpToRel(<, Nat))
  BY <1>1, WFMin, NatLessThanWellFounded
<1>3. n - m \in S /\ m \in Nat
  BY <1>2
<1>4. ASSUME NEW x \in S PROVE n - m >= x
  <2>1. x \in 0 .. n /\ n - x \in Nat /\ n - (n - x) = x
    OBVIOUS
  <2>2. n - x \in T
    BY <2>1
  <2>3. ~(n - x < m)
    BY <1>2, <1>3, <2>1, <2>2 DEF OpToRel
  <2>. QED
    BY <1>3, <2>1, <2>3
<1>. QED
  BY <1>3, <1>4 DEF Max

(* A new row goes where there is none.                                     *)
LEMMA NewIdFree ==
  ASSUME TableInv, NEW k \in Kinds, NewId(k) <= MaxOf[k]
  PROVE  NewId(k) \in Ids(k) /\ tab[k][NewId(k)] = Absent
<1>. DEFINE S == {0} \cup {i \in Ids(k) : tab[k][i] # Absent}
<1>1. MaxOf[k] \in Nat /\ Ids(k) = 1 .. MaxOf[k]
  BY AdminAssumption DEF MaxOf, Kinds, Ids
<1>2. S \in SUBSET (0 .. MaxOf[k]) /\ S # {} /\ 0 \in S
  BY <1>1
<1>3. Max(S) \in S /\ \A x \in S : Max(S) >= x
  BY <1>1, <1>2, MaxOfNats
<1>4. NewId(k) = Max(S) + 1
  BY DEF NewId
<1>5. Max(S) \in Nat /\ Max(S) + 1 \in Ids(k)
  BY <1>1, <1>2, <1>3, <1>4
<1>6. Max(S) + 1 \notin S
  BY <1>3, <1>5
<1>. QED
  BY <1>4, <1>5, <1>6

(* A name that is new is put in a row that was free, or renames a service. *)
LEMMA RowNamed ==
  ASSUME TableInv, GrantInv, NEW k \in Kinds, NEW i \in Ids(k), NEW n \in NamesOf[k],
         k = "group" => n \notin Reserved /\ i # 1,
         \A j \in Ids(k) : tab[k][j] = n => j = i,
         tab' = [tab EXCEPT ![k] = [@ EXCEPT ![i] = n]], UNCHANGED <<members, links>>
  PROVE  TableInv' /\ GrantInv'
<1>1. /\ \A j \in Kinds : tab'[j] = IF j = k THEN [tab[k] EXCEPT ![i] = n] ELSE tab[j]
      /\ tab' = [j \in Kinds |-> tab'[j]]
  BY DEF TableInv
<1>2. ASSUME NEW j \in Kinds, NEW x \in Ids(j)
      PROVE  tab'[j][x] = IF j = k /\ x = i THEN n ELSE tab[j][x]
  BY <1>1, <1>2 DEF TableInv
<1>3. \A j \in Kinds : tab'[j] \in [Ids(j) -> NamesOf[j] \cup {Absent}]
  BY <1>1 DEF TableInv
<1>4. ASSUME NEW j \in Kinds, NEW x \in Ids(j), NEW y \in Ids(j), x # y
      PROVE  tab'[j][x] = Absent \/ tab'[j][x] # tab'[j][y]
  BY <1>2, <1>4 DEF TableInv
<1>5. tab'["group"][1] = ZZADMIN
  <2>1. 1 \in Ids("group")
    BY AdminAssumption DEF Ids, MaxOf
  <2>. QED
    BY <1>2, <2>1 DEF TableInv, Kinds
<1>6. \A x \in Ids("group") : x # 1 => tab'["group"][x] \notin Reserved
  BY <1>2, AdminAssumption DEF TableInv, Kinds
<1>7. TableInv'
  BY <1>1, <1>3, <1>4, <1>5, <1>6 DEF TableInv
<1>8. n # Absent
  BY AdminAssumption DEF NamesOf, Kinds
<1>9. ASSUME NEW q \in members PROVE tab'["user"][q[1]] # Absent /\ tab'["group"][q[2]] # Absent
  <2>1. q[1] \in Ids("user") /\ q[2] \in Ids("group")
    BY DEF GrantInv
  <2>. QED
    BY <1>2, <1>8, <2>1 DEF GrantInv, Kinds
<1>10. ASSUME NEW q \in links PROVE tab'["group"][q[1]] # Absent /\ tab'["service"][q[2]] # Absent
  <2>1. q[1] \in Ids("group") /\ q[2] \in Ids("service")
    BY DEF GrantInv
  <2>. QED
    BY <1>2, <1>8, <2>1 DEF GrantInv, Kinds
<1>11. GrantInv'
  BY <1>9, <1>10 DEF GrantInv
<1>. QED
  BY <1>7, <1>11

(* A membership or grant is added between rows that exist.                 *)
LEMMA PairAdded ==
  ASSUME TableInv, GrantInv, NEW j \in {"member", "link"}, NEW q,
         j = "member" => q \in Ids("user") \X Ids("group"),
         j = "link" => q \in Ids("group") \X Ids("service"),
         InsertPair(j, q)
  PROVE  TableInv' /\ GrantInv' /\ AdminIds \subseteq AdminIds'
<1>1. TableInv'
  BY DEF InsertPair, TableInv
<1>2. /\ members \subseteq members'
      /\ \A x \in members' : x \in members \/ (x = q /\ j = "member" /\ References(j, q))
      /\ \A x \in links' : x \in links \/ (x = q /\ j = "link" /\ References(j, q))
      /\ tab' = tab
  BY DEF InsertPair
<1>3. GrantInv'
  BY <1>2 DEF GrantInv, References
<1>. QED
  BY <1>1, <1>2, <1>3 DEF AdminIds

(* A membership or grant is taken away.                                    *)
LEMMA PairGone ==
  ASSUME TableInv, GrantInv, NEW j \in {"member", "link"}, NEW q, DeletePair(j, q)
  PROVE  /\ TableInv' /\ GrantInv'
         /\ \A u \in AdminIds : u \in AdminIds' \/ (j = "member" /\ q = <<u, 1>>)
<1>1. TableInv'
  BY DEF DeletePair, TableInv
<1>2. GrantInv'
  BY DEF DeletePair, GrantInv
<1>3. \A u \in AdminIds : u \in AdminIds' \/ (j = "member" /\ q = <<u, 1>>)
  BY DEF DeletePair, AdminIds
<1>. QED
  BY <1>1, <1>2, <1>3

-----------------------------------------------------------------------------
(* The steps *)

(* What a flow may rely on of the row it kept                              *)
LEMMA Kept ==
  ASSUME AdminInv, NEW a \in Flows
  PROVE  flow[a] \in Flow /\ FlowOK(flow[a])
BY DEF AdminInv, FlowInv, Flow

(* Whichever side a membership list is opened from, its pair is right.     *)
LEMMA PairTyped ==
  ASSUME NEW f, f.kind \in Kinds, RowOK(f.kind, f.item), RowOK(OtherKind(f.kind), f.other)
  PROVE  /\ Join(f) \in {"member", "link"}
         /\ Join(f) = "member" => /\ Pair(f) \in Ids("user") \X Ids("group")
                                  /\ Pair(f) = <<UserRow(f).id, GroupRow(f).id>>
                                  /\ RowOK("group", GroupRow(f))
         /\ Join(f) = "link" => Pair(f) \in Ids("group") \X Ids("service")
BY DEF Join, Pair, UserRow, GroupRow, RowOK, OtherKind, Kinds

(* The steps that only move between screens *)
LEMMA ScreenStep ==
  ASSUME AdminInv, NEW a \in Flows, crossed' = (crossed \/ Crosses(a)),
         LogIn(a) \/ LogOut(a) \/ Select(a) \/ Back(a) \/ PressD(a) \/ OpenJoin(a) \/ SelectOther(a)
           \/ SubmitAdd(a) \/ SubmitEdit(a)
  PROVE  AdminInv'
<1>1. FlowInv /\ TableInv /\ flow[a] \in Flow /\ FlowOK(flow[a])
  BY Kept DEF AdminInv
<1>2. CASE LogIn(a)
  <2>1. PICK u \in Admins : Moves(a, [NoFlow EXCEPT !.at = "list", !.me = u]) /\ Unstored
    BY <1>2 DEF LogIn
  <2>2. u \in 0 .. MaxUsers
    BY AdminAssumption DEF Admins, Ids, MaxOf
  <2>3. [NoFlow EXCEPT !.at = "list", !.me = u] \in Flow
    BY <2>2, NoFlowOK DEF NoFlow, Flow, FlowOK, Places
  <2>. QED
    BY <2>1, <2>3, Stays DEF NoFlow
<1>3. CASE LogOut(a)
  BY <1>3, NoFlowOK, Stays DEF LogOut, NoFlow
<1>4. CASE Select(a)
  <2>1. PICK k \in Kinds : \E r \in RowsOf(k) :
          Moves(a, [flow[a] EXCEPT !.at = "row", !.kind = k, !.item = r]) /\ Unstored
    BY <1>4 DEF Select
  <2>1a. PICK r \in RowsOf(k) :
          Moves(a, [flow[a] EXCEPT !.at = "row", !.kind = k, !.item = r]) /\ Unstored
    BY <2>1
  <2>2. RowOK(k, r) /\ r \in AnyRow
    BY <1>1, ReadRow
  <2>3. [flow[a] EXCEPT !.at = "row", !.kind = k, !.item = r] \in Flow
    BY <1>1, <2>2 DEF Flow, FlowOK, Places
  <2>. QED
    BY <1>1, <2>1a, <2>3, Stays DEF Flow
<1>5. CASE Back(a)
  BY <1>1, <1>5, ToListOK, Stays DEF Back
<1>6. CASE PressD(a)
  <2>1. CASE flow[a].kind = "group" /\ flow[a].item.name \in Reserved
    BY <1>1, <1>6, <2>1, ToListOK, Stays DEF PressD
  <2>2. CASE ~(flow[a].kind = "group" /\ flow[a].item.name \in Reserved)
    <3>1. Moves(a, [flow[a] EXCEPT !.at = "confirm"]) /\ Unstored /\ flow[a].at = "row"
      BY <1>6, <2>2 DEF PressD, At
    <3>2. RowOK(flow[a].kind, flow[a].item)
      BY <1>1, <3>1 DEF FlowOK
    <3>3. flow[a].kind = "group" => flow[a].item.id # 1
      BY <2>2, <3>2, AdminAssumption DEF RowOK
    <3>4. [flow[a] EXCEPT !.at = "confirm"] \in Flow
      BY <1>1, <3>2, <3>3 DEF Flow, FlowOK, Places
    <3>. QED
      BY <1>1, <3>1, <3>4, Stays DEF Flow
  <2>. QED
    BY <2>1, <2>2
<1>7. CASE OpenJoin(a)
  <2>1. [flow[a] EXCEPT !.at = "join"] \in Flow
    BY <1>1, <1>7 DEF OpenJoin, At, Flow, FlowOK, Places
  <2>. QED
    BY <1>1, <1>7, <2>1, Stays DEF OpenJoin, Flow
<1>8. CASE SelectOther(a)
  <2>. DEFINE k == IF flow[a].kind = "group" THEN "user" ELSE "group"
  <2>1. PICK r \in RowsOf(k) : Moves(a, [flow[a] EXCEPT !.at = "pair", !.other = r]) /\ Unstored
    BY <1>8 DEF SelectOther
  <2>2. k \in Kinds /\ k = OtherKind(flow[a].kind)
    BY DEF Kinds, OtherKind
  <2>3. RowOK(OtherKind(flow[a].kind), r) /\ r \in AnyRow
    BY <1>1, <2>2, ReadRow
  <2>4. RowOK(flow[a].kind, flow[a].item)
    BY <1>1, <1>8 DEF SelectOther, At, FlowOK
  <2>5. [flow[a] EXCEPT !.at = "pair", !.other = r] \in Flow
    BY <1>1, <2>3, <2>4 DEF Flow, FlowOK, Places
  <2>. QED
    BY <1>1, <2>1, <2>5, Stays DEF Flow
<1>9. CASE SubmitAdd(a)
  <2>1. PICK k \in Kinds : \E n \in NamesOf[k] :
          /\ NewName(k, n) /\ Unstored
          /\ Moves(a, [flow[a] EXCEPT !.at = "checked", !.kind = k, !.op = "create", !.name = n])
    BY <1>9 DEF SubmitAdd
  <2>1a. PICK n \in NamesOf[k] :
          /\ NewName(k, n) /\ Unstored
          /\ Moves(a, [flow[a] EXCEPT !.at = "checked", !.kind = k, !.op = "create", !.name = n])
    BY <2>1
  <2>2. n \in AllNames /\ (k = "group" => n \notin Reserved)
    BY <2>1a DEF NewName, AllNames, NamesOf, Kinds
  <2>3. [flow[a] EXCEPT !.at = "checked", !.kind = k, !.op = "create", !.name = n] \in Flow
    BY <1>1, <2>2 DEF Flow, FlowOK, Places, Ops
  <2>. QED
    BY <1>1, <2>1a, <2>3, Stays DEF Flow
<1>10. CASE SubmitEdit(a)
  <2>1. PICK n \in ServiceNames :
          Moves(a, [flow[a] EXCEPT !.at = "checked", !.op = "update", !.name = n]) /\ Unstored
    BY <1>10 DEF SubmitEdit
  <2>2. flow[a].kind = "service" /\ RowOK("service", flow[a].item)
    BY <1>1, <1>10 DEF SubmitEdit, At, FlowOK
  <2>3. [flow[a] EXCEPT !.at = "checked", !.op = "update", !.name = n] \in Flow
    BY <1>1, <2>2 DEF Flow, FlowOK, Places, Ops, AllNames
  <2>. QED
    BY <1>1, <2>1, <2>3, Stays DEF Flow
<1>. QED
  BY <1>2, <1>3, <1>4, <1>5, <1>6, <1>7, <1>8, <1>9, <1>10

(* The guard lets a removal pass: someone else is in ZZADMIN too.          *)
LEMMA TwoAdmins ==
  ASSUME AdminInv, ~LastAdmin, NEW x
  PROVE  \E u \in AdminIds : u # x
<1>1. 1 \in Ids("group") /\ TableInv
  BY AdminAssumption DEF Ids, MaxOf, AdminInv
<1>2. Has("group", ZZADMIN)
  BY <1>1 DEF Has, TableInv
<1>3. Admins = AdminIds
  BY <1>1, AdminsAre
<1>4. AdminIds \subseteq 1 .. MaxUsers /\ MaxUsers \in Nat
  BY AdminAssumption DEF AdminIds, Ids, MaxOf
<1>5. IsFiniteSet(AdminIds)
  <2>1. IsFiniteSet(1 .. MaxUsers)
    BY <1>4, FS_Interval
  <2>. QED
    BY <1>4, <2>1, FS_Subset
<1>6. Cardinality(AdminIds) \in Nat /\ ~(Cardinality(AdminIds) <= 1)
  BY <1>2, <1>3, <1>5, FS_CardinalityType DEF LastAdmin
<1>7. Cardinality(AdminIds \ {x}) # 0
  BY <1>5, <1>6, FS_RemoveElement
<1>8. AdminIds \ {x} # {}
  BY <1>7, FS_EmptySet
<1>. QED
  BY <1>8

(* The steps that decide on a removal                                      *)
LEMMA GuardStep ==
  ASSUME AdminInv, NEW a \in Flows, crossed' = (crossed \/ Crosses(a)),
         CheckDelete(a) \/ Guard(a)
  PROVE  AdminInv'
<1>1. FlowInv /\ TableInv /\ flow[a] \in Flow /\ FlowOK(flow[a])
  BY Kept DEF AdminInv
<1>2. CASE CheckDelete(a)
  <2>. DEFINE f == [flow[a] EXCEPT !.at = IF flow[a].item.id \in Admins THEN "guard" ELSE "act",
                                   !.op = "delete"]
  <2>1. CASE flow[a].item.id = flow[a].me
    BY <1>1, <1>2, <2>1, ToListOK, Stays DEF CheckDelete
  <2>2. CASE flow[a].item.id # flow[a].me
    <3>1. Moves(a, f) /\ Unstored /\ flow[a].at = "confirm" /\ flow[a].kind = "user"
      BY <1>2, <2>2 DEF CheckDelete, At
    <3>2. f \in Flow /\ f.item = flow[a].item /\ f.op = "delete"
      <4>1. RowOK("user", flow[a].item)
        BY <1>1, <3>1 DEF FlowOK
      <4>2. /\ f.at \in {"guard", "act"} /\ f.op = "delete" /\ f.item = flow[a].item /\ f.kind = "user"
            /\ f \in [at : Places, me : 0 .. MaxUsers, kind : Kinds, item : AnyRow, other : AnyRow,
                      op : Ops, name : AllNames]
        BY <1>1, <3>1 DEF Flow, Places, Ops
      <4>3. FlowOK(f)
        BY <4>1, <4>2 DEF FlowOK
      <4>. QED
        BY <4>2, <4>3 DEF Flow
    <3>3. f.at = "act" => flow[a].item.id \notin AdminIds
      BY <1>1, AdminsAre DEF Flow
    <3>4. f.at = "act" => (~crossed => \E u \in AdminIds : u # Target(f))
      BY <3>2, <3>3 DEF AdminInv, GuardInv, Target
    <3>. HIDE DEF f
    <3>. QED
      BY <3>1, <3>2, <3>4, Stays
  <2>. QED
    BY <2>1, <2>2
<1>3. CASE Guard(a)
  <2>1. /\ flow[a].at = "guard" /\ Unstored
        /\ RowOK(flow[a].kind, flow[a].item)
    BY <1>1, <1>3 DEF Guard, At, FlowOK
  <2>2. CASE LastAdmin \/ (flow[a].op = "remove" /\ UserRow(flow[a]).id = flow[a].me)
    <3>1. Moves(a, ToJoin(a)) \/ Moves(a, ToList(a))
      BY <1>3, <2>2 DEF Guard
    <3>. QED
      BY <1>1, <2>1, <3>1, ToListOK, ToJoinOK, Stays
  <2>3. CASE ~(LastAdmin \/ (flow[a].op = "remove" /\ UserRow(flow[a]).id = flow[a].me))
    <3>1. Moves(a, [flow[a] EXCEPT !.at = "act"])
      BY <1>3, <2>3 DEF Guard
    <3>2. [flow[a] EXCEPT !.at = "act"] \in Flow
      BY <1>1, <2>1 DEF Flow, FlowOK, Places
    <3>3. \E u \in AdminIds : u # Target([flow[a] EXCEPT !.at = "act"])
      BY <2>3, TwoAdmins
    <3>. QED
      BY <2>1, <3>1, <3>2, <3>3, Stays
  <2>. QED
    BY <2>2, <2>3
<1>. QED
  BY <1>2, <1>3

(* The steps that store                                                    *)
LEMMA StoreStep ==
  ASSUME AdminInv, NEW a \in Flows, crossed' = (crossed \/ Crosses(a)),
         CommitDelete(a) \/ PressA(a) \/ PressR(a) \/ Act(a) \/ Create(a) \/ Update(a)
  PROVE  AdminInv'
<1>1. /\ FlowInv /\ TableInv /\ GrantInv /\ flow[a] \in Flow /\ FlowOK(flow[a])
      /\ flow[a].kind \in Kinds
  BY Kept DEF AdminInv, Flow
<1>2. ToList(a) \in Flow /\ ToList(a).at = "list"
  BY <1>1, ToListOK
<1>3. CASE CommitDelete(a)
  <2>1. /\ flow[a].kind # "user" /\ flow[a].item.id \in Ids(flow[a].kind)
        /\ flow[a].kind = "group" => flow[a].item.id # 1
        /\ DeleteRow(flow[a].kind, flow[a].item.id) /\ Moves(a, ToList(a))
    BY <1>1, <1>3 DEF CommitDelete, At, FlowOK, RowOK
  <2>2. TableInv' /\ GrantInv' /\ \A u \in AdminIds : u \in AdminIds'
    BY <1>1, <2>1, RowGone
  <2>. QED
    BY <1>2, <2>1, <2>2, Stores
<1>4. CASE PressA(a)
  <2>1. /\ RowOK(flow[a].kind, flow[a].item) /\ RowOK(OtherKind(flow[a].kind), flow[a].other)
        /\ InsertPair(Join(flow[a]), Pair(flow[a])) /\ Moves(a, ToJoin(a))
    BY <1>1, <1>4 DEF PressA, At, FlowOK
  <2>2. TableInv' /\ GrantInv' /\ AdminIds \subseteq AdminIds'
    BY <1>1, <2>1, PairTyped, PairAdded
  <2>3. ToJoin(a) \in Flow /\ ToJoin(a).at = "join"
    BY <1>1, <2>1, ToJoinOK
  <2>. QED
    BY <2>1, <2>2, <2>3, Stores
<1>5. CASE PressR(a)
  <2>1. /\ flow[a].at = "pair" /\ RowOK(flow[a].kind, flow[a].item)
        /\ RowOK(OtherKind(flow[a].kind), flow[a].other)
    BY <1>1, <1>5 DEF PressR, At, FlowOK
  <2>2. CASE Join(flow[a]) = "member" /\ GroupRow(flow[a]).name = ZZADMIN
    <3>1. Moves(a, [flow[a] EXCEPT !.at = "guard", !.op = "remove"]) /\ Unstored
      BY <1>5, <2>2 DEF PressR
    <3>2. flow[a].kind # "service"
      BY <2>2 DEF Join
    <3>3. [flow[a] EXCEPT !.at = "guard", !.op = "remove"] \in Flow
      BY <1>1, <2>1, <3>2 DEF Flow, FlowOK, Places, Ops
    <3>. QED
      BY <1>1, <3>1, <3>3, Stays DEF Flow
  <2>3. CASE ~(Join(flow[a]) = "member" /\ GroupRow(flow[a]).name = ZZADMIN)
    <3>1. DeletePair(Join(flow[a]), Pair(flow[a])) /\ Moves(a, ToJoin(a))
      BY <1>5, <2>3 DEF PressR
    <3>2. ~\E u : Join(flow[a]) = "member" /\ Pair(flow[a]) = <<u, 1>>
      BY <1>1, <2>1, <2>3, PairTyped DEF RowOK
    <3>3. Join(flow[a]) \in {"member", "link"}
      BY <1>1, <2>1, PairTyped
    <3>4. TableInv' /\ GrantInv' /\ \A u \in AdminIds : u \in AdminIds'
      BY <1>1, <3>1, <3>2, <3>3, PairGone
    <3>5. ToJoin(a) \in Flow /\ ToJoin(a).at = "join"
      BY <1>1, <2>1, ToJoinOK
    <3>. QED
      BY <3>1, <3>4, <3>5, Stores
  <2>. QED
    BY <2>2, <2>3
<1>6. CASE Act(a)
  <2>1. At(a) = "act" /\ flow[a].at = "act" /\ RowOK(flow[a].kind, flow[a].item)
    BY <1>1, <1>6 DEF Act, At, FlowOK
  <2>2. CASE flow[a].op = "delete"
    <3>1. DeleteRow("user", flow[a].item.id) /\ Moves(a, ToList(a)) /\ flow[a].kind = "user"
      BY <1>1, <1>6, <2>1, <2>2 DEF Act, FlowOK
    <3>2. flow[a].item.id \in Ids("user") /\ Target(flow[a]) = flow[a].item.id
      BY <2>1, <2>2, <3>1 DEF RowOK, Target
    <3>3. TableInv' /\ GrantInv' /\ \A u \in AdminIds : u \in AdminIds' \/ u = Target(flow[a])
      BY <1>1, <3>1, <3>2, RowGone
    <3>. QED
      BY <1>2, <2>1, <3>1, <3>3, Stores
  <2>3. CASE flow[a].op = "remove"
    <3>1. /\ DeletePair("member", Pair(flow[a])) /\ Moves(a, ToJoin(a)) /\ flow[a].kind # "service"
          /\ RowOK(OtherKind(flow[a].kind), flow[a].other)
      BY <1>1, <1>6, <2>1, <2>3 DEF Act, FlowOK
    <3>2. Join(flow[a]) = "member"
      BY <3>1 DEF Join
    <3>3. \A u : Pair(flow[a]) = <<u, 1>> => u = Target(flow[a])
      BY <1>1, <2>1, <2>3, <3>1, <3>2, PairTyped DEF Target
    <3>4. TableInv' /\ GrantInv' /\ \A u \in AdminIds : u \in AdminIds' \/ u = Target(flow[a])
      BY <1>1, <3>1, <3>3, PairGone
    <3>5. ToJoin(a) \in Flow /\ ToJoin(a).at = "join"
      BY <1>1, <2>1, ToJoinOK
    <3>. QED
      BY <2>1, <3>1, <3>4, <3>5, Stores
  <2>. QED
    BY <1>6, <2>2, <2>3 DEF Act
<1>7. CASE Create(a)
  <2>. DEFINE k == flow[a].kind
              n == flow[a].name
  <2>1. /\ flow[a].at = "checked" /\ n \in NamesOf[k] /\ (k = "group" => n \notin Reserved)
        /\ InsertOrGet(k, n) /\ UNCHANGED <<members, links>> /\ Moves(a, ToList(a))
    BY <1>1, <1>7 DEF Create, At, FlowOK
  <2>. HIDE DEF k, n
  <2>2. CASE UNCHANGED tab
    BY <1>1, <1>2, <2>1, <2>2, Stays DEF Unstored
  <2>3. CASE ~Has(k, n) /\ NewId(k) <= MaxOf[k] /\ tab' = [tab EXCEPT ![k] = [@ EXCEPT ![NewId(k)] = n]]
    <3>1. NewId(k) \in Ids(k) /\ tab[k][NewId(k)] = Absent
      BY <1>1, <2>3, NewIdFree DEF k
    <3>2. k = "group" => NewId(k) # 1
      BY <1>1, <3>1, AdminAssumption DEF TableInv
    <3>3. \A j \in Ids(k) : tab[k][j] = n => j = NewId(k)
      BY <2>3 DEF Has
    <3>4. TableInv' /\ GrantInv'
      <4>1. k \in Kinds
        BY <1>1 DEF k
      <4>. QED
        BY <1>1, <2>1, <2>3, <3>1, <3>2, <3>3, <4>1, RowNamed, Zenon
    <3>5. AdminIds' = AdminIds
      BY <2>1 DEF AdminIds
    <3>. QED
      BY <1>2, <2>1, <3>4, <3>5, Stores
  <2>. QED
    BY <2>1, <2>2, <2>3 DEF InsertOrGet
<1>8. CASE Update(a)
  <2>. DEFINE k == "service"
              i == flow[a].item.id
              n == flow[a].name
  <2>1. /\ i \in Ids(k) /\ n \in NamesOf[k]
        /\ \A j \in Ids(k) : tab[k][j] = n => j = i
        /\ tab' = [tab EXCEPT ![k] = [@ EXCEPT ![i] = n]]
        /\ UNCHANGED <<members, links>> /\ Moves(a, ToList(a))
    BY <1>1, <1>8 DEF Update, At, FlowOK, RowOK, NamesOf
  <2>2. k \in Kinds /\ k # "group"
    BY DEF Kinds
  <2>. HIDE DEF k, i, n
  <2>3. TableInv' /\ GrantInv'
    BY <1>1, <2>1, <2>2, RowNamed, Zenon
  <2>4. AdminIds' = AdminIds
    BY <2>1 DEF AdminIds
  <2>. QED
    BY <1>2, <2>1, <2>3, <2>4, Stores
<1>. QED
  BY <1>3, <1>4, <1>5, <1>6, <1>7, <1>8

(* AdminInv holds at the start, of the first administrator alone.          *)
LEMMA InitAdmin == Init => AdminInv
<1>. SUFFICES ASSUME Init PROVE AdminInv
  OBVIOUS
<1>1. 1 \in Ids("user") /\ 1 \in Ids("group")
  BY AdminAssumption DEF Ids, MaxOf
<1>2. FlowInv
  BY NoFlowOK DEF Init, FlowInv
<1>3. TableInv
  <2>1. tab["user"] \in [Ids("user") -> UserNames \cup {Absent}]
    BY AdminAssumption DEF Init
  <2>2. /\ tab["group"] \in [Ids("group") -> GroupNames \cup {Absent}]
        /\ \A i \in Ids("group") : tab["group"][i] = IF i = 1 THEN ZZADMIN ELSE Absent
    BY AdminAssumption DEF Init
  <2>3. tab["service"] \in [Ids("service") -> ServiceNames \cup {Absent}]
    BY DEF Init
  <2>4. ASSUME NEW k \in Kinds PROVE tab[k] \in [Ids(k) -> NamesOf[k] \cup {Absent}]
    BY <2>1, <2>2, <2>3 DEF Kinds, NamesOf
  <2>5. ASSUME NEW k \in Kinds, NEW i \in Ids(k), NEW j \in Ids(k), i # j
        PROVE  tab[k][i] = Absent \/ tab[k][i] # tab[k][j]
    <3>1. \A x \in Ids("user") : tab["user"][x] = IF x = 1 THEN FirstAdmin ELSE Absent
      BY DEF Init
    <3>2. \A x \in Ids("service") : tab["service"][x] = Absent
      BY DEF Init
    <3>. QED
      BY <2>2, <2>5, <3>1, <3>2, AdminAssumption DEF Kinds
  <2>6. tab = [k \in Kinds |-> tab[k]]
    BY DEF Init, Kinds
  <2>. QED
    BY <1>1, <2>2, <2>4, <2>5, <2>6, AdminAssumption DEF TableInv
<1>4. GrantInv
  <2>1. members = {<<1, 1>>} /\ links = {} /\ tab["user"][1] = FirstAdmin /\ tab["group"][1] = ZZADMIN
    BY <1>1 DEF Init
  <2>. QED
    BY <1>1, <2>1, AdminAssumption DEF GrantInv
<1>5. GuardInv
  <2>1. 1 \in AdminIds
    BY <1>1 DEF Init, AdminIds
  <2>2. \A a \in Flows : At(a) = "out"
    BY DEF Init, At, NoFlow
  <2>. QED
    BY <2>1, <2>2 DEF GuardInv
<1>. QED
  BY <1>2, <1>3, <1>4, <1>5 DEF AdminInv

(* AdminInv is inductive.                                                  *)
LEMMA NextAdmin == AdminInv /\ [Next]_vars => AdminInv'
<1>. SUFFICES ASSUME AdminInv, [Next]_vars PROVE AdminInv'
  OBVIOUS
<1>1. CASE UNCHANGED vars
  BY <1>1 DEF vars, AdminInv, FlowInv, TableInv, GrantInv, GuardInv, AdminIds, At
<1>2. CASE Next
  <2>1. PICK a \in Flows : Step(a) /\ crossed' = (crossed \/ Crosses(a))
    BY <1>2 DEF Next
  <2>. QED
    BY <2>1, ScreenStep, GuardStep, StoreStep DEF Step
<1>. QED
  BY <1>1, <1>2

(* So it always holds.                                                     *)
LEMMA AdminAlways == Spec => []AdminInv
BY InitAdmin, NextAdmin, PTL DEF Spec

(* No membership and no grant outlives a row it names, although ids are    *)
(* given out again and the screens act on stale ones (deleteCascade and    *)
(* the REFERENCES of user_groups and group_services).                      *)
THEOREM GrantsSound == Spec => []NoDanglingGrants
<1>1. AdminInv => NoDanglingGrants
  <2>. SUFFICES ASSUME AdminInv PROVE NoDanglingGrants
    OBVIOUS
  <2>1. DOMAIN tab = Kinds
    BY DEF AdminInv, TableInv
  <2>2. ASSUME NEW a \in Flows
        PROVE  /\ flow[a].at \in Places /\ flow[a].me \in 0 .. MaxUsers /\ flow[a].kind \in Kinds
               /\ flow[a].item \in AnyRow /\ flow[a].other \in AnyRow
               /\ flow[a].op \in {"none", "delete", "remove", "create", "update"}
    BY DEF AdminInv, FlowInv, Flow, Ops
  <2>3. TypeOK
    BY <2>1, <2>2 DEF TypeOK, AdminInv, FlowInv, TableInv, GrantInv
  <2>. QED
    BY <2>3 DEF NoDanglingGrants, AdminInv, GrantInv
<1>. QED
  BY <1>1, AdminAlways, PTL

(* Whatever the administrators do, the last of them is lost only when one  *)
(* crosses another's guard, and no reserved group but ZZADMIN comes to be  *)
(* (guardLastAdmin, deleteUser, Confirm, groupAdd).                        *)
THEOREM AdminRemains == Spec => []LastAdminUnlessCrossed
<1>1. AdminInv => LastAdminUnlessCrossed
  <2>. SUFFICES ASSUME AdminInv PROVE LastAdminUnlessCrossed
    OBVIOUS
  <2>1. 1 \in Ids("group") /\ TableInv /\ ZZADMIN \in Reserved
    BY AdminAssumption DEF Ids, MaxOf, AdminInv
  <2>2. \A n \in Reserved : Has("group", n) <=> n = ZZADMIN
    BY <2>1 DEF Has, TableInv
  <2>3. Admins = {} => crossed
    BY <2>1, AdminsAre DEF AdminInv, GuardInv
  <2>. QED
    BY <2>1, <2>2, <2>3 DEF LastAdminUnlessCrossed
<1>. QED
  BY <1>1, AdminAlways, PTL
=============================================================================
