---------------------------- MODULE TerminalProofs ---------------------------
(***************************************************************************)
(* Theorems about what people read and enter on their terminals: the audit *)
(* log (AuditLog.tla), the list panels and the line editor (Panels.tla),   *)
(* the MOTD, the menu and the other screens of a session (Menu.tla,        *)
(* Screens.tla), for any table, any terminal and any number of rows; and   *)
(* what a form may report, log and overwrite (Forms.tla), for any number   *)
(* of rows, names and parameters and any number of writes of others.       *)
(*                                                                         *)
(* The properties of the forms speak of a submit that is over.  Their      *)
(* invariant speaks of the steps it has gone through (Passed): what they   *)
(* have stored is still there unless others changed it, and what they have *)
(* logged is what they have stored.                                        *)
(*                                                                         *)
(* The line editor works from the last line to the first, so that after n  *)
(* lines the text before them is untouched and what follows is the images  *)
(* of those n put together (PrefixApplied); what it saves splits again at  *)
(* every newline (SplitJoined, ReadBack).                                  *)
(***************************************************************************)
EXTENDS Panels, Menu, AuditLog, Forms, Recursion, FiniteSetTheorems

(* Sorting a finite set whose elements have keys of their own gives each   *)
(* element one place, in the order of the keys.                            *)
LEMMA Sorting ==
  ASSUME NEW S, IsFiniteSet(S), NEW key \in [S -> Int],
         \A u, v \in S : key[u] = key[v] => u = v
  PROVE  /\ SortedBy(S, key) \in [1 .. Cardinality(S) -> S]
         /\ \A v \in S : \E i \in 1 .. Cardinality(S) : SortedBy(S, key)[i] = v
         /\ \A i, j \in 1 .. Cardinality(S) :
              i < j => key[SortedBy(S, key)[i]] < key[SortedBy(S, key)[j]]
         /\ \A i \in 1 .. Cardinality(S) : Cardinality({u \in S : key[u] <= key[SortedBy(S, key)[i]]}) = i
<1>. DEFINE n == Cardinality(S)
            Down(v) == {u \in S : key[u] <= key[v]}
            rank == [v \in S |-> Cardinality(Down(v))]
<1>1. n \in Nat
  BY FS_CardinalityType
<1>2. ASSUME NEW v \in S
      PROVE  IsFiniteSet(Down(v)) /\ Cardinality(Down(v)) \in 1 .. n
  <2>1. IsFiniteSet(Down(v)) /\ Cardinality(Down(v)) <= n
    BY FS_Subset
  <2>2. v \in Down(v)
    OBVIOUS
  <2>3. Cardinality(Down(v)) # 0
    BY <2>1, <2>2, FS_EmptySet
  <2>. QED
    BY <1>1, <2>1, <2>3, FS_CardinalityType
<1>3. ASSUME NEW u \in S, NEW v \in S, key[u] < key[v]
      PROVE  rank[u] < rank[v]
  <2>1. Down(u) \in SUBSET Down(v) /\ v \in Down(v) /\ v \notin Down(u)
    BY <1>3
  <2>2. Down(u) # Down(v)
    BY <2>1
  <2>. HIDE DEF Down
  <2>3. Cardinality(Down(u)) <= Cardinality(Down(v)) /\ Cardinality(Down(u)) # Cardinality(Down(v))
    BY <1>2, <2>1, <2>2, FS_Subset
  <2>. QED
    BY <1>2, <2>3
<1>4. rank \in [S -> 1 .. n] /\ \A v \in S : rank[v] = Cardinality({u \in S : key[u] <= key[v]})
  BY <1>2
<1>. HIDE DEF rank
<1>5. IsInjective(rank)
  <2>. SUFFICES ASSUME NEW u \in S, NEW v \in S, rank[u] = rank[v] PROVE u = v
    BY <1>4 DEF IsInjective
  <2>1. key[u] \in Int /\ key[v] \in Int /\ rank[u] \in Int /\ rank[v] \in Int
    BY <1>4
  <2>2. ~(key[u] < key[v]) /\ ~(key[v] < key[u])
    BY <1>3, <2>1
  <2>. QED
    BY <2>1, <2>2
<1>6. \A i \in 1 .. n : \E v \in S : rank[v] = i
  <2>1. IsFiniteSet(1 .. n) /\ Cardinality(1 .. n) = n
    BY <1>1, FS_Interval
  <2>2. rank \in Injection(S, 1 .. n)
    BY <1>4, <1>5 DEF Injection
  <2>3. rank \in Surjection(S, 1 .. n)
    BY <2>1, <2>2, FS_Injection
  <2>. QED
    BY <2>3 DEF Surjection
<1>7. SortedBy(S, key) = [i \in 1 .. n |-> CHOOSE v \in S : rank[v] = i]
  BY DEF SortedBy, rank
<1>. DEFINE q == SortedBy(S, key)
<1>8. \A i \in 1 .. n : q[i] \in S /\ rank[q[i]] = i
  BY <1>6, <1>7
<1>9. q \in [1 .. n -> S]
  BY <1>7, <1>8
<1>10. \A v \in S : q[rank[v]] = v
  BY <1>4, <1>5, <1>8 DEF IsInjective
<1>11. ASSUME NEW i \in 1 .. n, NEW j \in 1 .. n, i < j PROVE key[q[i]] < key[q[j]]
  <2>1. q[i] \in S /\ q[j] \in S /\ rank[q[i]] = i /\ rank[q[j]] = j
    BY <1>8
  <2>. HIDE DEF q
  <2>2. key[q[i]] \in Int /\ key[q[j]] \in Int
    BY <2>1
  <2>3. ~(key[q[j]] < key[q[i]])
    BY <1>3, <1>11, <2>1
  <2>4. key[q[i]] # key[q[j]]
    BY <1>11, <2>1
  <2>. QED
    BY <2>2, <2>3, <2>4
<1>12. \A i \in 1 .. n : Cardinality({u \in S : key[u] <= key[q[i]]}) = i
  BY <1>4, <1>8
<1>. QED
  BY <1>4, <1>9, <1>10, <1>11, <1>12

(* The same of numbers in their own order                                  *)
LEMMA Ascends ==
  ASSUME NEW S \in SUBSET Int, IsFiniteSet(S)
  PROVE  /\ Ascending(S) \in [1 .. Cardinality(S) -> S]
         /\ \A v \in S : \E i \in 1 .. Cardinality(S) : Ascending(S)[i] = v
         /\ \A i, j \in 1 .. Cardinality(S) : i < j => Ascending(S)[i] < Ascending(S)[j]
         /\ \A i \in 1 .. Cardinality(S) : Cardinality({u \in S : u <= Ascending(S)[i]}) = i
<1>. DEFINE key == [v \in S |-> v]
<1>1. key \in [S -> Int] /\ \A v \in S : key[v] = v
  OBVIOUS
<1>2. Ascending(S) = SortedBy(S, key)
  <2>. DEFINE byKey == [v \in S |-> Cardinality({u \in S : key[u] <= key[v]})]
              byValue == [v \in S |-> Cardinality({u \in S : u <= v})]
  <2>1. \A v \in S : {u \in S : key[u] <= key[v]} = {u \in S : u <= v}
    BY <1>1
  <2>2. byKey = byValue
    BY <2>1
  <2>3. SortedBy(S, key) = [i \in 1 .. Cardinality(S) |-> CHOOSE v \in S : byKey[v] = i]
    BY DEF SortedBy
  <2>4. Ascending(S) = [i \in 1 .. Cardinality(S) |-> CHOOSE v \in S : byValue[v] = i]
    BY DEF Ascending
  <2>. HIDE DEF byKey, byValue
  <2>. QED
    BY <2>2, <2>3, <2>4
<1>. HIDE DEF key
<1>3. /\ SortedBy(S, key) \in [1 .. Cardinality(S) -> S]
      /\ \A v \in S : \E i \in 1 .. Cardinality(S) : SortedBy(S, key)[i] = v
      /\ \A i, j \in 1 .. Cardinality(S) :
           i < j => key[SortedBy(S, key)[i]] < key[SortedBy(S, key)[j]]
      /\ \A i \in 1 .. Cardinality(S) : Cardinality({u \in S : key[u] <= key[SortedBy(S, key)[i]]}) = i
  <2>1. \A u, v \in S : key[u] = key[v] => u = v
    BY <1>1
  <2>. QED
    BY <1>1, <2>1, Sorting
<1>4. \A i, j \in 1 .. Cardinality(S) : i < j => Ascending(S)[i] < Ascending(S)[j]
  <2>. TAKE i, j \in 1 .. Cardinality(S)
  <2>1. SortedBy(S, key)[i] \in S /\ SortedBy(S, key)[j] \in S
    BY <1>3
  <2>2. i < j => key[SortedBy(S, key)[i]] < key[SortedBy(S, key)[j]]
    BY <1>3
  <2>. QED
    BY <1>1, <1>2, <2>1, <2>2
<1>5. \A i \in 1 .. Cardinality(S) : Cardinality({u \in S : u <= Ascending(S)[i]}) = i
  <2>. TAKE i \in 1 .. Cardinality(S)
  <2>1. Ascending(S)[i] \in S
    BY <1>2, <1>3
  <2>2. {u \in S : u <= Ascending(S)[i]} = {u \in S : key[u] <= key[Ascending(S)[i]]}
    BY <1>1, <2>1
  <2>. QED
    BY <1>2, <1>3, <2>2
<1>. QED
  BY <1>2, <1>3, <1>4, <1>5

-----------------------------------------------------------------------------
(* The audit log *)

(* Ids tell events apart, and an event carries the second it happened in.  *)
AuditInv ==
  /\ time \in Nat /\ lastID \in Nat
  /\ stamped \in [Recorders -> [subject : Accounts \cup {NoAccount}, actor : Accounts \cup {NoAccount},
                               happened : Nat] \cup {Nothing}]
  /\ IsFiniteSet(events)
  /\ \A e \in events : /\ e.id \in Nat /\ e.id <= lastID
                       /\ e.happened \in Nat /\ e.at = InSeconds(e.happened)
  /\ \A e, f \in events : e.id = f.id => e = f

LEMMA AuditStarts == AuditInit => AuditInv
BY FS_EmptySet DEF AuditInit, AuditInv

LEMMA AuditStep == AuditInv /\ [AuditNext]_auditVars => AuditInv'
<1>. SUFFICES ASSUME AuditInv, [AuditNext]_auditVars PROVE AuditInv'
  OBVIOUS
<1>1. CASE UNCHANGED auditVars
  BY <1>1 DEF AuditInv, auditVars
<1>2. CASE Tick
  BY <1>2 DEF AuditInv, Tick
<1>3. CASE RecentActivity \/ AuditList
  BY <1>3 DEF AuditInv, RecentActivity, AuditList
<1>4. CASE AuditPrune
  <2>1. UNCHANGED <<time, stamped, lastID>> /\ events' \in SUBSET events
    BY <1>4 DEF AuditPrune
  <2>2. IsFiniteSet(events')
    BY <2>1, FS_Subset DEF AuditInv
  <2>. QED
    BY <2>1, <2>2 DEF AuditInv
<1>5. ASSUME NEW r \in Recorders, Stamp(r) PROVE AuditInv'
  <2>1. UNCHANGED <<time, events, lastID>>
    BY <1>5 DEF Stamp
  <2>2. PICK entry \in Entries :
          stamped' = [stamped EXCEPT ![r] = [subject |-> entry[1], actor |-> entry[2], happened |-> time]]
    BY <1>5 DEF Stamp
  <2>3. entry[1] \in Accounts \cup {NoAccount} /\ entry[2] \in Accounts \cup {NoAccount}
    BY AuditLogAssumption
  <2>. QED
    BY <2>1, <2>2, <2>3 DEF AuditInv
<1>6. ASSUME NEW r \in Recorders, RecordAudit(r) PROVE AuditInv'
  <2>1. time' = time /\ stamped' = [stamped EXCEPT ![r] = Nothing] /\ stamped[r] # Nothing
    BY <1>6 DEF RecordAudit
  <2>2. CASE UNCHANGED <<lastID, events>>
    BY <2>1, <2>2 DEF AuditInv
  <2>3. CASE ~UNCHANGED <<lastID, events>>
    <3>. DEFINE new == [id |-> lastID + 1, at |-> InSeconds(stamped[r].happened),
                       subject |-> stamped[r].subject, actor |-> stamped[r].actor,
                       happened |-> stamped[r].happened]
    <3>1. lastID' = lastID + 1 /\ events' = events \cup {new}
      BY <1>6, <2>3 DEF RecordAudit
    <3>2. stamped[r].happened \in Nat
      BY <2>1 DEF AuditInv
    <3>3. new.id = lastID + 1 /\ new.happened \in Nat /\ new.at = InSeconds(new.happened)
      BY <3>2
    <3>. HIDE DEF new
    <3>4. IsFiniteSet(events')
      BY <3>1, FS_AddElement DEF AuditInv
    <3>5. \A e \in events : e # new => e.id # new.id
      BY <3>3 DEF AuditInv
    <3>6. stamped' \in [Recorders -> [subject : Accounts \cup {NoAccount}, actor : Accounts \cup {NoAccount},
                                      happened : Nat] \cup {Nothing}]
      BY <2>1 DEF AuditInv
    <3>7. \A e \in events' : /\ e.id \in Nat /\ e.id <= lastID'
                             /\ e.happened \in Nat /\ e.at = InSeconds(e.happened)
      BY <3>1, <3>3 DEF AuditInv
    <3>8. \A e, f \in events' : e.id = f.id => e = f
      BY <3>1, <3>5 DEF AuditInv
    <3>. QED
      BY <2>1, <3>1, <3>4, <3>6, <3>7, <3>8 DEF AuditInv
  <2>. QED
    BY <2>2, <2>3
<1>. QED
  BY <1>1, <1>2, <1>3, <1>4, <1>5, <1>6 DEF AuditNext

(* The list L has the newest events of S, n of them or all.                *)
NewestFirst(L, S, n) ==
  /\ L \in Seq(S) /\ Len(L) <= n
  /\ \A i, j \in 1 .. Len(L) : i < j => L[i].id > L[j].id
  /\ \A e \in S : \/ \E i \in 1 .. Len(L) : L[i] = e
                  \/ Len(L) = n /\ \A i \in 1 .. Len(L) : e.id < L[i].id

(* The first k rows of a list are such a list too.                         *)
LEMMA Shortened ==
  ASSUME NEW S, \A e \in S : e.id \in Nat, NEW L, NEW n \in Nat, NewestFirst(L, S, n),
         NEW k \in Nat, k <= Len(L)
  PROVE  NewestFirst(SubSeq(L, 1, k), S, k)
<1>. DEFINE K == SubSeq(L, 1, k)
<1>1. L \in Seq(S) /\ Len(L) \in Nat /\ \A i \in 1 .. Len(L) : L[i] \in S
  BY DEF NewestFirst
<1>2. K \in Seq(S) /\ Len(K) = k /\ \A i \in 1 .. k : K[i] = L[i]
  BY <1>1, SubSeqProperties
<1>. HIDE DEF K
<1>3. \A i, j \in 1 .. k : i < j => K[i].id > K[j].id
  <2>. TAKE i, j \in 1 .. k
  <2>1. i \in 1 .. Len(L) /\ j \in 1 .. Len(L)
    BY <1>1
  <2>2. i < j => L[i].id > L[j].id
    BY <2>1 DEF NewestFirst
  <2>3. K[i] = L[i] /\ K[j] = L[j]
    BY <1>2
  <2>. QED
    BY <2>2, <2>3
<1>4. ASSUME NEW e \in S, ~ \E i \in 1 .. k : K[i] = e
      PROVE  \A i \in 1 .. k : e.id < K[i].id
  <2>. TAKE i \in 1 .. k
  <2>1. i \in 1 .. Len(L) /\ K[i] = L[i]
    BY <1>1, <1>2
  <2>2. CASE \E j \in 1 .. Len(L) : L[j] = e
    <3>1. PICK j \in 1 .. Len(L) : L[j] = e
      BY <2>2
    <3>2. i < j
      BY <1>2, <1>4, <3>1
    <3>. QED
      BY <2>1, <3>1, <3>2 DEF NewestFirst
  <2>3. CASE ~ \E j \in 1 .. Len(L) : L[j] = e
    BY <2>1, <2>3 DEF NewestFirst
  <2>. QED
    BY <2>2, <2>3
<1>5. Len(K) <= k /\ 1 .. Len(K) = 1 .. k
  BY <1>2
<1>6. \A e \in S : \/ \E i \in 1 .. Len(K) : K[i] = e
                   \/ Len(K) = k /\ \A i \in 1 .. Len(K) : e.id < K[i].id
  <2>. TAKE e \in S
  <2>1. (~ \E i \in 1 .. k : K[i] = e) => \A i \in 1 .. k : e.id < K[i].id
    BY <1>4
  <2>. QED
    BY <1>2, <1>5, <2>1
<1>7. \A i, j \in 1 .. Len(K) : i < j => K[i].id > K[j].id
  BY <1>3, <1>5
<1>8. NewestFirst(K, S, k)
  BY <1>2, <1>5, <1>6, <1>7, Zenon DEF NewestFirst
<1>. QED
  BY <1>8 DEF K

LEMMA Listing ==
  ASSUME AuditInv, NEW subject, NEW actor, NEW since, NEW limit \in Int
  PROVE  /\ Capped(limit) \in Nat \ {0}
         /\ NewestFirst(ListAudit(subject, actor, since, limit), Selected(subject, actor, since), Capped(limit))
<1>. DEFINE S == Selected(subject, actor, since)
            key == [e \in S |-> -e.id]
            N == Cardinality(S)
            all == SortedBy(S, key)
            n == Capped(limit)
<1>1. n \in Nat \ {0}
  BY AuditLogAssumption DEF Capped
<1>2. S \in SUBSET events /\ \A e \in S : e.id \in Nat
  BY DEF Selected, AuditInv
<1>3. IsFiniteSet(S) /\ N \in Nat
  <2>. HIDE DEF S
  <2>. QED
    BY <1>2, FS_Subset, FS_CardinalityType DEF AuditInv
<1>. HIDE DEF S
<1>4. key \in [S -> Int] /\ \A e \in S : key[e] = -e.id
  BY <1>2
<1>. HIDE DEF key
<1>5. \A u, v \in S : key[u] = key[v] => u = v
  <2>. TAKE u, v \in S
  <2>1. u \in events /\ v \in events /\ u.id \in Nat /\ v.id \in Nat
    BY <1>2
  <2>2. key[u] = key[v] => u.id = v.id
    BY <1>4, <2>1
  <2>. QED
    BY <2>1, <2>2 DEF AuditInv
<1>6. /\ all \in [1 .. N -> S]
      /\ \A e \in S : \E i \in 1 .. N : all[i] = e
      /\ \A i, j \in 1 .. N : i < j => key[all[i]] < key[all[j]]
  BY <1>3, <1>4, <1>5, Sorting
<1>. HIDE DEF all, N, n
<1>7. all \in Seq(S) /\ Len(all) = N
  BY <1>3, <1>6
<1>8. \A i, j \in 1 .. N : i < j => all[i].id > all[j].id
  <2>. TAKE i, j \in 1 .. N
  <2>1. all[i] \in S /\ all[j] \in S
    BY <1>6
  <2>2. all[i].id \in Nat /\ all[j].id \in Nat /\ key[all[i]] = -all[i].id /\ key[all[j]] = -all[j].id
    BY <1>2, <1>4, <2>1
  <2>3. i < j => key[all[i]] < key[all[j]]
    BY <1>6
  <2>. QED
    BY <2>2, <2>3
<1>9. NewestFirst(all, S, N)
  BY <1>3, <1>6, <1>7, <1>8 DEF NewestFirst
<1>. DEFINE k == IF n < N THEN n ELSE N
<1>10. k \in Nat /\ k <= N /\ k <= n /\ (k # n => k = N)
  BY <1>1, <1>3
<1>11. ListAudit(subject, actor, since, limit) = SubSeq(all, 1, k)
  BY <1>7 DEF ListAudit, S, key, all, n
<1>. HIDE DEF k
<1>12. NewestFirst(SubSeq(all, 1, k), S, k)
  BY <1>2, <1>3, <1>7, <1>9, <1>10, Shortened
<1>13. k = N => SubSeq(all, 1, k) = all
  BY <1>7, SubSeqFull
<1>14. NewestFirst(SubSeq(all, 1, k), S, n)
  <2>1. CASE k = n
    BY <1>12, <2>1
  <2>2. CASE k = N /\ k # n
    <3>1. SubSeq(all, 1, k) = all /\ N <= n
      BY <1>10, <1>13, <2>2
    <3>2. \A e \in S : \E i \in 1 .. Len(all) : all[i] = e
      BY <1>6, <1>7
    <3>. QED
      BY <1>7, <1>8, <3>1, <3>2 DEF NewestFirst
  <2>. QED
    BY <1>10, <2>1, <2>2
<1>. QED
  BY <1>1, <1>11, <1>14 DEF S, n

(* What is due is selected: the comparison in whole seconds loses none of  *)
(* it.                                                                     *)
LEMMA DueSelected ==
  ASSUME AuditInv, NEW subject, NEW actor, NEW since \in Int
  PROVE  Due(subject, actor, since) \subseteq Selected(subject, actor, since)
<1>. SUFFICES ASSUME NEW e \in Due(subject, actor, since) PROVE e \in Selected(subject, actor, since)
  OBVIOUS
<1>1. e \in events /\ e.happened \in Nat /\ e.at = e.happened \div 2
  BY DEF Due, AuditInv, InSeconds
<1>2. e.happened >= since
  BY DEF Due
<1>3. since >= 0 => e.at >= since \div 2
  <2>1. \A h, s \in Nat : h >= s => h \div 2 >= s \div 2
    OBVIOUS
  <2>. QED
    BY <1>1, <1>2, <2>1
<1>. QED
  BY <1>1, <1>3 DEF Due, Selected, InSeconds

LEMMA NewestComplete ==
  ASSUME NEW S, NEW due \in SUBSET S, NEW L, NEW n, NewestFirst(L, S, n)
  PROVE  Complete(L, due, n)
<1>1. DOMAIN L = 1 .. Len(L) /\ ToSet(L) = {L[i] : i \in 1 .. Len(L)}
  BY DEF NewestFirst, ToSet
<1>2. \A e \in due \ ToSet(L) : Len(L) = n /\ \A i \in 1 .. Len(L) : e.id < L[i].id
  BY <1>1 DEF NewestFirst
<1>. QED
  BY <1>1, <1>2 DEF Complete, NewestFirst

LEMMA AgoType == AuditInv => \A d \in Nat : Ago(d) \in Nat
BY DEF Ago, AuditInv

LEMMA CommandTold == AuditInv /\ AuditList => Told(shown')
<1>. SUFFICES ASSUME AuditInv, AuditList PROVE Told(shown')
  OBVIOUS
<1>1. PICK subject, actor \in Accounts \cup {NoAccount}, d \in Ages \cup {Garbled, -1}, limit \in Limits :
        /\ d # Garbled
        /\ LET since == IF d = -1 THEN -1 ELSE Ago(d)
           IN shown' = [panel |-> FALSE, subject |-> subject, actor |-> actor, since |-> since, limit |-> limit,
                        rows |-> ListAudit(subject, actor, since, limit), newest |-> FALSE]
  BY DEF AuditList
<1>. DEFINE since == IF d = -1 THEN -1 ELSE Ago(d)
            L == ListAudit(subject, actor, since, limit)
<1>2. since \in Int /\ limit \in Int
  BY <1>1, AgoType, AuditLogAssumption
<1>3. /\ shown'.panel = FALSE /\ shown'.subject = subject /\ shown'.actor = actor
      /\ shown'.since = since /\ shown'.limit = limit /\ shown'.rows = L
  BY <1>1
<1>. HIDE DEF since
<1>4. NewestFirst(L, Selected(subject, actor, since), Capped(limit))
  BY <1>2, Listing
<1>. HIDE DEF L
<1>5. Complete(L, Due(subject, actor, since), Capped(limit))
  BY <1>2, <1>4, DueSelected, NewestComplete
<1>. QED
  BY <1>3, <1>5 DEF Told

LEMMA PanelTold == AuditInv /\ RecentActivity => Told(shown')
<1>. SUFFICES ASSUME AuditInv, RecentActivity PROVE Told(shown')
  OBVIOUS
<1>. DEFINE since == Ago(auditWindow)
            S == Selected(NoAccount, NoAccount, since)
            due == Due(NoAccount, NoAccount, since)
<1>1. PICK v \in RowsValues :
        LET evs == ListAudit(NoAccount, NoAccount, since, auditCap(v) + 1)
            over == Len(evs) > auditCap(v)
        IN shown' = [panel |-> TRUE, subject |-> NoAccount, actor |-> NoAccount, since |-> since,
                     limit |-> auditCap(v),
                     rows |-> IF over THEN SubSeq(evs, 1, auditCap(v)) ELSE evs, newest |-> over]
  BY DEF RecentActivity
<1>. DEFINE cap == auditCap(v)
            evs == ListAudit(NoAccount, NoAccount, since, cap + 1)
            over == Len(evs) > cap
            kept == IF over THEN SubSeq(evs, 1, cap) ELSE evs
<1>2. cap \in Nat /\ cap >= 1
  BY AuditLogAssumption DEF auditCap
<1>3. since \in Nat
  BY AgoType, AuditLogAssumption
<1>4. /\ shown'.panel = TRUE /\ shown'.subject = NoAccount /\ shown'.actor = NoAccount
      /\ shown'.since = since /\ shown'.limit = cap /\ shown'.rows = kept /\ shown'.newest = over
  BY <1>1
<1>. HIDE DEF cap, since
<1>5. Capped(cap) = cap /\ Capped(cap + 1) = cap + 1
  BY <1>2 DEF Capped
<1>6. NewestFirst(evs, S, cap + 1)
  BY <1>2, <1>3, <1>5, Listing
<1>. HIDE DEF evs
<1>7. due \in SUBSET S
  BY <1>3, DueSelected
<1>8. \A e \in S : e \in events /\ e.id \in Nat /\ e.at >= InSeconds(since)
  BY <1>3 DEF Selected, AuditInv
<1>. HIDE DEF S, due
<1>9. evs \in Seq(S) /\ Len(evs) \in Nat /\ Len(evs) <= cap + 1
  BY <1>6 DEF NewestFirst
<1>10. CASE over
  <2>1. Len(evs) = cap + 1 /\ kept = SubSeq(evs, 1, cap)
    BY <1>2, <1>9, <1>10
  <2>2. NewestFirst(kept, S, cap)
    BY <1>2, <1>6, <1>8, <2>1, Shortened
  <2>3. Complete(kept, due, cap)
    BY <1>7, <2>2, NewestComplete
  <2>. DEFINE e == evs[cap + 1]
  <2>4. e \in S
    BY <1>2, <1>9, <2>1
  <2>5. ToSet(kept) = {evs[i] : i \in 1 .. cap}
    <3>1. Len(kept) = cap /\ kept \in Seq(S) /\ \A i \in 1 .. cap : kept[i] = evs[i]
      BY <1>2, <1>9, <2>1, SubSeqProperties
    <3>. HIDE DEF kept
    <3>2. DOMAIN kept = 1 .. cap
      BY <3>1
    <3>. QED
      BY <3>1, <3>2 DEF ToSet
  <2>6. \A i \in 1 .. cap : evs[i].id > e.id
    BY <1>2, <1>6, <2>1 DEF NewestFirst
  <2>7. \A i \in 1 .. cap : evs[i] # e
    BY <1>8, <2>4, <2>6
  <2>8. e \in events \ ToSet(kept) /\ e.at >= InSeconds(since)
    BY <1>8, <2>4, <2>5, <2>7
  <2>. HIDE DEF kept, e
  <2>. QED
    BY <1>4, <1>5, <1>10, <2>3, <2>8 DEF Told, due
<1>11. CASE ~over
  <2>1. Len(evs) # cap + 1 /\ kept = evs
    BY <1>2, <1>9, <1>11
  <2>2. Complete(evs, due, cap + 1)
    BY <1>6, <1>7, NewestComplete
  <2>3. due \ ToSet(evs) = {}
    BY <2>1, <2>2 DEF Complete
  <2>4. Complete(kept, due, cap)
    BY <2>1, <2>2, <2>3 DEF Complete
  <2>. HIDE DEF kept
  <2>. QED
    BY <1>4, <1>5, <1>11, <2>1, <2>3, <2>4 DEF Told, due
<1>. QED
  BY <1>10, <1>11

(* What a prune deletes is older than an age that was asked for.           *)
LEMMA PruneOld ==
  ASSUME AuditInv, AuditPrune
  PROVE  \A e \in events \ events' : \E d \in Ages \ {0} : time - e.happened > d
<1>1. PICK d \in Ages : d # 0 /\ events' = events \ Expired(Ago(d))
  BY DEF AuditPrune
<1>. SUFFICES ASSUME NEW e \in events, e \in Expired(Ago(d)) PROVE time - e.happened > d
  BY <1>1
<1>2. time \in Nat /\ e.happened \in Nat /\ d \in Nat /\ e.at = e.happened \div 2
  BY AuditLogAssumption DEF AuditInv, InSeconds
<1>3. e.at < Ago(d) \div 2
  BY DEF Expired, InSeconds
<1>4. \A h, a \in Nat : h \div 2 < a \div 2 => h < a /\ a # 0
  OBVIOUS
<1>5. Ago(d) \in Nat
  BY <1>2, AgoType
<1>6. e.happened < Ago(d) /\ Ago(d) # 0
  BY <1>2, <1>3, <1>4, <1>5
<1>. QED
  BY <1>2, <1>6 DEF Ago

(* The audit log drops nothing silently: every list the panel or the       *)
(* command writes has all events of its filter and time or is full of      *)
(* later ones, of which the panel tells, and a prune spares what is        *)
(* younger than the age asked for (auditLog, runAuditList, runAuditPrune), *)
(* for any number of events, recorders, limits and caps.                   *)
THEOREM LogExact == AuditSpec => AuditLogExact
<1>1. AuditSpec => []AuditInv
  BY AuditStarts, AuditStep, PTL DEF AuditSpec
<1>2. ASSUME AuditInv, AuditNext
      PROVE  /\ shown' # NoList => Told(shown')
             /\ \A e \in events \ events' : \E d \in Ages \ {0} : time - e.happened > d
  <2>1. CASE Tick
    BY <2>1 DEF Tick
  <2>2. CASE RecentActivity
    BY <1>2, <2>2, PanelTold DEF RecentActivity
  <2>3. CASE AuditList
    BY <1>2, <2>3, CommandTold DEF AuditList
  <2>4. CASE AuditPrune
    <3>1. shown' = NoList
      BY <2>4 DEF AuditPrune
    <3>. QED
      BY <1>2, <2>4, <3>1, PruneOld
  <2>5. ASSUME NEW r \in Recorders, Stamp(r) \/ RecordAudit(r)
        PROVE  shown' = NoList /\ events \subseteq events'
    BY <2>5 DEF Stamp, RecordAudit
  <2>. QED
    BY <1>2, <2>1, <2>2, <2>3, <2>4, <2>5 DEF AuditNext
<1>3. AuditInv /\ [AuditNext]_auditVars =>
        [/\ shown' # NoList => Told(shown')
         /\ \A e \in events \ events' : \E d \in Ages \ {0} : time - e.happened > d]_auditVars
  BY <1>2
<1>. QED
  BY <1>1, <1>3, PTL DEF AuditSpec, AuditLogExact

-----------------------------------------------------------------------------
(* Paging *)

(* Page p has rows if it starts before the last one.                       *)
LEMMA PageStarts ==
  ASSUME NEW size \in Nat \ {0}, NEW p \in Nat, NEW total \in Nat \ {0}
  PROVE  p <= (total - 1) \div size <=> p * size < total
<1>. DEFINE q == (total - 1) \div size
<1>1. q \in Nat /\ q * size <= total - 1 /\ total - 1 < q * size + size
  OBVIOUS
<1>. HIDE DEF q
<1>2. p <= q => p * size <= q * size
  BY <1>1
<1>3. p > q => p * size >= q * size + size
  BY <1>1
<1>4. p * size \in Nat /\ q * size \in Nat
  BY <1>1
<1>5. p <= q <=> p * size < total
  BY <1>1, <1>2, <1>3, <1>4
<1>. QED
  BY <1>5 DEF q

(* A page to go to: the first one, or one that has rows                    *)
HasRows(p, size, total) == p \in Nat /\ (p = 0 \/ p * size < total)

(* Whatever page is asked for, a page that has rows is shown.              *)
LEMMA BoundsShown ==
  ASSUME NEW size \in Nat \ {0}, NEW p \in Int, NEW total \in Nat
  PROVE  HasRows(PageBounds(size, total, p).page, size, total)
<1>. DEFINE maxPage == (total - 1) \div size
            q == IF total = 0 \/ p < 0 THEN 0 ELSE IF p < maxPage THEN p ELSE maxPage
<1>1. total # 0 => maxPage \in Nat
  OBVIOUS
<1>2. ASSUME total # 0, NEW r \in Nat, r <= maxPage PROVE r * size < total
  BY <1>2, PageStarts
<1>3. PageBounds(size, total, p).page = q
  BY DEF PageBounds, Smaller
<1>. HIDE DEF maxPage
<1>4. q \in Nat /\ (q = 0 \/ (total # 0 /\ q <= maxPage))
  BY <1>1
<1>. HIDE DEF q
<1>5. q = 0 \/ q * size < total
  BY <1>2, <1>4
<1>. QED
  BY <1>3, <1>4, <1>5 DEF HasRows

(* The page shown is the page asked for, if that has rows.                 *)
LEMMA BoundsKept ==
  ASSUME NEW size \in Nat \ {0}, NEW p, NEW total \in Nat, HasRows(p, size, total)
  PROVE  PageBounds(size, total, p) =
           [page |-> p, start |-> p * size, end |-> Smaller(p * size + size, total)]
<1>1. p \in Nat /\ 0 * size = 0
  BY DEF HasRows
<1>. DEFINE maxPage == (total - 1) \div size
            q == IF total = 0 \/ p < 0 THEN 0 ELSE Smaller(p, maxPage)
<1>2. total # 0 => p <= maxPage /\ maxPage \in Int
  <2>1. total # 0 => p * size < total
    BY <1>1 DEF HasRows
  <2>. QED
    BY <1>1, <2>1, PageStarts
<1>. HIDE DEF maxPage
<1>3. total = 0 => p = 0
  <2>1. p * size >= 0
    BY <1>1
  <2>. QED
    BY <2>1 DEF HasRows
<1>4. q = p
  BY <1>1, <1>2, <1>3 DEF Smaller
<1>. QED
  BY <1>4 DEF PageBounds, maxPage

(* The panels have the same arithmetic as the menu and the help.           *)
LEMMA SameBounds ==
  ASSUME NEW p \in Int, NEW total \in Nat
  PROVE  pageBounds(p, total) = PageBounds(PageSize, total, p)
<1>1. total # 0 => (total - 1) \div PageSize \in Int
  BY PanelsAssumption
<1>. DEFINE maxPage == (total - 1) \div PageSize
            q == IF total = 0 \/ p < 0 THEN 0 ELSE IF p > maxPage THEN maxPage ELSE p
            r == IF total = 0 \/ p < 0 THEN 0 ELSE IF p < maxPage THEN p ELSE maxPage
<1>. HIDE DEF maxPage
<1>2. q = r
  BY <1>1 DEF maxPage
<1>3. PageBounds(PageSize, total, p) = [page |-> r, start |-> r * PageSize, end |-> Smaller(r * PageSize + PageSize, total)]
  BY DEF PageBounds, Smaller, maxPage
<1>. QED
  BY <1>2, <1>3 DEF pageBounds, Smaller, maxPage

LEMMA PageKept ==
  ASSUME NEW p, NEW total \in Nat, HasRows(p, PageSize, total)
  PROVE  pageBounds(p, total) =
           [page |-> p, start |-> p * PageSize, end |-> Smaller(p * PageSize + PageSize, total)]
<1>1. p \in Int
  BY DEF HasRows
<1>. QED
  BY <1>1, SameBounds, BoundsKept, PanelsAssumption

LEMMA PageShown ==
  ASSUME NEW p \in Int, NEW total \in Nat
  PROVE  HasRows(pageBounds(p, total).page, PageSize, total)
BY SameBounds, BoundsShown, PanelsAssumption

(* A set of numbers that is not empty has a least one.                     *)
LEMMA Least ==
  ASSUME NEW S \in SUBSET Nat, S # {}
  PROVE  Min(S) \in S /\ \A y \in S : Min(S) <= y
<1>1. IsWellFoundedOn(OpToRel(<, Nat), Nat)
  BY NatLessThanWellFounded
<1>2. \A a, b \in Nat : <<a, b>> \in OpToRel(<, Nat) <=> a < b
  BY DEF OpToRel
<1>3. PICK m \in S : \A y \in S : <<y, m>> \notin OpToRel(<, Nat)
  BY <1>1, WFMin
<1>4. ASSUME NEW y \in S PROVE m <= y
  <2>1. m \in Nat /\ y \in Nat /\ ~(y < m)
    BY <1>2, <1>3
  <2>. QED
    BY <2>1
<1>5. \E x \in S : \A y \in S : x <= y
  BY <1>3, <1>4
<1>. QED
  BY <1>5, Zenon DEF Min

-----------------------------------------------------------------------------
(* The list panels *)

(* A confirm is pending exactly on the row that the prompt names, a        *)
(* command is on a row of the page, and the page shown has rows.           *)
PanelInv ==
  /\ data \subseteq Items /\ rows \in Seq(Items)
  /\ mode \in Lists => HasRows(page, PageSize, Len(rows))
  /\ mode = "list" /\ pending # Quiet => pending \in Items /\ msg = Prompt(pending)
  /\ mode \in Lists /\ act # Quiet /\ act.cmd # Blank => act.pf = "none" /\ act.row \in 1 .. Len(Shown)

LEMMA Fetched == ASSUME NEW S \in SUBSET Items PROVE Ascending(S) \in Seq(Items)
<1>1. IsFiniteSet(S) /\ S \in SUBSET Int
  <2>1. IsFiniteSet(Items) /\ Items \subseteq Nat
    BY PanelsAssumption
  <2>2. IsFiniteSet(S)
    BY <2>1, FS_Subset
  <2>. QED
    BY <2>1, <2>2
<1>2. Ascending(S) \in [1 .. Cardinality(S) -> S] /\ Cardinality(S) \in Nat
  BY <1>1, Ascends, FS_CardinalityType
<1>. QED
  BY <1>2

(* What is shown is a part of the rows.                                    *)
LEMMA ShownRows ==
  ASSUME PanelInv, mode \in Lists
  PROVE  /\ Bounds = pageBounds(page, Len(rows)) /\ Bounds.page = page
         /\ Bounds.start = page * PageSize /\ Bounds.start \in Nat /\ Bounds.end \in Nat
         /\ Bounds.end = IF Bounds.start + PageSize < Len(rows) THEN Bounds.start + PageSize ELSE Len(rows)
         /\ Shown \in Seq(Items)
<1>1. mode # "edit"
  BY DEF Lists
<1>2. Len(rows) \in Nat /\ page \in Nat /\ (page = 0 \/ page * PageSize < Len(rows))
  BY DEF PanelInv, HasRows
<1>3. Bounds = pageBounds(page, Len(rows))
  BY <1>1 DEF Bounds
<1>4. PageSize \in Nat \ {0} /\ page * PageSize \in Nat
  BY <1>2, PanelsAssumption
<1>5. /\ Bounds.page = page /\ Bounds.start = page * PageSize
      /\ Bounds.end = IF page * PageSize + PageSize < Len(rows) THEN page * PageSize + PageSize ELSE Len(rows)
  BY <1>2, <1>3, PageKept DEF HasRows, Smaller
<1>6. Bounds.end \in Nat /\ Bounds.end <= Len(rows)
  BY <1>2, <1>4, <1>5
<1>7. SubSeq(rows, Bounds.start + 1, Bounds.end) \in Seq(Items)
  <2>. DEFINE m == Bounds.start + 1
              n == Bounds.end
  <2>1. m \in 1 .. m /\ n \in 0 .. Len(rows) /\ rows \in Seq(Items) /\ m \in Nat
    BY <1>4, <1>5, <1>6 DEF PanelInv
  <2>. HIDE DEF m, n
  <2>2. \A i \in m .. n : rows[i] \in Items
    BY <2>1
  <2>. QED
    BY <2>1, <2>2, SubSeqProperties DEF m, n
<1>. QED
  BY <1>3, <1>4, <1>5, <1>6, <1>7 DEF Shown

LEMMA PanelStarts == Init => PanelInv
BY DEF Init, PanelInv, Lists

(* The next screen of RunList                                              *)
LEMMA ListScreenKeeps ==
  ASSUME NEW p \in Int, NEW pend, NEW m, ListScreen(p, pend, m), data' \in SUBSET Items,
         pend # Quiet => pend \in Items /\ m = Prompt(pend)
  PROVE  PanelInv'
<1>1. PICK ok \in BOOLEAN :
        /\ rows' = IF ok THEN Ascending(data') ELSE <<>>
        /\ page' = pageBounds(p, Len(rows')).page
        /\ pending' = IF ok THEN pend ELSE Quiet
        /\ msg' = IF ok THEN m ELSE Error
        /\ mode' = "list" /\ act' = Quiet
  BY DEF ListScreen
<1>2. rows' \in Seq(Items)
  <2>1. Ascending(data') \in Seq(Items)
    BY Fetched
  <2>. QED
    BY <1>1, <2>1
<1>3. HasRows(page', PageSize, Len(rows'))
  <2>1. Len(rows') \in Nat
    BY <1>2
  <2>. QED
    BY <1>1, <2>1, PageShown
<1>. QED
  BY <1>1, <1>2, <1>3 DEF PanelInv, HasRows, Prompt

(* The next screen of RunSnapshotList                                      *)
LEMMA SnapshotScreenKeeps ==
  ASSUME PanelInv, NEW p, NEW refresh, SnapshotScreen(p, refresh), data' \in SUBSET Items,
         mode' \in {"sessions", "audit"}
  PROVE  PanelInv'
<1>1. rows' \in Seq(Items)
  <2>1. Ascending(data') \in Seq(Items)
    BY Fetched
  <2>2. rows' \in {rows, Ascending(data'), <<>>}
    BY DEF SnapshotScreen
  <2>3. rows \in Seq(Items) /\ <<>> \in Seq(Items)
    BY DEF PanelInv
  <2>. QED
    BY <2>1, <2>2, <2>3
<1>2. page' = pageBounds(0, Len(rows')).page /\ act' = Quiet
  BY DEF SnapshotScreen, CarriedPage
<1>3. HasRows(page', PageSize, Len(rows'))
  <2>1. Len(rows') \in Nat
    BY <1>1
  <2>. QED
    BY <1>2, <2>1, PageShown
<1>. QED
  BY <1>1, <1>2, <1>3 DEF PanelInv, HasRows

LEMMA LeaveKeeps == Leave => PanelInv'
BY DEF Leave, PanelInv, Lists

(* What a list's transmission can be                                       *)
LEMMA Transmitted ==
  ASSUME PanelInv, mode \in Lists, NEW keys, NEW a \in ListTransmissions(keys), a.cmd # Blank
  PROVE  a.pf = "none" /\ a.row \in 1 .. Len(Shown)
<1>1. PICK aid \in {"Enter"} \cup keys, cmds \in [1 .. Len(Shown) -> Commands \cup {Blank}] :
        a = listAction(aid, cmds)
  BY DEF ListTransmissions
<1>. DEFINE entered == {i \in DOMAIN cmds : cmds[i] # Blank}
<1>2. aid = "Enter" /\ entered # {} /\ a.pf = "none" /\ a.row = Min(entered)
  BY <1>1 DEF listAction
<1>3. entered \subseteq 1 .. Len(Shown) /\ 1 .. Len(Shown) \subseteq Nat
  <2>1. Shown \in Seq(Items)
    BY ShownRows
  <2>. QED
    BY <1>1, <2>1
<1>. HIDE DEF entered
<1>4. Min(entered) \in entered
  BY <1>2, <1>3, Least
<1>. QED
  BY <1>2, <1>3, <1>4

(* The row of a command                                                    *)
LEMMA Commanded ==
  ASSUME PanelInv, mode \in Lists, act # Quiet, act.cmd # Blank
  PROVE  Shown[act.row] \in Items
<1>1. Shown \in Seq(Items) /\ act.row \in 1 .. Len(Shown)
  BY ShownRows DEF PanelInv
<1>. QED
  BY <1>1, ElementOfSeq

LEMMA RunListKeeps == PanelInv /\ RunList => PanelInv'
<1>. SUFFICES ASSUME PanelInv, RunList PROVE PanelInv'
  OBVIOUS
<1>0. mode = "list" /\ mode \in Lists
  BY DEF RunList, ConfirmCommit, ConfirmCancel, ListEnd, ListAdd, ListPage, ListRefresh, ListCommand,
         Unconfirmed, Lists
<1>1. page \in Int /\ page - 1 \in Int /\ NextPage(Len(rows)) \in Int /\ data \subseteq Items
  BY <1>0 DEF PanelInv, HasRows, NextPage
<1>2. CASE ConfirmCommit
  <2>1. PICK ok \in BOOLEAN :
          /\ data' = IF ok THEN data \ {pending} ELSE data
          /\ ListScreen(page, Quiet, IF ok THEN Clear ELSE Error)
    BY <1>2 DEF ConfirmCommit
  <2>. QED
    BY <1>1, <2>1, ListScreenKeeps
<1>3. CASE ConfirmCancel
  BY <1>1, <1>3, ListScreenKeeps DEF ConfirmCancel
<1>4. CASE ListEnd
  BY <1>4, LeaveKeeps DEF ListEnd
<1>5. CASE ListAdd
  <2>1. data' \in SUBSET Items /\ ListScreen(page, Quiet, Clear)
    BY <1>1, <1>5 DEF ListAdd
  <2>. QED
    BY <1>1, <2>1, ListScreenKeeps
<1>6. CASE ListPage
  <2>1. data' \in SUBSET Items
        /\ ListScreen(IF act.pf = "PF7" THEN page - 1 ELSE NextPage(Len(rows)), Quiet, Clear)
    BY <1>1, <1>6 DEF ListPage
  <2>2. (IF act.pf = "PF7" THEN page - 1 ELSE NextPage(Len(rows))) \in Int
    BY <1>1
  <2>. QED
    BY <2>1, <2>2, ListScreenKeeps
<1>7. CASE ListRefresh
  BY <1>1, <1>7, ListScreenKeeps DEF ListRefresh
<1>8. CASE ListCommand
  <2>. DEFINE item == Shown[act.row]
              asks == act.cmd = "D" /\ item \notin Blocked
              pend == IF asks THEN item ELSE Quiet
  <2>1. PICK m \in (IF asks THEN {Prompt(item)} ELSE IF act.cmd = "S" THEN {Clear, Error} ELSE {Error}) :
          UNCHANGED data /\ ListScreen(page, pend, m)
    BY <1>8 DEF ListCommand
  <2>2. item \in Items
    BY <1>0, <1>8, Commanded DEF ListCommand, Unconfirmed
  <2>3. pend # Quiet => pend \in Items /\ m = Prompt(pend)
    BY <2>1, <2>2
  <2>. HIDE DEF pend
  <2>. QED
    BY <1>1, <2>1, <2>3, ListScreenKeeps
<1>. QED
  BY <1>2, <1>3, <1>4, <1>5, <1>6, <1>7, <1>8 DEF RunList

LEMMA RunSnapshotKeeps == PanelInv /\ RunSnapshotList => PanelInv'
<1>. SUFFICES ASSUME PanelInv, RunSnapshotList PROVE PanelInv'
  OBVIOUS
<1>1. CASE SnapshotEnd
  BY <1>1, LeaveKeeps DEF SnapshotEnd
<1>2. CASE ~SnapshotEnd
  <2>1. mode' \in {"sessions", "audit"} /\ data' \in SUBSET Items
    BY <1>2 DEF RunSnapshotList, SnapshotPage, SnapshotSelect, SnapshotRefresh, SnapshotOther, InSnapshot, PanelInv
  <2>2. \E p : \E refresh : SnapshotScreen(p, refresh)
    BY <1>2, Zenon DEF RunSnapshotList, SnapshotPage, SnapshotSelect, SnapshotRefresh, SnapshotOther
  <2>. QED
    BY <2>1, <2>2, SnapshotScreenKeeps
<1>. QED
  BY <1>1, <1>2

LEMMA PressKeeps == PanelInv /\ Press => PanelInv'
<1>. SUFFICES ASSUME PanelInv, Press PROVE PanelInv'
  OBVIOUS
<1>1. UNCHANGED <<mode, data, rows, page, pending, msg, doc, lines>>
  BY DEF Press
<1>2. CASE mode \in Lists
  <2>1. PICK keys : act' \in ListTransmissions(keys)
    BY <1>2, Zenon DEF Press, Lists
  <2>2. act'.cmd # Blank => act'.pf = "none" /\ act'.row \in 1 .. Len(Shown)
    BY <1>2, <2>1, Transmitted
  <2>3. Shown' = Shown
    BY <1>1 DEF Shown, Bounds
  <2>. QED
    BY <1>1, <2>2, <2>3 DEF PanelInv
<1>3. CASE mode \notin Lists
  BY <1>1, <1>3 DEF PanelInv, Lists
<1>. QED
  BY <1>2, <1>3

LEMMA PanelStep == PanelInv /\ [Next]_vars => PanelInv'
<1>. SUFFICES ASSUME PanelInv, [Next]_vars PROVE PanelInv'
  OBVIOUS
<1>1. CASE UNCHANGED vars
  BY <1>1 DEF vars, PanelInv, Shown, Bounds
<1>2. CASE OpenList
  BY <1>2, ListScreenKeeps DEF OpenList
<1>3. CASE OpenSnapshot
  BY <1>3, SnapshotScreenKeeps DEF OpenSnapshot
<1>4. CASE OpenEditor \/ Import
  BY <1>4 DEF OpenEditor, Import, PanelInv, Lists
<1>5. CASE Press
  BY <1>5, PressKeeps
<1>6. CASE RunList
  BY <1>6, RunListKeeps
<1>7. CASE RunSnapshotList
  BY <1>7, RunSnapshotKeeps
<1>8. CASE RunEditor
  <2>1. CASE EditorSave \/ EditorCancel
    BY <2>1, LeaveKeeps DEF EditorSave, EditorCancel
  <2>2. CASE EditorApply \/ EditorSaveRefused
    BY <2>2 DEF EditorApply, EditorSaveRefused, EditorScreen, InEditor, PanelInv, Lists
  <2>. QED
    BY <1>8, <2>1, <2>2 DEF RunEditor
<1>9. CASE HangUp
  BY <1>9, LeaveKeeps DEF HangUp
<1>10. CASE Others
  <2>1. UNCHANGED <<mode, act, rows, page, pending, msg, lines>> /\ data' \in SUBSET Items
    BY <1>10 DEF Others, PanelInv
  <2>. QED
    BY <2>1 DEF PanelInv, Shown, Bounds
<1>. QED
  BY <1>1, <1>2, <1>3, <1>4, <1>5, <1>6, <1>7, <1>8, <1>9, <1>10 DEF Next

(* RunList deletes a row only on the Enter that answers the prompt naming  *)
(* that very row, whatever others do to the table and whichever fetches    *)
(* fail in between, for any number of rows.                                *)
THEOREM PromptsMeant == Spec => PromptedCommit
<1>1. Spec => []PanelInv
  BY PanelStarts, PanelStep, PTL DEF Spec
<1>2. ASSUME PanelInv, Next, mode = "list", mode' = "list", act # Quiet, act.pf # "PF4", data' # data
      PROVE  act = PlainEnter /\ \E x \in Items : msg = Prompt(x) /\ data' = data \ {x}
  <2>1. RunList
    BY <1>2 DEF Next, OpenList, OpenSnapshot, OpenEditor, Import, Press, HangUp, Others,
                RunSnapshotList, SnapshotEnd, SnapshotPage, SnapshotSelect, SnapshotRefresh, SnapshotOther, InSnapshot,
                RunEditor, EditorApply, EditorSave, EditorSaveRefused, EditorCancel, InEditor
  <2>2. ConfirmCommit
    BY <1>2, <2>1 DEF RunList, ConfirmCancel, ListEnd, Leave, ListAdd, ListPage, ListRefresh, ListCommand
  <2>3. pending \in Items /\ msg = Prompt(pending)
    BY <1>2, <2>2 DEF PanelInv, ConfirmCommit
  <2>. QED
    BY <1>2, <2>2, <2>3 DEF ConfirmCommit
<1>3. PanelInv /\ [Next]_vars =>
        [mode = "list" /\ mode' = "list" /\ act # Quiet /\ act.pf # "PF4" /\ data' # data =>
           /\ act = PlainEnter
           /\ \E x \in Items : msg = Prompt(x) /\ data' = data \ {x}]_vars
  BY <1>2
<1>. QED
  BY <1>1, <1>3, PTL DEF Spec, PromptedCommit

(* PF8 shows the rows that follow those shown, PF7 those before them.      *)
LEMMA Turned ==
  ASSUME PanelInv, mode = "list", mode' = "list", rows' = rows, ListPage
  PROVE  Pages({"list"})
<1>1. mode \in Lists /\ mode' \in Lists
  BY DEF Lists
<1>. DEFINE total == Len(rows)
            start == page * PageSize
<1>2. /\ page \in Nat /\ total \in Nat /\ start \in Nat /\ PageSize \in Nat \ {0}
      /\ Bounds.page = page /\ Bounds.start = start
      /\ Bounds.end = IF start + PageSize < total THEN start + PageSize ELSE total
  <2>1. page \in Nat /\ total \in Nat /\ PageSize \in Nat \ {0}
    BY <1>1, PanelsAssumption DEF PanelInv, HasRows
  <2>2. start \in Nat
    BY <2>1
  <2>3. /\ Bounds.page = page /\ Bounds.start = start
        /\ Bounds.end = IF Bounds.start + PageSize < total THEN Bounds.start + PageSize ELSE total
    BY <1>1, ShownRows
  <2>. HIDE DEF start, total
  <2>. QED
    BY <2>1, <2>2, <2>3
<1>3. (page + 1) * PageSize = start + PageSize /\ (page - 1) * PageSize = start - PageSize
  BY <1>2
<1>4. ASSUME NEW p \in Nat, p = 0 \/ p * PageSize < total, page' = pageBounds(p, Len(rows')).page
      PROVE  Shown' = SubSeq(rows, p * PageSize + 1,
                             IF p * PageSize + PageSize < total THEN p * PageSize + PageSize ELSE total)
  <2>1. page' = p
    BY <1>2, <1>4, PageKept DEF HasRows
  <2>2. Bounds' = pageBounds(p, total)
    BY <2>1 DEF Bounds
  <2>3. /\ Bounds'.start = p * PageSize
        /\ Bounds'.end = IF p * PageSize + PageSize < total THEN p * PageSize + PageSize ELSE total
    BY <1>2, <1>4, <2>2, PageKept DEF HasRows, Smaller
  <2>4. Shown' = SubSeq(rows, Bounds'.start + 1, Bounds'.end)
    BY DEF Shown
  <2>. QED
    BY <2>3, <2>4
<1>5. CASE act.pf = "PF8" /\ Bounds.end < total
  <2>1. ListPage /\ Bounds.end = start + PageSize /\ start + PageSize < total
    BY <1>2, <1>5
  <2>2. page' = pageBounds(page + 1, Len(rows')).page
    BY <1>5, <2>1 DEF ListPage, ListScreen, NextPage
  <2>3. Shown' = SubSeq(rows, start + PageSize + 1,
                        IF start + PageSize + PageSize < total THEN start + PageSize + PageSize ELSE total)
    <3>1. page + 1 \in Nat /\ (page + 1) * PageSize < total
      BY <1>2, <1>3, <2>1
    <3>2. Shown' = SubSeq(rows, (page + 1) * PageSize + 1,
                          IF (page + 1) * PageSize + PageSize < total THEN (page + 1) * PageSize + PageSize ELSE total)
      BY <1>4, <2>2, <3>1
    <3>. HIDE DEF start, total
    <3>. QED
      BY <1>3, <3>2
  <2>. QED
    BY <1>5, <2>1, <2>3 DEF Pages, Following
<1>6. CASE act.pf = "PF7" /\ Bounds.start > 0
  <2>1. page # 0 /\ start > 0 /\ start < total
    BY <1>1, <1>2, <1>6 DEF PanelInv, HasRows
  <2>2. page' = pageBounds(page - 1, Len(rows')).page
    BY <1>6 DEF ListPage, ListScreen
  <2>3. page - 1 \in Nat /\ start - PageSize \in Nat /\ start - PageSize < total
    <3>1. page - 1 \in Nat
      BY <1>2, <2>1
    <3>2. (page - 1) * PageSize \in Nat
      BY <1>2, <3>1
    <3>. QED
      BY <1>2, <1>3, <2>1, <3>1, <3>2
  <2>4. Shown' = SubSeq(rows, (page - 1) * PageSize + 1,
                        IF (page - 1) * PageSize + PageSize < total THEN (page - 1) * PageSize + PageSize ELSE total)
    BY <1>2, <1>3, <1>4, <2>2, <2>3
  <2>5. Shown' = SubSeq(rows, start - PageSize + 1, start)
    <3>. HIDE DEF start, total
    <3>1. start - PageSize + PageSize = start
      BY <1>2
    <3>. QED
      BY <1>3, <2>1, <2>4, <3>1
  <2>. QED
    BY <1>2, <1>6, <2>5 DEF Pages, Preceding
<1>7. CASE ~(act.pf = "PF8" /\ Bounds.end < total) /\ ~(act.pf = "PF7" /\ Bounds.start > 0)
  BY <1>7 DEF Pages
<1>. QED
  BY <1>5, <1>6, <1>7

(* In a list panel PF8 shows the rows that follow the page and PF7 those   *)
(* before it, so every row can be reached, for any page size and any       *)
(* number of rows that others add and delete meanwhile.                    *)
THEOREM PagesFollow == Spec => ListPaging
<1>1. Spec => []PanelInv
  BY PanelStarts, PanelStep, PTL DEF Spec
<1>2. ASSUME PanelInv, Next, mode = "list", mode' = mode, act # Quiet, act' = Quiet, rows' = rows
      PROVE  Pages({"list"})
  <2>1. RunList
    BY <1>2 DEF Next, OpenList, OpenSnapshot, OpenEditor, Import, Press, HangUp, Others,
                RunSnapshotList, SnapshotEnd, SnapshotPage, SnapshotSelect, SnapshotRefresh, SnapshotOther, InSnapshot,
                RunEditor, EditorApply, EditorSave, EditorSaveRefused, EditorCancel, InEditor
  <2>2. CASE act.pf \notin {"PF7", "PF8"}
    BY <2>2 DEF Pages
  <2>3. CASE act.pf \in {"PF7", "PF8"}
    <3>1. act.cmd = Blank
      BY <1>2, <2>3 DEF PanelInv, Lists
    <3>2. ListPage
      BY <2>1, <2>3, <3>1 DEF RunList, ConfirmCommit, ConfirmCancel, ListEnd, ListAdd, ListRefresh, ListCommand, PlainEnter
    <3>. QED
      BY <1>2, <3>2, Turned DEF ListPage
  <2>. QED
    BY <2>2, <2>3
<1>3. PanelInv /\ [Next]_vars => [Pages({"list"})]_vars
  BY <1>2 DEF Pages
<1>. QED
  BY <1>1, <1>3, PTL DEF Spec, ListPaging

-----------------------------------------------------------------------------
(* The line editor: the prefix commands *)

(* What a command makes of one line                                        *)
ImageOf(x, command) ==
  CASE command = "none" -> <<x>>
    [] command = "I" -> <<x, Blank>>
    [] command = "D" -> <<>>
    [] command = "R" -> <<x, x>>

IsCommand(c) == c \in {"I", "D", "R"}
Stands(l, i, p, x, q) == l = p \o <<x>> \o q /\ i = Len(p) + 1

LEMMA AppliedHere ==
  ASSUME NEW X, Blank \in X, NEW p \in Seq(X), NEW x \in X, NEW q \in Seq(X), NEW l \in Seq(X), NEW i \in Nat,
         Stands(l, i, p, x, q), NEW c, IsCommand(c)
  PROVE  Applied(l, i, c) = p \o (ImageOf(x, c) \o q)
<1>1. /\ SubSeq(l, 1, i - 1) = p
      /\ SubSeq(l, 1, i) = p \o <<x>>
      /\ SubSeq(l, i + 1, Len(l)) = q
      /\ l[i] = x
  BY Around DEF Stands
<1>2. ASSUME NEW y \in X PROVE InsertAt(l, i + 1, y) = p \o (<<x, y>> \o q)
  <2>1. InsertAt(l, i + 1, y) = SubSeq(l, 1, i) \o <<y>> \o SubSeq(l, i + 1, Len(l))
    <3>1. PICK k \in Nat : k = i + 1 /\ k - 1 = i
      OBVIOUS
    <3>2. InsertAt(l, k, y) = SubSeq(l, 1, k - 1) \o <<y>> \o SubSeq(l, k, Len(l))
      BY DEF InsertAt
    <3> QED
      BY <3>1, <3>2, Zenon
  <2>2. InsertAt(l, i + 1, y) = (p \o <<x>>) \o <<y>> \o q
    BY <1>1, <2>1
  <2>3. (p \o <<x>>) \o <<y>> = p \o <<x, y>>
    BY TwoMore
  <2>4. <<x, y>> \in Seq(X)
    OBVIOUS
  <2>5. PICK z \in Seq(X) : z = <<x, y>>
    BY <2>4
  <2>6. (p \o z) \o q = p \o (z \o q)
    BY Threefold
  <2> QED
    BY <2>2, <2>3, <2>5, <2>6
<1>3. RemoveAt(l, i) = p \o (<<>> \o q)
  <2>1. <<>> \o q = q
    BY ConcatEmptySeq
  <2>2. RemoveAt(l, i) = SubSeq(l, 1, i - 1) \o SubSeq(l, i + 1, Len(l))
    BY DEF RemoveAt
  <2> QED
    BY <1>1, <2>1, <2>2
<1>4. CASE c = "I"
  BY <1>2, <1>4 DEF Applied, ImageOf
<1>5. CASE c = "D"
  BY <1>3, <1>5 DEF Applied, ImageOf
<1>6. CASE c = "R"
  BY <1>1, <1>2, <1>6 DEF Applied, ImageOf
<1> QED
  BY <1>4, <1>5, <1>6 DEF IsCommand

(* The images of all lines under the commands given                        *)
CommandOn(cmds, i) == IF i \in DOMAIN cmds THEN cmds[i] ELSE "none"
Images(ls, cmds) == [i \in 1 .. Len(ls) |-> ImageOf(ls[i], CommandOn(cmds, i))]
Valid(cmds) == \A i \in DOMAIN cmds : IsCommand(cmds[i])

LEMMA ImagesType ==
  ASSUME NEW X, Blank \in X, NEW ls \in Seq(X), NEW cmds, Valid(cmds)
  PROVE  /\ Images(ls, cmds) \in Seq(Seq(X)) /\ Len(Images(ls, cmds)) = Len(ls)
         /\ \A i \in 1 .. Len(ls) : Images(ls, cmds)[i] = ImageOf(ls[i], CommandOn(cmds, i))
<1>1. ASSUME NEW x \in X, NEW c \in {"none", "I", "D", "R"} PROVE ImageOf(x, c) \in Seq(X)
  <2>1. <<x>> \in Seq(X) /\ <<x, Blank>> \in Seq(X) /\ <<>> \in Seq(X) /\ <<x, x>> \in Seq(X)
    OBVIOUS
  <2> QED
    BY <2>1 DEF ImageOf
<1>2. ASSUME NEW i \in 1 .. Len(ls) PROVE ImageOf(ls[i], CommandOn(cmds, i)) \in Seq(X)
  <2>1. CommandOn(cmds, i) \in {"none", "I", "D", "R"} /\ ls[i] \in X
    BY DEF CommandOn, Valid, IsCommand
  <2> QED
    BY <1>1, <2>1
<1>3. PICK N \in Nat : N = Len(ls)
  OBVIOUS
<1>4. Images(ls, cmds) \in [1 .. N -> Seq(X)]
  BY <1>2, <1>3 DEF Images
<1>5. ASSUME NEW Y, NEW u \in [1 .. N -> Y] PROVE u \in Seq(Y) /\ Len(u) = N
  OBVIOUS
<1>6. Images(ls, cmds) \in Seq(Seq(X)) /\ Len(Images(ls, cmds)) = N
  BY <1>4, <1>5
<1> QED
  BY <1>3, <1>6 DEF Images

(* From the last line to the first, no command moves a line that another   *)
(* has yet to find: together they put every line's image in its place.     *)
LEMMA PrefixApplied ==
  ASSUME NEW X, Blank \in X, NEW ls \in Seq(X), NEW cmds, Valid(cmds)
  PROVE  applyPrefix(ls, cmds) = NeverEmpty(FlattenSeq(Images(ls, cmds)))
<1>1. PICK N \in Nat : N = Len(ls)
  OBVIOUS
<1>2. PICK im \in Seq(Seq(X)) :
        /\ im = Images(ls, cmds) /\ Len(im) = N
        /\ \A i \in 1 .. N : im[i] = ImageOf(ls[i], CommandOn(cmds, i))
  BY <1>1, ImagesType
<1> DEFINE R(u) == [n \in 0 .. Len(ls) |->
                      IF n = 0 THEN ls
                      ELSE LET i == Len(ls) + 1 - n
                           IN IF i \in DOMAIN cmds THEN Applied(u[n - 1], i, cmds[i]) ELSE u[n - 1]]
           after == CHOOSE u : u = R(u)
<1>3. PICK h : h = [n \in 0 .. N |-> SubSeq(ls, 1, N - n) \o Joined(im, N - n, N)]
  OBVIOUS
<1>4. h[0] = ls
  <2>1. h[0] = SubSeq(ls, 1, N) \o Joined(im, N, N)
    BY <1>3
  <2>2. Joined(im, N, N) = <<>>
    BY JoinedNone
  <2>3. SubSeq(ls, 1, N) = ls
    BY <1>1
  <2> QED
    BY <2>1, <2>2, <2>3, ConcatEmptySeq
<1>5. ASSUME NEW n \in 1 .. N
      PROVE  h[n] = IF N + 1 - n \in DOMAIN cmds THEN Applied(h[n - 1], N + 1 - n, cmds[N + 1 - n]) ELSE h[n - 1]
  <2>1. PICK i \in 1 .. N, k \in Nat : i = N + 1 - n /\ k = i - 1 /\ N - n = k /\ N - (n - 1) = i /\ i = k + 1
    OBVIOUS
  <2>2. PICK p \in Seq(X) : p = SubSeq(ls, 1, k) /\ Len(p) = k
    <3>1. k <= Len(ls)
      BY <1>1, <2>1
    <3> QED
      BY <3>1, Start
  <2>3. PICK q \in Seq(X) : q = Joined(im, i, N)
    BY <1>2, <2>1, JoinedType
  <2>4. PICK x \in X : x = ls[i]
    BY <1>1
  <2>5. SubSeq(ls, 1, i) = p \o <<x>>
    <3>1. i \in 1 .. Len(ls) /\ 1 \in 1 .. Len(ls) /\ i \in 1 .. i /\ i - 1 = k
      BY <1>1, <2>1
    <3>2. SubSeq(ls, 1, i) = SubSeq(ls, 1, i - 1) \o <<ls[i]>>
      BY <1>1, <2>1, <3>1, SubSeqRecursiveSecond
    <3> QED
      BY <2>2, <2>4, <3>1, <3>2
  <2>6. h[n - 1] = p \o <<x>> \o q
    <3>1. n - 1 \in 0 .. N
      OBVIOUS
    <3>2. h[n - 1] = SubSeq(ls, 1, N - (n - 1)) \o Joined(im, N - (n - 1), N)
      BY <1>3, <3>1
    <3> QED
      BY <2>1, <2>3, <2>5, <3>2
  <2>7. Joined(im, k, N) = im[i] \o q
    <3>1. Joined(im, k, N) = Joined(im, k, i) \o Joined(im, i, N)
      <4>1. k \in Nat /\ i \in Nat /\ k <= k /\ k <= i /\ i <= N /\ N <= Len(im)
        BY <1>2, <2>1
      <4> QED
        BY <4>1, JoinedSplit
    <3>2. Joined(im, i - 1, i) = im[i]
      BY <1>2, JoinedOne
    <3> QED
      BY <2>1, <2>3, <3>1, <3>2
  <2>8. h[n] = p \o (im[i] \o q)
    <3>1. n \in 0 .. N
      OBVIOUS
    <3>2. h[n] = SubSeq(ls, 1, N - n) \o Joined(im, N - n, N)
      BY <1>3, <3>1, Zenon
    <3> QED
      BY <2>1, <2>2, <2>7, <3>2
  <2>9. im[i] = ImageOf(x, CommandOn(cmds, i))
    BY <1>2, <2>4
  <2>10. CASE i \in DOMAIN cmds
    <3>1. IsCommand(cmds[i]) /\ CommandOn(cmds, i) = cmds[i]
      BY <2>10 DEF Valid, CommandOn
    <3>2. PICK l \in Seq(X) : l = p \o <<x>> \o q
      <4>1. PICK r \in Seq(X) : r = p \o <<x>>
        BY OneMore
      <4>2. r \o q \in Seq(X)
        BY ConcatProperties
      <4> QED
        BY <4>1, <4>2
    <3>3. i \in Nat /\ i = Len(p) + 1
      BY <2>1, <2>2
    <3>4. Applied(l, i, cmds[i]) = p \o (ImageOf(x, cmds[i]) \o q)
      <4>1. Stands(l, i, p, x, q)
        BY <3>2, <3>3 DEF Stands
      <4> QED
        BY <3>1, <3>3, <4>1, AppliedHere
    <3> QED
      BY <2>1, <2>6, <2>8, <2>9, <2>10, <3>1, <3>2, <3>4
  <2>11. CASE i \notin DOMAIN cmds
    <3>1. im[i] = <<x>>
      BY <2>9, <2>11 DEF CommandOn, ImageOf
    <3>2. <<x>> \in Seq(X)
      OBVIOUS
    <3>3. PICK z \in Seq(X) : z = <<x>>
      BY <3>2
    <3>4. (p \o z) \o q = p \o (z \o q)
      BY Threefold
    <3> QED
      BY <2>1, <2>6, <2>8, <2>11, <3>1, <3>3, <3>4
  <2> QED
    BY <2>10, <2>11
<1>6. h = R(h)
  <2>1. ASSUME NEW n \in 0 .. N PROVE h[n] = R(h)[n]
    <3>1. CASE n = 0
      BY <1>1, <1>4, <3>1
    <3>2. CASE n # 0
      <4>1. n \in 1 .. N
        BY <3>2
      <4>2. h[n] = IF N + 1 - n \in DOMAIN cmds THEN Applied(h[n - 1], N + 1 - n, cmds[N + 1 - n]) ELSE h[n - 1]
        BY <1>5, <4>1
      <4>3. R(h)[n] = IF N + 1 - n \in DOMAIN cmds THEN Applied(h[n - 1], N + 1 - n, cmds[N + 1 - n]) ELSE h[n - 1]
        BY <1>1, <3>2, Zenon
      <4> QED
        BY <4>2, <4>3
    <3> QED
      BY <3>1, <3>2
  <2>2. h = [n \in 0 .. N |-> h[n]]
    BY <1>3
  <2>3. R(h) = [n \in 0 .. N |-> R(h)[n]]
    <3>1. R(h) = [n \in 0 .. Len(ls) |-> R(h)[n]]
      BY Zenon
    <3> HIDE DEF R
    <3> QED
      BY <1>1, <3>1
  <2> HIDE DEF R
  <2> QED
    BY <2>1, <2>2, <2>3
<1>7. after = R(after)
  <2> HIDE DEF R
  <2> QED
    BY <1>6
<1> HIDE DEF after
<1>8. PICK u : u = after
  OBVIOUS
<1>9. u[0] = h[0] /\ \A n \in 1 .. N : u[n - 1] = h[n - 1] => u[n] = h[n]
  <2>1. u = R(u)
    BY <1>7, <1>8
  <2>2. u[0] = h[0]
    BY <1>1, <1>4, <2>1
  <2>3. \A n \in 1 .. N : u[n - 1] = h[n - 1] => u[n] = h[n]
    <3> TAKE n \in 1 .. N
    <3>1. u[n] = IF N + 1 - n \in DOMAIN cmds THEN Applied(u[n - 1], N + 1 - n, cmds[N + 1 - n]) ELSE u[n - 1]
      <4>1. n \in 0 .. Len(ls) /\ n # 0
        BY <1>1
      <4>2. u[n] = R(u)[n]
        <5> HIDE DEF R
        <5> QED
          BY <2>1
      <4>3. R(u)[n] = IF Len(ls) + 1 - n \in DOMAIN cmds
                      THEN Applied(u[n - 1], Len(ls) + 1 - n, cmds[Len(ls) + 1 - n]) ELSE u[n - 1]
        BY <4>1, Zenon
      <4> QED
        BY <1>1, <4>2, <4>3, Zenon
    <3>2. h[n] = IF N + 1 - n \in DOMAIN cmds THEN Applied(h[n - 1], N + 1 - n, cmds[N + 1 - n]) ELSE h[n - 1]
      BY <1>5
    <3> QED
      BY <3>1, <3>2
  <2> QED
    BY <2>2, <2>3
<1>10. Same(u, h, N)
  BY <1>9, Agree DEF InStep
<1>11. u[N] = FlattenSeq(im)
  <2>1. h[N] = SubSeq(ls, 1, 0) \o Joined(im, 0, N)
    BY <1>3
  <2>2. SubSeq(im, 1, N) = im
    BY <1>2
  <2>3. Joined(im, 0, N) = FlattenSeq(im)
    <3>1. Joined(im, 0, N) = FlattenSeq(SubSeq(im, 0 + 1, N))
      BY DEF Joined
    <3>2. 0 + 1 = 1
      OBVIOUS
    <3> QED
      BY <2>2, <3>1, <3>2, Zenon
  <2>4. FlattenSeq(im) \in Seq(X)
    <3>1. <<>> \in Seq(X)
      OBVIOUS
    <3> QED
      BY <3>1, FlatAppend
  <2>5. SubSeq(ls, 1, 0) = <<>>
    BY SubSeqEmpty
  <2>6. h[N] = FlattenSeq(im)
    BY <2>1, <2>3, <2>4, <2>5, ConcatEmptySeq
  <2>7. N \in 0 .. N
    OBVIOUS
  <2> QED
    BY <1>10, <2>6, <2>7, Zenon DEF Same
<1>12. ~ \E i \in DOMAIN cmds : cmds[i] = "X"
  BY DEF Valid, IsCommand
<1>13. applyPrefix(ls, cmds) = NeverEmpty(after[Len(ls)])
  BY <1>12 DEF applyPrefix, after
<1> QED
  BY <1>1, <1>2, <1>8, <1>11, <1>13

(* Lines of one line each                                                  *)
LEMMA Singles ==
  ASSUME NEW X, NEW ls \in Seq(X), NEW im, im = [i \in 1 .. Len(ls) |-> <<ls[i]>>]
  PROVE  FlattenSeq(im) = ls
<1>1. PICK N \in Nat : N = Len(ls)
  OBVIOUS
<1>2. im \in Seq(Seq(X)) /\ Len(im) = N /\ \A i \in 1 .. N : im[i] = <<ls[i]>>
  <2>1. ASSUME NEW i \in 1 .. N PROVE <<ls[i]>> \in Seq(X)
    <3>1. ls[i] \in X
      BY <1>1
    <3> QED
      BY <3>1
  <2>2. im \in [1 .. N -> Seq(X)]
    BY <1>1, <2>1
  <2>3. ASSUME NEW Y, NEW u \in [1 .. N -> Y] PROVE u \in Seq(Y) /\ Len(u) = N
    OBVIOUS
  <2>4. im \in Seq(Seq(X)) /\ Len(im) = N
    BY <2>2, <2>3
  <2> QED
    BY <1>1, <2>4
<1>3. PICK f : f = [n \in 0 .. N |-> SubSeq(ls, 1, n)]
  OBVIOUS
<1>4. f \in [0 .. N -> Seq(X)]
  <2>1. ASSUME NEW n \in 0 .. N PROVE SubSeq(ls, 1, n) \in Seq(X)
    <3>1. n \in Nat /\ n <= Len(ls)
      BY <1>1
    <3> QED
      BY <3>1, Start
  <2> QED
    BY <1>3, <2>1
<1>5. f[0] = <<>>
  <2>1. SubSeq(ls, 1, 0) = <<>>
    BY SubSeqEmpty
  <2> QED
    BY <1>3, <2>1
<1>6. \A n \in 1 .. N : f[n] = f[n - 1] \o im[n]
  <2> TAKE n \in 1 .. N
  <2>1. n \in 1 .. Len(ls) /\ 1 \in 1 .. Len(ls) /\ n \in 1 .. n /\ n - 1 \in 0 .. N /\ n \in 0 .. N
    BY <1>1
  <2>2. SubSeq(ls, 1, n) = SubSeq(ls, 1, n - 1) \o <<ls[n]>>
    BY <2>1, SubSeqRecursiveSecond
  <2> QED
    BY <1>2, <1>3, <2>1, <2>2
<1>7. FlattenSeq(im) = f[N]
  <2>1. f \in [0 .. Len(im) -> Seq(X)] /\ \A n \in 1 .. Len(im) : f[n] = f[n - 1] \o im[n]
    BY <1>2, <1>4, <1>6
  <2> QED
    BY <1>2, <1>5, <2>1, FlatRun
<1>8. f[N] = ls
  <2>1. SubSeq(ls, 1, Len(ls)) = ls
    OBVIOUS
  <2> QED
    BY <1>1, <1>3, <2>1
<1> QED
  BY <1>7, <1>8

(* The lines as typed over, and the texts and marks there are              *)
TypedOver == [i \in 1 .. Len(lines) |-> IF i \in DOMAIN act.text THEN act.text[i] ELSE lines[i]]
Words == Texts \cup Wides \cup {Blank}
Signs == Texts \cup Wides \cup {NL}

EditorAct ==
  /\ \A i \in DOMAIN act.text : act.text[i] \in Words
  /\ \A i \in DOMAIN act.prefix : act.prefix[i] \in {"I", "D", "R", "X"}

LEMMA TypedType ==
  ASSUME lines \in Seq(Words), EditorAct
  PROVE  TypedOver \in Seq(Words) /\ Len(TypedOver) = Len(lines)
<1>1. PICK N \in Nat : N = Len(lines) /\ \A i \in 1 .. N : lines[i] \in Words
  OBVIOUS
<1>2. TypedOver \in [1 .. N -> Words]
  BY <1>1 DEF TypedOver, EditorAct
<1>3. ASSUME NEW Y, NEW u \in [1 .. N -> Y] PROVE u \in Seq(Y) /\ Len(u) = N
  OBVIOUS
<1> QED
  BY <1>1, <1>2, <1>3

(* What the editor does is what its commands mean.                         *)
LEMMA EditedMeans ==
  ASSUME lines \in Seq(Words), lines # <<>>, EditorAct
  PROVE  Edited = Meaning(lines) /\ Edited \in Seq(Words) /\ Edited # <<>>
<1> DEFINE Image(i) == LET l == IF i \in DOMAIN act.text THEN act.text[i] ELSE lines[i]
                           c == IF Vetoed \/ i \notin DOMAIN act.prefix THEN "none" ELSE act.prefix[i]
                       IN CASE c = "none" -> <<l>>
                            [] c = "I" -> <<l, Blank>>
                            [] c = "D" -> <<>>
                            [] c = "R" -> <<l, l>>
           all == FlattenSeq([i \in 1 .. Len(lines) |-> Image(i)])
<1>1. Meaning(lines) = IF all = <<>> THEN <<Blank>> ELSE all
  BY Zenon DEF Meaning
<1>2. PICK t \in Seq(Words) : t = TypedOver /\ Len(t) = Len(lines)
  BY TypedType
<1>3. Edited = applyPrefix(t, act.prefix)
  BY <1>2 DEF Edited, TypedOver
<1>4. \A i \in 1 .. Len(lines) : t[i] = IF i \in DOMAIN act.text THEN act.text[i] ELSE lines[i]
  BY <1>2 DEF TypedOver
<1>5. t # <<>>
  <2>1. Len(lines) \in Nat /\ Len(lines) # 0
    OBVIOUS
  <2> QED
    BY <1>2, <2>1
<1>6. CASE Vetoed
  <2>1. Edited = t
    BY <1>3, <1>6 DEF applyPrefix, Vetoed
  <2>2. [i \in 1 .. Len(lines) |-> Image(i)] = [i \in 1 .. Len(t) |-> <<t[i]>>]
    <3>1. \A i \in 1 .. Len(lines) : Image(i) = <<t[i]>>
      BY <1>4, <1>6
    <3> HIDE DEF Image
    <3> QED
      BY <1>2, <3>1
  <2>3. all = t
    <3> HIDE DEF Image
    <3> QED
      BY <2>2, Singles
  <2> HIDE DEF all
  <2> QED
    BY <1>1, <1>5, <2>1, <2>3
<1>7. CASE ~Vetoed
  <2>1. Valid(act.prefix)
    BY <1>7 DEF EditorAct, Vetoed, Valid, IsCommand
  <2>2. Blank \in Words
    BY DEF Words
  <2>3. PICK im \in Seq(Seq(Words)) : im = Images(t, act.prefix)
    BY <2>1, <2>2, ImagesType
  <2>4. applyPrefix(t, act.prefix) = NeverEmpty(FlattenSeq(im))
    BY <2>1, <2>2, <2>3, PrefixApplied
  <2>5. [i \in 1 .. Len(lines) |-> Image(i)] = im
    <3>1. \A i \in 1 .. Len(lines) : Image(i) = ImageOf(t[i], CommandOn(act.prefix, i))
      BY <1>4, <1>7 DEF ImageOf, CommandOn
    <3> HIDE DEF Image
    <3> QED
      BY <1>2, <2>3, <3>1 DEF Images
  <2>6. all = FlattenSeq(im)
    BY <2>5
  <2>7. FlattenSeq(im) \in Seq(Words)
    <3>1. <<>> \in Seq(Words)
      OBVIOUS
    <3> QED
      BY <3>1, FlatAppend
  <2>8. <<Blank>> \in Seq(Words) /\ <<Blank>> # <<>>
    BY <2>2
  <2> HIDE DEF all
  <2> QED
    BY <1>1, <1>3, <2>4, <2>6, <2>7, <2>8 DEF NeverEmpty
<1> QED
  BY <1>6, <1>7

-----------------------------------------------------------------------------
(* The line editor: what is saved reads back *)

Drafts == Seq(Words) \ {<<>>}

LEMMA ContinueType ==
  ASSUME NEW ls \in Drafts, NEW x \in Signs
  PROVE  /\ Continue(ls, x) \in Drafts
         /\ x = NL => Continue(ls, x) = Append(ls, Blank)
<1>1. /\ ls \in Seq(Words) /\ ls # <<>> /\ Len(ls) \in Nat /\ Len(ls) # 0 /\ Blank \in Words
  BY DEF Drafts, Words
<1>2. CASE x = NL
  <2>1. Append(ls, Blank) \in Seq(Words) /\ Append(ls, Blank) # <<>>
    BY <1>1, AppendProperties, Zenon
  <2> QED
    BY <1>2, <2>1 DEF Continue, Drafts
<1>3. CASE x # NL
  <2>1. x \in Words
    BY <1>3 DEF Signs, Words
  <2>2. PICK N \in Nat : N = Len(ls) /\ N # 0
    BY <1>1
  <2>3. ls \in [1 .. N -> Words]
    BY <1>1, <2>2
  <2>4. [ls EXCEPT ![N] = x] \in [1 .. N -> Words]
    BY <2>1, <2>3
  <2>5. ASSUME NEW Y, NEW u \in [1 .. N -> Y] PROVE u \in Seq(Y) /\ Len(u) = N
    OBVIOUS
  <2>6. PICK u \in [1 .. N -> Words] : u = [ls EXCEPT ![N] = x]
    BY <2>4
  <2>7. u \in Seq(Words) /\ Len(u) = N
    BY <2>5
  <2>8. u # <<>>
    BY <2>2, <2>7
  <2> QED
    BY <1>3, <2>2, <2>6, <2>7, <2>8 DEF Continue, Drafts
<1> QED
  BY <1>2, <1>3 DEF Continue

LEMMA SplitEach ==
  ASSUME NEW c \in Seq(Signs)
  PROVE  \E f \in [0 .. Len(c) -> Drafts] :
           f[0] = <<Blank>> /\ \A n \in 1 .. Len(c) : f[n] = Continue(f[n - 1], c[n])
<1> DEFINE N == Len(c)
           g == [p \in (1 .. N) \X Drafts |-> Continue(p[2], c[p[1]])]
<1>1. g \in [(1 .. N) \X Drafts -> Drafts]
  <2>1. ASSUME NEW p \in (1 .. N) \X Drafts PROVE Continue(p[2], c[p[1]]) \in Drafts
    <3>1. p[2] \in Drafts /\ c[p[1]] \in Signs
      OBVIOUS
    <3> QED
      BY <3>1, ContinueType
  <2> QED
    BY <2>1
<1>2. <<Blank>> \in Drafts /\ N \in Nat
  BY DEF Drafts, Words
<1>3. PICK f \in [0 .. N -> Drafts] : Recurrence(f, N, <<Blank>>, g)
  <2> HIDE DEF g, N
  <2> QED
    BY <1>1, <1>2, Recurs
<1>4. ASSUME NEW n \in 1 .. N PROVE f[n] = Continue(f[n - 1], c[n])
  <2>1. f[n - 1] \in Drafts
    OBVIOUS
  <2>2. <<n, f[n - 1]>> \in (1 .. N) \X Drafts
    BY <2>1
  <2> QED
    BY <1>3, <2>2 DEF Recurrence
<1> QED
  BY <1>3, <1>4 DEF Recurrence

LEMMA SplitRun ==
  ASSUME NEW c \in Seq(Signs), NEW f \in [0 .. Len(c) -> Drafts],
         f[0] = <<Blank>>, \A n \in 1 .. Len(c) : f[n] = Continue(f[n - 1], c[n])
  PROVE  SplitLines(c) = f[Len(c)]
<1> DEFINE N == Len(c)
           R(u) == [n \in 0 .. N |-> IF n = 0 THEN <<Blank>> ELSE Continue(u[n - 1], c[n])]
           split == CHOOSE u : u = R(u)
<1>1. f = R(f)
  <2>1. ASSUME NEW n \in 0 .. N PROVE f[n] = IF n = 0 THEN <<Blank>> ELSE Continue(f[n - 1], c[n])
    <3>1. CASE n = 0
      BY <3>1
    <3>2. CASE n # 0
      <4>1. n \in 1 .. Len(c)
        BY <3>2
      <4> QED
        BY <3>2, <4>1
    <3> QED
      BY <3>1, <3>2
  <2> QED
    BY <2>1
<1>2. split = R(split)
  BY <1>1
<1>3. SplitLines(c) = split[N]
  BY DEF SplitLines
<1> HIDE DEF split
<1>4. PICK u : u = split
  OBVIOUS
<1>5. \A n \in 1 .. N : f[n - 1] = u[n - 1] => f[n] = u[n]
  <2> TAKE n \in 1 .. N
  <2>1. u[n] = R(u)[n]
    <3> HIDE DEF R
    <3> QED
      BY <1>2, <1>4
  <2>2. n \in 0 .. N /\ n # 0
    OBVIOUS
  <2>3. R(u)[n] = Continue(u[n - 1], c[n])
    BY <2>2, Zenon
  <2>4. f[n] = Continue(f[n - 1], c[n])
    OBVIOUS
  <2> HIDE DEF R
  <2> QED
    BY <2>1, <2>3, <2>4
<1>6. N \in Nat /\ f[0] = u[0]
  BY <1>2, <1>4
<1>7. Same(f, u, N)
  BY <1>5, <1>6, Agree DEF InStep
<1> QED
  BY <1>3, <1>4, <1>6, <1>7 DEF Same

(* One mark more                                                           *)
LEMMA SplitNext ==
  ASSUME NEW c \in Seq(Signs), NEW b \in Signs
  PROVE  SplitLines(c) \in Drafts /\ SplitLines(Append(c, b)) = Continue(SplitLines(c), b)
<1> DEFINE t == Append(c, b)
           N == Len(c)
<1>1. /\ t \in Seq(Signs) /\ N \in Nat /\ Len(t) = N + 1 /\ t[N + 1] = b
      /\ \A i \in 1 .. N : t[i] = c[i]
  OBVIOUS
<1> HIDE DEF t
<1>2. PICK f \in [0 .. Len(t) -> Drafts] :
        f[0] = <<Blank>> /\ \A n \in 1 .. Len(t) : f[n] = Continue(f[n - 1], t[n])
  BY <1>1, SplitEach
<1>3. SplitLines(t) = f[Len(t)]
  BY <1>1, <1>2, SplitRun
<1>4. PICK h : h = [n \in 0 .. N |-> f[n]]
  OBVIOUS
<1>5. h \in [0 .. N -> Drafts]
  BY <1>1, <1>4
<1>6. h[0] = <<Blank>> /\ \A n \in 1 .. N : h[n] = Continue(h[n - 1], c[n])
  <2>1. h[0] = <<Blank>>
    BY <1>1, <1>2, <1>4
  <2>2. ASSUME NEW n \in 1 .. N PROVE h[n] = Continue(h[n - 1], c[n])
    <3>1. n \in 1 .. Len(t) /\ n \in 0 .. N /\ n - 1 \in 0 .. N
      BY <1>1
    <3>2. f[n] = Continue(f[n - 1], t[n]) /\ t[n] = c[n]
      BY <1>1, <1>2, <3>1
    <3>3. h[n] = f[n] /\ h[n - 1] = f[n - 1]
      BY <1>4, <3>1
    <3> QED
      BY <3>2, <3>3
  <2> QED
    BY <2>1, <2>2
<1>7. SplitLines(c) = h[N]
  BY <1>5, <1>6, SplitRun
<1>8. PICK k \in 1 .. Len(t) : k = N + 1
  BY <1>1
<1>9. f[k] = Continue(f[k - 1], t[k]) /\ k - 1 = N
  BY <1>1, <1>2, <1>8
<1>10. h[N] = f[N] /\ f[N] \in Drafts
  BY <1>1, <1>4
<1> QED
  BY <1>1, <1>3, <1>7, <1>8, <1>9, <1>10 DEF t

LEMMA SplitNothing == SplitLines(<<>>) = <<Blank>>
<1>1. PICK c : c = <<>>
  OBVIOUS
<1>2. c \in Seq(Signs) /\ Len(c) = 0
  BY <1>1
<1>3. PICK f \in [0 .. Len(c) -> Drafts] :
        f[0] = <<Blank>> /\ \A n \in 1 .. Len(c) : f[n] = Continue(f[n - 1], c[n])
  BY <1>2, SplitEach
<1>4. SplitLines(c) = f[Len(c)]
  BY <1>2, <1>3, SplitRun
<1> QED
  BY <1>1, <1>2, <1>3, <1>4

Typed(x) == IF x = Blank THEN <<>> ELSE <<x>>

LEMMA TypedSigns == ASSUME NEW x \in Words PROVE Typed(x) \in Seq(Signs) /\ (<<NL>> \o Typed(x)) \in Seq(Signs)
<1>1. <<NL>> \in Seq(Signs)
  BY DEF Signs
<1>2. CASE x = Blank
  <2>1. <<>> \in Seq(Signs)
    OBVIOUS
  <2>2. (<<NL>> \o <<>>) = <<NL>>
    BY <1>1, ConcatEmptySeq
  <2> QED
    BY <1>1, <1>2, <2>1, <2>2 DEF Typed
<1>3. CASE x # Blank
  <2>1. x \in Signs
    BY <1>3 DEF Words, Signs
  <2>2. PICK q \in Seq(Signs) : q = <<x>>
    <3>1. <<x>> \in Seq(Signs)
      BY <2>1
    <3> QED
      BY <3>1
  <2>3. PICK p \in Seq(Signs) : p = <<NL>>
    BY <1>1
  <2>4. p \o q \in Seq(Signs)
    BY ConcatProperties
  <2> QED
    BY <1>3, <2>2, <2>3, <2>4 DEF Typed
<1> QED
  BY <1>2, <1>3

LEMMA LastReplaced ==
  ASSUME NEW X, NEW l \in Seq(X), NEW b \in X, NEW y \in X
  PROVE  [Append(l, b) EXCEPT ![Len(Append(l, b))] = y] = Append(l, y)
<1>1. PICK N \in Nat : N = Len(l)
  OBVIOUS
<1>2. PICK k : k = Append(l, b)
  OBVIOUS
<1>3. Len(k) = N + 1 /\ DOMAIN k = 1 .. N + 1 /\ \A i \in 1 .. N : k[i] = l[i]
  BY <1>1, <1>2
<1>4. PICK v : v = [k EXCEPT ![N + 1] = y]
  OBVIOUS
<1>5. DOMAIN v = 1 .. N + 1 /\ v[N + 1] = y /\ \A i \in 1 .. N : v[i] = l[i]
  BY <1>3, <1>4
<1>6. v = Append(l, y)
  <2>1. PICK z \in Seq(X) : z = Append(l, y)
    <3>1. Append(l, y) \in Seq(X)
      OBVIOUS
    <3> QED
      BY <3>1
  <2>2. DOMAIN z = 1 .. N + 1 /\ z[N + 1] = y /\ \A i \in 1 .. N : z[i] = l[i]
    BY <1>1, <2>1
  <2>3. z = [i \in 1 .. N + 1 |-> z[i]]
    <3>1. Len(z) = N + 1
      BY <1>1, <2>1
    <3>2. z = [i \in 1 .. Len(z) |-> z[i]]
      OBVIOUS
    <3> QED
      BY <3>1, <3>2
  <2>4. v = [i \in 1 .. N + 1 |-> v[i]]
    BY <1>3, <1>4, <1>5
  <2>5. ASSUME NEW i \in 1 .. N + 1 PROVE v[i] = z[i]
    BY <1>5, <2>2
  <2> QED
    BY <2>1, <2>3, <2>4, <2>5
<1> QED
  BY <1>2, <1>3, <1>4, <1>6

(* The first line                                                          *)
LEMMA FirstLine == ASSUME NEW x \in Words PROVE SplitLines(Typed(x)) = <<x>>
<1>1. CASE x = Blank
  BY <1>1, SplitNothing DEF Typed
<1>2. CASE x # Blank
  <2>1. x \in Signs /\ x # NL
    BY <1>2, PanelsAssumption DEF Words, Signs
  <2>2. PICK c \in Seq(Signs) : c = <<>>
    <3>1. <<>> \in Seq(Signs)
      OBVIOUS
    <3> QED
      BY <3>1
  <2>3. Append(c, x) = <<x>>
    BY <2>2
  <2>4. SplitLines(Append(c, x)) = Continue(SplitLines(c), x)
    BY <2>1, SplitNext
  <2>5. Continue(<<Blank>>, x) = [<<Blank>> EXCEPT ![1] = x]
    <3>1. Len(<<Blank>>) = 1
      OBVIOUS
    <3> QED
      BY <2>1, <3>1 DEF Continue
  <2>6. [<<Blank>> EXCEPT ![1] = x] = <<x>>
    OBVIOUS
  <2> QED
    BY <1>2, <2>2, <2>3, <2>4, <2>5, <2>6, SplitNothing DEF Typed
<1> QED
  BY <1>1, <1>2

(* A newline and what the line holds are one line more.                    *)
LEMMA NextLine ==
  ASSUME NEW w \in Seq(Signs), NEW x \in Words
  PROVE  SplitLines(w \o (<<NL>> \o Typed(x))) = Append(SplitLines(w), x)
<1>1. PICK L \in Drafts : L = SplitLines(w)
  <2>1. NL \in Signs
    BY DEF Signs
  <2> QED
    BY <2>1, SplitNext
<1>2. PICK v \in Seq(Signs) : v = Append(w, NL) /\ v = w \o <<NL>>
  <2>1. NL \in Signs
    BY DEF Signs
  <2>2. Append(w, NL) = w \o <<NL>>
    OBVIOUS
  <2>3. Append(w, NL) \in Seq(Signs)
    BY <2>1
  <2> QED
    BY <2>2, <2>3
<1>3. PICK K \in Drafts : K = SplitLines(v) /\ K = Append(L, Blank)
  <2>1. NL \in Signs
    BY DEF Signs
  <2>2. SplitLines(v) = Continue(L, NL)
    BY <1>1, <1>2, <2>1, SplitNext
  <2>3. Continue(L, NL) \in Drafts /\ Continue(L, NL) = Append(L, Blank)
    BY <2>1, ContinueType
  <2> QED
    BY <2>2, <2>3
<1>4. CASE x = Blank
  <2>1. (<<NL>> \o <<>>) = <<NL>>
    OBVIOUS
  <2> QED
    BY <1>1, <1>2, <1>3, <1>4, <2>1 DEF Typed
<1>5. CASE x # Blank
  <2>1. x \in Signs /\ x # NL
    BY <1>5, PanelsAssumption DEF Words, Signs
  <2>2. SplitLines(Append(v, x)) = Continue(K, x)
    BY <1>3, <2>1, SplitNext
  <2>3. Continue(K, x) = [K EXCEPT ![Len(K)] = x]
    BY <2>1 DEF Continue
  <2>4. [K EXCEPT ![Len(K)] = x] = Append(L, x)
    <3>1. L \in Seq(Words) /\ Blank \in Words
      BY DEF Drafts, Words
    <3> QED
      BY <1>3, <3>1, LastReplaced
  <2>5. Append(v, x) = w \o (<<NL>> \o <<x>>)
    <3>1. PICK p \in Seq(Signs) : p = <<NL>>
      <4>1. <<NL>> \in Seq(Signs)
        BY DEF Signs
      <4> QED
        BY <4>1
    <3>2. PICK q \in Seq(Signs) : q = <<x>>
      <4>1. <<x>> \in Seq(Signs)
        BY <2>1
      <4> QED
        BY <4>1
    <3>3. (w \o p) \o q = w \o (p \o q)
      BY Threefold
    <3>4. Append(v, x) = v \o <<x>>
      OBVIOUS
    <3> QED
      BY <1>2, <3>1, <3>2, <3>3, <3>4
  <2> QED
    BY <1>1, <1>5, <2>2, <2>3, <2>4, <2>5 DEF Typed
<1> QED
  BY <1>4, <1>5

(* What strings.Join puts together                                         *)
Part(m, i) == (IF i = 1 THEN <<>> ELSE <<NL>>) \o Typed(m[i])
Parts(m) == [i \in 1 .. Len(m) |-> Part(m, i)]

LEMMA JoinParts == ASSUME NEW m PROVE JoinLines(m) = FlattenSeq(Parts(m))
BY DEF JoinLines, Parts, Part, Typed

LEMMA PartsType ==
  ASSUME NEW m \in Seq(Words)
  PROVE  /\ Parts(m) \in Seq(Seq(Signs)) /\ Len(Parts(m)) = Len(m)
         /\ \A i \in 1 .. Len(m) : Parts(m)[i] = IF i = 1 THEN Typed(m[1]) ELSE <<NL>> \o Typed(m[i])
<1>1. PICK N \in Nat : N = Len(m)
  OBVIOUS
<1>2. ASSUME NEW i \in 1 .. N
      PROVE  Part(m, i) \in Seq(Signs) /\ Part(m, i) = IF i = 1 THEN Typed(m[1]) ELSE <<NL>> \o Typed(m[i])
  <2>1. m[i] \in Words
    BY <1>1
  <2>2. PICK t \in Seq(Signs) : t = Typed(m[i])
    BY <2>1, TypedSigns
  <2>3. <<>> \o t = t
    BY ConcatEmptySeq
  <2>4. (<<NL>> \o t) \in Seq(Signs)
    BY <2>1, <2>2, TypedSigns
  <2> QED
    BY <2>2, <2>3, <2>4 DEF Part
<1>3. Parts(m) \in [1 .. N -> Seq(Signs)]
  BY <1>1, <1>2 DEF Parts
<1>4. ASSUME NEW Y, NEW u \in [1 .. N -> Y] PROVE u \in Seq(Y) /\ Len(u) = N
  OBVIOUS
<1>5. Parts(m) \in Seq(Seq(Signs)) /\ Len(Parts(m)) = N
  BY <1>3, <1>4
<1>6. \A i \in 1 .. N : Parts(m)[i] = Part(m, i)
  BY <1>1 DEF Parts
<1> QED
  BY <1>1, <1>2, <1>5, <1>6

(* Line by line, what is joined splits into the same lines.                *)
LEMMA SplitJoined ==
  ASSUME NEW m \in Seq(Words), NEW N \in Nat, N = Len(m), NEW ps, ps = Parts(m), NEW k \in 1 .. N
  PROVE  SplitLines(Joined(ps, 0, k)) = SubSeq(m, 1, k) /\ Joined(ps, 0, k) \in Seq(Signs)
<1>1. /\ ps \in Seq(Seq(Signs)) /\ Len(ps) = N
      /\ \A i \in 1 .. N : ps[i] = IF i = 1 THEN Typed(m[1]) ELSE <<NL>> \o Typed(m[i])
  BY PartsType
<1>2. ASSUME NEW i \in 0 .. N PROVE Joined(ps, 0, i) \in Seq(Signs)
  <2>1. i \in Nat /\ i <= Len(ps) /\ 0 \in Nat
    BY <1>1
  <2> QED
    BY <1>1, <2>1, JoinedType
<1>3. ASSUME NEW i \in 1 .. N PROVE Joined(ps, 0, i) = Joined(ps, 0, i - 1) \o ps[i]
  <2>1. i \in 1 .. Len(ps) /\ 0 < i /\ 0 \in Nat
    BY <1>1
  <2> QED
    BY <1>1, <2>1, JoinedNext
<1>4. ASSUME NEW i \in 1 .. N PROVE m[i] \in Words
  OBVIOUS
<1>5. PICK M \in Nat : M = N - 1 /\ N = M + 1
  OBVIOUS
<1>6. PICK S : S = {n \in 0 .. M : SplitLines(Joined(ps, 0, n + 1)) = SubSeq(m, 1, n + 1)}
  OBVIOUS
<1>7. 0 \in S
  <2>1. PICK j \in 1 .. N : j = 1 /\ j - 1 = 0 /\ 0 + 1 = j
    OBVIOUS
  <2>2. PICK t \in Seq(Signs) : t = Typed(m[1])
    BY <1>4, <2>1, TypedSigns
  <2>3. Joined(ps, 0, j) = <<>> \o t
    <3>1. Joined(ps, 0, 0) = <<>>
      BY JoinedNone
    <3> QED
      BY <1>1, <1>3, <2>1, <2>2, <3>1
  <2>4. <<>> \o t = t
    BY ConcatEmptySeq
  <2>5. SplitLines(t) = <<m[1]>>
    BY <1>4, <2>1, <2>2, FirstLine
  <2>6. SubSeq(m, 1, 1) = <<m[1]>>
    <3>1. j \in Nat /\ j <= Len(m) /\ 1 \in 1 .. j
      BY <2>1
    <3>2. PICK s \in Seq(Words) : s = SubSeq(m, 1, j)
      BY <3>1, Start
    <3>3. Len(s) = j /\ s[1] = m[1]
      BY <3>1, <3>2, Start
    <3>4. Len(s) = 1
      BY <2>1, <3>3
    <3>5. s = <<s[1]>>
      BY <3>4
    <3> QED
      BY <2>1, <3>2, <3>3, <3>5, Zenon
  <2>7. SplitLines(Joined(ps, 0, 0 + 1)) = SubSeq(m, 1, 0 + 1)
    BY <2>1, <2>3, <2>4, <2>5, <2>6
  <2> QED
    BY <1>5, <1>6, <2>7
<1>8. ASSUME NEW n \in 1 .. M, n - 1 \in S PROVE n \in S
  <2>1. PICK j \in 1 .. N : j = n + 1 /\ j - 1 = n /\ j # 1 /\ (n - 1) + 1 = n
    BY <1>5
  <2>2. SplitLines(Joined(ps, 0, n)) = SubSeq(m, 1, n)
    BY <1>6, <1>8, <2>1
  <2>3. PICK w \in Seq(Signs) : w = Joined(ps, 0, n)
    <3>1. n \in 0 .. N
      BY <1>5
    <3> QED
      BY <1>2, <3>1
  <2>4. Joined(ps, 0, j) = w \o (<<NL>> \o Typed(m[j]))
    BY <1>1, <1>3, <2>1, <2>3
  <2>5. PICK x \in Words : x = m[j]
    BY <1>4
  <2>6. SplitLines(w \o (<<NL>> \o Typed(x))) = Append(SubSeq(m, 1, n), x)
    BY <2>2, <2>3, NextLine
  <2>7. Append(SubSeq(m, 1, n), x) = SubSeq(m, 1, j)
    <3>1. j \in 1 .. Len(m) /\ 1 \in 1 .. Len(m) /\ j \in 1 .. j
      BY <2>1
    <3>2. SubSeq(m, 1, j) = SubSeq(m, 1, j - 1) \o <<m[j]>>
      BY <3>1, SubSeqRecursiveSecond
    <3>3. n \in Nat /\ n <= Len(m)
      BY <1>5
    <3>4. PICK s \in Seq(Words) : s = SubSeq(m, 1, n)
      BY <3>3, Start
    <3>5. Append(s, x) = s \o <<x>>
      BY AppendIsConcat
    <3> QED
      BY <2>1, <2>5, <3>2, <3>4, <3>5
  <2>8. SplitLines(Joined(ps, 0, n + 1)) = SubSeq(m, 1, n + 1)
    BY <2>1, <2>4, <2>5, <2>6, <2>7
  <2>9. n \in 0 .. M
    OBVIOUS
  <2> QED
    BY <1>6, <2>8, <2>9
<1>9. 0 .. M \subseteq S
  BY <1>7, <1>8, Upward
<1>10. PICK n \in 0 .. M : n = k - 1 /\ n + 1 = k
  BY <1>5
<1>11. SplitLines(Joined(ps, 0, n + 1)) = SubSeq(m, 1, n + 1)
  BY <1>6, <1>9
<1>12. k \in 0 .. N
  OBVIOUS
<1> QED
  BY <1>2, <1>10, <1>11, <1>12

LEMMA LastAppended ==
  ASSUME NEW X, NEW w \in Seq(X), NEW a \in X, NEW v, v = Append(w, a)
  PROVE  v # <<>> /\ v[Len(v)] = a /\ SubSeq(v, 1, Len(v) - 1) = w /\ v \in Seq(X)
<1>1. PICK N \in Nat : N = Len(w)
  OBVIOUS
<1>2. v \in Seq(X) /\ Len(v) = N + 1 /\ v[N + 1] = a /\ \A i \in 1 .. N : v[i] = w[i]
  BY <1>1
<1>3. (N + 1) - 1 = N /\ N <= Len(v)
  BY <1>2
<1>4. PICK s \in Seq(X) : s = SubSeq(v, 1, N) /\ Len(s) = N /\ \A i \in 1 .. N : s[i] = v[i]
  BY <1>2, <1>3, Start
<1>5. s = w
  BY <1>1, <1>2, <1>4
<1>6. v # <<>>
  BY <1>2
<1> QED
  BY <1>2, <1>3, <1>4, <1>5, <1>6

(* What JoinLines saves, DocumentLines reads as the same lines, but for    *)
(* one blank line at the end.                                              *)
LEMMA ReadBack ==
  ASSUME NEW m \in Seq(Words), m # <<>>
  PROVE  /\ JoinLines(m) \in Seq(Signs)
         /\ NeverEmpty(DocumentLines(JoinLines(m))) = IF Len(m) > 1 /\ Last(m) = Blank THEN Front(m) ELSE m
<1>1. PICK N \in Nat : N = Len(m) /\ N # 0
  OBVIOUS
<1>2. PICK ps \in Seq(Seq(Signs)) :
        /\ ps = Parts(m) /\ Len(ps) = N
        /\ \A i \in 1 .. N : ps[i] = IF i = 1 THEN Typed(m[1]) ELSE <<NL>> \o Typed(m[i])
  BY <1>1, PartsType
<1>3. PICK c \in Seq(Signs) : c = Joined(ps, 0, N) /\ SplitLines(c) = m
  <2>1. N \in 1 .. N
    BY <1>1
  <2>2. SubSeq(m, 1, N) = m
    BY <1>1
  <2>3. SplitLines(Joined(ps, 0, N)) = SubSeq(m, 1, N) /\ Joined(ps, 0, N) \in Seq(Signs)
    BY <1>1, <1>2, <2>1, SplitJoined
  <2> QED
    BY <2>2, <2>3
<1>4. JoinLines(m) = c
  <2>1. JoinLines(m) = FlattenSeq(ps)
    BY <1>2, JoinParts
  <2>2. SubSeq(ps, 1, N) = ps
    BY <1>2
  <2>3. 0 + 1 = 1
    OBVIOUS
  <2>4. Joined(ps, 0, N) = FlattenSeq(SubSeq(ps, 0 + 1, N))
    BY DEF Joined
  <2>5. Joined(ps, 0, N) = FlattenSeq(ps)
    BY <2>2, <2>3, <2>4, Zenon
  <2> QED
    BY <1>3, <2>1, <2>5
<1>5. PICK x \in Words : x = m[N] /\ x = Last(m)
  BY <1>1 DEF Last
<1>6. Joined(ps, 0, N) = Joined(ps, 0, N - 1) \o ps[N]
  <2>1. N \in 1 .. Len(ps) /\ 0 < N /\ 0 \in Nat
    BY <1>1, <1>2
  <2> QED
    BY <2>1, JoinedNext
<1>7. PICK w \in Seq(Signs) : w = Joined(ps, 0, N - 1)
  <2>1. N - 1 \in Nat /\ N - 1 <= Len(ps) /\ 0 \in Nat
    BY <1>1, <1>2
  <2> QED
    BY <2>1, JoinedType
<1>8. NL \in Signs
  BY DEF Signs
<1>9. ASSUME c # <<>>, c[Len(c)] # NL PROVE NeverEmpty(DocumentLines(c)) = m
  BY <1>3, <1>9 DEF DocumentLines, NeverEmpty
<1>10. CASE N > 1 /\ x = Blank
  <2>1. c = Append(w, NL)
    <3>1. ps[N] = <<NL>> \o <<>>
      <4>1. N \in 1 .. N /\ N # 1
        BY <1>10
      <4>2. ps[N] = <<NL>> \o Typed(x)
        BY <1>2, <1>5, <4>1
      <4> QED
        BY <1>10, <4>2 DEF Typed
    <3>2. <<NL>> \o <<>> = <<NL>>
      OBVIOUS
    <3>3. Append(w, NL) = w \o <<NL>>
      BY <1>8, AppendIsConcat
    <3> QED
      BY <1>3, <1>6, <1>7, <3>1, <3>2, <3>3
  <2>2. c # <<>> /\ c[Len(c)] = NL /\ SubSeq(c, 1, Len(c) - 1) = w
    BY <1>8, <2>1, LastAppended
  <2>3. PICK n \in 1 .. N : n = N - 1
    BY <1>10
  <2>4. SplitLines(w) = SubSeq(m, 1, n)
    BY <1>1, <1>2, <1>7, <2>3, SplitJoined
  <2>5. SubSeq(m, 1, n) = Front(m)
    BY <1>1, <2>3 DEF Front
  <2>6. Front(m) # <<>>
    <3>1. n \in Nat /\ n <= Len(m)
      BY <1>1
    <3>2. PICK s \in Seq(Words) : s = SubSeq(m, 1, n) /\ Len(s) = n
      BY <3>1, Start
    <3>3. Len(s) # 0
      BY <2>3, <3>2
    <3>4. s # <<>>
      BY <3>3
    <3> QED
      BY <2>5, <3>2, <3>4
  <2>7. NeverEmpty(DocumentLines(c)) = Front(m)
    BY <2>2, <2>4, <2>5, <2>6 DEF DocumentLines, NeverEmpty
  <2> QED
    BY <1>1, <1>4, <1>5, <1>10, <2>7
<1>11. CASE N = 1 /\ x = Blank
  <2>1. c = <<>>
    <3>1. N - 1 = 0
      BY <1>11
    <3>2. w = <<>>
      BY <1>7, <3>1, JoinedNone
    <3>3. ps[N] = <<>>
      <4>1. N \in 1 .. N /\ N = 1
        BY <1>11
      <4>2. ps[N] = Typed(x)
        BY <1>2, <1>5, <4>1
      <4> QED
        BY <1>11, <4>2 DEF Typed
    <3> QED
      BY <1>3, <1>6, <1>7, <3>2, <3>3
  <2>2. m = <<Blank>>
    <3>1. Len(m) = 1 /\ m[1] = Blank
      BY <1>1, <1>5, <1>11
    <3> QED
      BY <3>1
  <2> QED
    BY <1>1, <1>4, <1>11, <2>1, <2>2 DEF DocumentLines, NeverEmpty
<1>12. CASE x # Blank
  <2>1. x \in Signs /\ x # NL
    BY <1>12, PanelsAssumption DEF Words, Signs
  <2>2. PICK v \in Seq(Signs) : c = Append(v, x)
    <3>1. <<x>> \in Seq(Signs) /\ <<NL>> \in Seq(Signs)
      BY <1>8, <2>1
    <3>2. PICK p \in Seq(Signs), q \in Seq(Signs) : p = <<NL>> /\ q = <<x>>
      BY <3>1
    <3>3. CASE N = 1
      <4>1. ps[N] = q
        <5>1. N \in 1 .. N /\ N = 1
          BY <3>3
        <5>2. ps[N] = Typed(x)
          BY <1>2, <1>5, <5>1
        <5> QED
          BY <1>12, <3>2, <5>2 DEF Typed
      <4>2. c = w \o q
        BY <1>3, <1>6, <1>7, <4>1
      <4>3. Append(w, x) = w \o <<x>>
        BY <2>1, AppendIsConcat
      <4> QED
        BY <3>2, <4>2, <4>3
    <3>4. CASE N # 1
      <4>1. N \in 1 .. N
        BY <1>1
      <4>2. ps[N] = p \o q
        BY <1>2, <1>5, <1>12, <3>2, <3>4, <4>1 DEF Typed
      <4>3. c = w \o (p \o q)
        BY <1>3, <1>6, <1>7, <4>2
      <4>4. (w \o p) \o q = w \o (p \o q)
        BY Threefold
      <4>5. PICK v \in Seq(Signs) : v = w \o p
        <5>1. w \o p \in Seq(Signs)
          BY ConcatProperties
        <5> QED
          BY <5>1
      <4>6. Append(v, x) = v \o <<x>>
        BY <2>1, AppendIsConcat
      <4> QED
        BY <3>2, <4>3, <4>4, <4>5, <4>6
    <3> QED
      BY <3>3, <3>4
  <2>3. c # <<>> /\ c[Len(c)] = x
    BY <2>1, <2>2, LastAppended
  <2> QED
    BY <1>4, <1>5, <1>9, <1>12, <2>1, <2>3
<1> QED
  BY <1>1, <1>4, <1>5, <1>10, <1>11, <1>12

LEMMA LinesRead ==
  ASSUME NEW c \in Seq(Signs)
  PROVE  NeverEmpty(DocumentLines(c)) \in Drafts
<1>1. <<Blank>> \in Drafts
  BY DEF Drafts, Words
<1>2. NL \in Signs
  BY DEF Signs
<1>3. CASE c = <<>>
  BY <1>1, <1>3 DEF DocumentLines, NeverEmpty
<1>4. CASE c # <<>>
  <2>1. PICK s \in Seq(Signs) : s = IF c[Len(c)] = NL THEN SubSeq(c, 1, Len(c) - 1) ELSE c
    <3>1. Len(c) \in Nat /\ Len(c) # 0
      BY <1>4
    <3>2. Len(c) - 1 \in Nat /\ Len(c) - 1 <= Len(c)
      BY <3>1
    <3>3. SubSeq(c, 1, Len(c) - 1) \in Seq(Signs)
      BY <3>2, Start
    <3> QED
      BY <3>3
  <2>2. SplitLines(s) \in Drafts
    BY <1>2, SplitNext
  <2> QED
    BY <1>1, <1>4, <2>1, <2>2 DEF DocumentLines, NeverEmpty
<1> QED
  BY <1>3, <1>4

LEMMA StoredSigns == Stored \subseteq Seq(Signs)
BY PanelsAssumption DEF Signs

(* The document is content, the editor has lines, and what it handles are  *)
(* texts and commands.                                                     *)
EditInv ==
  /\ doc \in Seq(Signs)
  /\ mode = "edit" => lines \in Drafts
  /\ mode = "edit" /\ act # Quiet => EditorAct
  /\ mode = "menu" => act = Quiet

LEMMA EditStart == Init => EditInv
<1>1. <<>> \in Seq(Signs)
  OBVIOUS
<1> QED
  BY <1>1 DEF Init, EditInv

LEMMA EditsDone ==
  ASSUME EditInv, InEditor
  PROVE  Edited = Meaning(lines) /\ Edited \in Seq(Words) /\ Edited # <<>> /\ Edited \in Drafts
<1>1. lines \in Seq(Words) /\ lines # <<>> /\ EditorAct
  BY DEF EditInv, InEditor, Drafts
<1>2. Edited = Meaning(lines) /\ Edited \in Seq(Words) /\ Edited # <<>>
  BY <1>1, EditedMeans
<1> QED
  BY <1>2 DEF Drafts

LEMMA EditLeft ==
  ASSUME EditInv, Leave, doc' \in Seq(Signs)
  PROVE  EditInv'
BY DEF EditInv, Leave

LEMMA EditStep ==
  ASSUME EditInv, [Next]_vars
  PROVE  EditInv'
<1>1. <<>> \in Seq(Signs) /\ doc \in Seq(Signs)
  BY DEF EditInv
<1>2. ASSUME NEW p, NEW pend, NEW m, ListScreen(p, pend, m) PROVE EditInv'
  BY <1>1, <1>2 DEF ListScreen, EditInv
<1>3. ASSUME NEW p, NEW refresh, SnapshotScreen(p, refresh), mode' \in {"sessions", "audit"} PROVE EditInv'
  BY <1>1, <1>3 DEF SnapshotScreen, EditInv
<1>4. CASE OpenList
  BY <1>2, <1>4 DEF OpenList
<1>5. CASE OpenSnapshot
  BY <1>3, <1>5 DEF OpenSnapshot
<1>6. CASE OpenEditor
  <2>1. lines' \in Drafts
    BY <1>1, <1>6, LinesRead DEF OpenEditor
  <2> QED
    BY <1>6, <2>1 DEF OpenEditor, EditInv
<1>7. CASE Import
  <2>1. doc' \in Seq(Signs)
    BY <1>7, StoredSigns DEF Import
  <2> QED
    BY <1>7, <2>1 DEF Import, EditInv
<1>8. CASE Press
  <2>1. CASE mode = "edit"
    <3>1. act' \in EditorTransmissions
      BY <1>8, <2>1 DEF Press
    <3>2. EditorAct'
      BY <3>1 DEF EditorTransmissions, EditorAct, Words
    <3> QED
      BY <1>8, <2>1, <3>2 DEF Press, EditInv
  <2>2. CASE mode # "edit"
    <3>1. mode # "menu"
      BY <1>8 DEF Press
    <3> QED
      BY <1>8, <2>2, <3>1 DEF Press, EditInv
  <2> QED
    BY <2>1, <2>2
<1>9. CASE RunList
  <2>1. CASE ConfirmCommit
    BY <1>2, <2>1 DEF ConfirmCommit
  <2>2. CASE ConfirmCancel
    BY <1>2, <2>2 DEF ConfirmCancel
  <2>3. CASE ListEnd
    BY <1>1, <2>3, EditLeft DEF ListEnd
  <2>4. CASE ListAdd
    BY <1>2, <2>4 DEF ListAdd
  <2>5. CASE ListPage
    BY <1>2, <2>5 DEF ListPage
  <2>6. CASE ListRefresh
    BY <1>2, <2>6 DEF ListRefresh
  <2>7. CASE ListCommand
    BY <1>2, <2>7 DEF ListCommand
  <2> QED
    BY <1>9, <2>1, <2>2, <2>3, <2>4, <2>5, <2>6, <2>7 DEF RunList
<1>10. CASE RunSnapshotList
  <2>1. CASE SnapshotEnd
    BY <1>1, <2>1, EditLeft DEF SnapshotEnd
  <2>2. CASE SnapshotPage
    BY <1>3, <2>2 DEF SnapshotPage, InSnapshot
  <2>3. CASE SnapshotSelect
    BY <1>3, <2>3 DEF SnapshotSelect, InSnapshot
  <2>4. CASE SnapshotRefresh
    BY <1>3, <2>4 DEF SnapshotRefresh, InSnapshot
  <2>5. CASE SnapshotOther
    BY <1>3, <2>5 DEF SnapshotOther, InSnapshot
  <2> QED
    BY <1>10, <2>1, <2>2, <2>3, <2>4, <2>5 DEF RunSnapshotList
<1>11. CASE RunEditor
  <2>1. Edited \in Seq(Words) /\ Edited # <<>> /\ Edited \in Drafts
    BY <1>11, EditsDone DEF RunEditor, EditorApply, EditorSave, EditorSaveRefused, EditorCancel, InEditor
  <2>2. ASSUME NEW p, NEW m, EditorScreen(p, m) PROVE EditInv'
    BY <2>1, <2>2 DEF EditorScreen, EditInv
  <2>3. CASE EditorApply
    BY <2>2, <2>3 DEF EditorApply
  <2>4. CASE EditorSave
    <3>1. JoinLines(Edited) \in Seq(Signs)
      BY <2>1, ReadBack
    <3> QED
      BY <2>4, <3>1, EditLeft DEF EditorSave
  <2>5. CASE EditorSaveRefused
    BY <2>2, <2>5 DEF EditorSaveRefused
  <2>6. CASE EditorCancel
    BY <1>1, <2>6, EditLeft DEF EditorCancel
  <2> QED
    BY <1>11, <2>3, <2>4, <2>5, <2>6 DEF RunEditor
<1>12. CASE HangUp
  BY <1>1, <1>12, EditLeft DEF HangUp
<1>13. CASE Others
  <2>1. doc' \in Seq(Signs)
    BY <1>1, <1>13, StoredSigns DEF Others
  <2> QED
    BY <1>13, <2>1 DEF Others, EditInv
<1>14. CASE UNCHANGED vars
  BY <1>14 DEF vars, EditInv, EditorAct
<1> QED
  BY <1>4, <1>5, <1>6, <1>7, <1>8, <1>9, <1>10, <1>11, <1>12, <1>13, <1>14 DEF Next

LEMMA EditsAct ==
  ASSUME EditInv, [Next]_vars, mode = "edit", act # Quiet, act' = Quiet
  PROVE  \/ mode' = "edit" /\ lines' = Meaning(lines) /\ doc' = doc
         \/ mode' = "menu" /\ act.pf = "PF12" /\ doc' = doc
         \/ /\ mode' = "menu" /\ act.pf = "PF3" /\ ~Vetoed
            /\ LET m == Meaning(lines)
               IN NeverEmpty(DocumentLines(doc')) =
                    IF Len(m) > 1 /\ Last(m) = Blank THEN Front(m) ELSE m
<1>1. ~ RunList
  BY DEF RunList, ConfirmCommit, ConfirmCancel, ListEnd, ListAdd, ListPage, ListRefresh, ListCommand, Unconfirmed
<1>2. ~ RunSnapshotList
  BY DEF RunSnapshotList, SnapshotEnd, SnapshotPage, SnapshotSelect, SnapshotRefresh, SnapshotOther, InSnapshot
<1>3. RunEditor
  BY <1>1, <1>2 DEF Next, OpenList, OpenSnapshot, OpenEditor, Import, Press, HangUp, Others, vars
<1>4. Edited = Meaning(lines) /\ Edited \in Seq(Words) /\ Edited # <<>>
  BY EditsDone DEF InEditor
<1>5. ASSUME NEW p, NEW m, EditorScreen(p, m) PROVE mode' = "edit" /\ lines' = Meaning(lines) /\ doc' = doc
  BY <1>4, <1>5 DEF EditorScreen
<1>6. CASE EditorApply
  BY <1>5, <1>6 DEF EditorApply
<1>7. CASE EditorSaveRefused
  BY <1>5, <1>7 DEF EditorSaveRefused
<1>8. CASE EditorCancel
  BY <1>8 DEF EditorCancel, Leave
<1>9. CASE EditorSave
  <2>1. PICK m \in Seq(Words) : m = Meaning(lines) /\ m = Edited /\ m # <<>>
    BY <1>4
  <2>2. NeverEmpty(DocumentLines(JoinLines(m))) = IF Len(m) > 1 /\ Last(m) = Blank THEN Front(m) ELSE m
    BY <2>1, ReadBack
  <2>3. doc' = JoinLines(m) /\ mode' = "menu" /\ act.pf = "PF3" /\ ~Vetoed
    BY <1>9, <2>1 DEF EditorSave, Leave
  <2> QED
    BY <2>1, <2>2, <2>3
<1> QED
  BY <1>3, <1>6, <1>7, <1>8, <1>9 DEF RunEditor

(* A transmission of the editor does to every line exactly what was typed  *)
(* on it, whatever the commands beside it, and what PF3 saves reads back   *)
(* as those lines (RunEditor, applyPrefix, Document.Lines).                *)
THEOREM EditsExact == Spec => EditExact
<1>1. EditInv /\ [Next]_vars => EditInv'
  BY EditStep
<1>2. EditInv /\ [Next]_vars =>
        [mode = "edit" /\ act # Quiet /\ act' = Quiet =>
           \/ mode' = "edit" /\ lines' = Meaning(lines) /\ doc' = doc
           \/ mode' = "menu" /\ act.pf = "PF12" /\ doc' = doc
           \/ /\ mode' = "menu" /\ act.pf = "PF3" /\ ~Vetoed
              /\ LET m == Meaning(lines)
                 IN NeverEmpty(DocumentLines(doc')) =
                      IF Len(m) > 1 /\ Last(m) = Blank THEN Front(m) ELSE m]_vars
  BY EditsAct
<1> QED
  BY <1>1, <1>2, EditStart, PTL DEF Spec, EditExact

-----------------------------------------------------------------------------
(* The message of the day *)

LEMMA TermRows == ASSUME NEW t \in Terminals PROVE Rows(t) \in Nat /\ Rows(t) >= 24
<1>1. t[1] \in Nat
  BY MenuAssumption
<1>. QED
  BY <1>1 DEF Rows

(* What is left of a document is some of its first lines.                  *)
LEMMA TrimmedDocument ==
  ASSUME NEW d \in Documents
  PROVE  \E n \in 0 .. Len(d) : Trimmed(d) \in Seq({"text", "blank"}) /\ Len(Trimmed(d)) = n
<1>1. d \in Seq({"text", "blank"}) /\ Len(d) \in Nat /\ DOMAIN d = 1 .. Len(d)
  BY MenuAssumption
<1>2. CASE \A i \in DOMAIN d : d[i] = "blank"
  BY <1>1, <1>2 DEF Trimmed, NoLines
<1>3. CASE ~ \A i \in DOMAIN d : d[i] = "blank"
  <2>. DEFINE left == {Len(d) - i : i \in {j \in DOMAIN d : d[j] # "blank"}}
              isLast(n) == d[n] # "blank" /\ \A i \in n + 1 .. Len(d) : d[i] = "blank"
              last == CHOOSE n \in DOMAIN d : isLast(n)
  <2>1. left \in SUBSET Nat /\ left # {}
    BY <1>1, <1>3
  <2>. DEFINE m == Len(d) - Min(left)
  <2>2. Min(left) \in left /\ \A k \in left : Min(left) <= k
    <3>. HIDE DEF left
    <3>. QED
      BY <2>1, Least
  <2>3. m \in DOMAIN d /\ d[m] # "blank"
    BY <1>1, <2>2
  <2>4. ASSUME NEW i \in m + 1 .. Len(d), d[i] # "blank" PROVE FALSE
    <3>1. i \in 1 .. Len(d) /\ m \in Nat /\ Min(left) = Len(d) - m
      BY <1>1, <2>1, <2>2, <2>3
    <3>2. Len(d) - i \in left
      BY <1>1, <2>4, <3>1
    <3>3. Min(left) <= Len(d) - i
      BY <2>2, <3>2
    <3>. HIDE DEF left, m
    <3>. QED
      BY <1>1, <3>1, <3>3
  <2>5. isLast(m)
    BY <2>3, <2>4
  <2>. HIDE DEF m
  <2>6. last \in DOMAIN d
    BY <2>3, <2>5
  <2>7. Trimmed(d) = SubSeq(d, 1, last)
    BY <1>3 DEF Trimmed
  <2>. HIDE DEF last
  <2>8. last \in Nat /\ last <= Len(d) /\ last >= 1
    BY <1>1, <2>6
  <2>9. \A i \in 1 .. last : d[i] \in {"text", "blank"}
    BY <1>1, <2>8
  <2>10. SubSeq(d, 1, last) \in Seq({"text", "blank"}) /\ Len(SubSeq(d, 1, last)) = last
    BY <2>8, <2>9, SubSeqProperties
  <2>. QED
    BY <1>1, <2>7, <2>8, <2>10
<1>. QED
  BY <1>2, <1>3

(* The lines shown are those up to the page on the terminal.               *)
NewsInv ==
  /\ term \in Terminals
  /\ On("news") =>
       /\ Len(text) \in Nat /\ DOMAIN text = 1 .. Len(text)
       /\ docPage \in Nat
       /\ read = 1 .. Smaller(docPage * NewsLinesPerPage(term) + NewsLinesPerPage(term), Len(text))

(* Page i of a document follows the lines shown before.                    *)
LEMMA NewsShown ==
  ASSUME NEW i \in Nat, NEW motd, ShowNews(i, motd), term \in Terminals, term' = term,
         Len(motd) \in Nat, DOMAIN motd = 1 .. Len(motd), i * NewsLinesPerPage(term) < Len(motd),
         i # 0 => read = 1 .. i * NewsLinesPerPage(term)
  PROVE  NewsInv'
<1>. DEFINE per == NewsLinesPerPage(term)
            n == Len(motd)
            start == i * per
<1>1. per \in Nat /\ per >= 22
  BY TermRows DEF NewsLinesPerPage
<1>2. start \in Nat /\ (i = 0 => start = 0)
  BY <1>1
<1>3. NewsPage(i, n) = [first |-> start + 1, n |-> Smaller(per, n - start)]
  BY DEF NewsPage
<1>4. text' = motd /\ docPage' = i
      /\ read' = (IF i = 0 THEN {} ELSE read) \cup LinesOf(start + 1, Smaller(per, n - start))
  BY <1>3 DEF ShowNews
<1>. HIDE DEF start, per
<1>5. LinesOf(start + 1, Smaller(per, n - start)) = start + 1 .. Smaller(start + per, n)
  <2>1. LinesOf(start + 1, Smaller(per, n - start)) = start + 1 .. start + 1 + Smaller(per, n - start) - 1
    BY DEF LinesOf
  <2>2. start + 1 + Smaller(per, n - start) - 1 = Smaller(start + per, n)
    <3>1. n \in Int
      OBVIOUS
    <3>. HIDE DEF n
    <3>. QED
      BY <1>1, <1>2, <3>1 DEF Smaller
  <2>. QED
    BY <2>1, <2>2
<1>6. start < n
  BY DEF start, per
<1>7. (IF i = 0 THEN {} ELSE read) = 1 .. start
  BY <1>2 DEF start, per
<1>. HIDE DEF n
<1>8. n \in Nat
  BY DEF n
<1>9. read' = 1 .. Smaller(start + per, n)
  BY <1>1, <1>2, <1>4, <1>5, <1>6, <1>7, <1>8 DEF Smaller
<1>10. NewsLinesPerPage(term') = per
  BY DEF per, NewsLinesPerPage
<1>. QED
  BY <1>4, <1>9, <1>10 DEF NewsInv, start, n

(* A further page starts before the last line.                             *)
LEMMA FurtherPage ==
  ASSUME NEW per \in Nat \ {0}, NEW n \in Nat, n # 0, NEW p \in Nat
  PROVE  p < (n + per - 1) \div per <=> p * per < n
<1>1. (n + per - 1) \div per = (n - 1) \div per + 1
  OBVIOUS
<1>2. p <= (n - 1) \div per <=> p * per < n
  BY PageStarts
<1>3. (n - 1) \div per \in Nat
  OBVIOUS
<1>. QED
  BY <1>1, <1>2, <1>3

LEMMA NewsStarts == MenuInit => NewsInv
BY DEF MenuInit, NewsInv, On, AtLogin

LEMMA NewsStep == NewsInv /\ [MenuNext]_menuVars => NewsInv'
<1>. SUFFICES ASSUME NewsInv, [MenuNext]_menuVars PROVE NewsInv'
  OBVIOUS
<1>0. term' \in Terminals /\ (screen'.kind # "news" => NewsInv')
  <2>1. term' \in Terminals
    <3>1. UNCHANGED term \/ Logoff
      BY DEF MenuNext, menuVars, SignOn, NewsEnter, MenuPaging, MenuService, MenuInvalid, MenuHelp, HelpPaging,
             HelpEnd, OpenFlow, OpenPicture, BackToOptions, BackToMenu, Regrant, OpenScreen, Open, access
    <3>. QED
      BY <3>1 DEF Logoff, NewsInv
  <2>. QED
    BY <2>1 DEF NewsInv, On
<1>1. CASE UNCHANGED menuVars
  BY <1>1 DEF menuVars, NewsInv, On, NewsLinesPerPage
<1>2. CASE SignOn
  <2>1. CASE Arrive
    BY <1>0, <2>1 DEF Arrive, EnterMenu
  <2>2. CASE \E d \in Documents : Trimmed(d) # NoLines /\ ShowNews(0, Trimmed(d))
    <3>1. PICK d \in Documents : Trimmed(d) # NoLines /\ ShowNews(0, Trimmed(d))
      BY <2>2
    <3>2. Trimmed(d) \in Seq({"text", "blank"})
      BY TrimmedDocument
    <3>3. Len(Trimmed(d)) \in Nat /\ DOMAIN Trimmed(d) = 1 .. Len(Trimmed(d)) /\ Len(Trimmed(d)) # 0
      BY <3>1, <3>2 DEF NoLines
    <3>4. 0 * NewsLinesPerPage(term) = 0
      BY TermRows DEF NewsLinesPerPage, NewsInv
    <3>. QED
      BY <1>2, <3>1, <3>3, <3>4, NewsShown DEF SignOn, NewsInv
  <2>. QED
    BY <1>2, <2>1, <2>2 DEF SignOn
<1>3. CASE NewsEnter
  <2>1. CASE Arrive
    BY <1>0, <2>1 DEF Arrive, EnterMenu
  <2>2. CASE docPage + 1 < NewsPages /\ ShowNews(docPage + 1, text)
    <3>. DEFINE per == NewsLinesPerPage(term)
                n == Len(text)
    <3>1. /\ per \in Nat /\ per >= 22 /\ n \in Nat /\ DOMAIN text = 1 .. n /\ docPage \in Nat
          /\ read = 1 .. Smaller(docPage * per + per, n)
      BY <1>3, TermRows DEF NewsEnter, NewsInv, NewsLinesPerPage
    <3>2. docPage + 1 < (n + per - 1) \div per
      BY <2>2 DEF NewsPages
    <3>3. n # 0
      BY <3>1, <3>2
    <3>4. (docPage + 1) * per < n /\ (docPage + 1) * per = docPage * per + per
      BY <3>1, <3>2, <3>3, FurtherPage
    <3>5. read = 1 .. (docPage + 1) * per
      BY <3>1, <3>4 DEF Smaller
    <3>. QED
      BY <1>3, <2>2, <3>1, <3>4, <3>5, NewsShown DEF NewsEnter, NewsInv
  <2>. QED
    BY <1>3, <2>1, <2>2 DEF NewsEnter
<1>4. CASE MenuPaging \/ MenuService \/ MenuInvalid \/ MenuHelp \/ HelpPaging \/ HelpEnd \/ BackToMenu \/ Logoff
  BY <1>0, <1>4 DEF MenuPaging, MenuService, MenuInvalid, MenuHelp, HelpPaging, HelpEnd, BackToMenu, Logoff, On,
                    EnterMenu, AtLogin
<1>5. CASE OpenFlow \/ BackToOptions
  BY <1>0, <1>5 DEF OpenFlow, BackToOptions, OpenScreen
<1>6. CASE OpenPicture
  <2>1. PICK kind \in {"list", "snapshot", "editor", "detail", "form", "compact"} :
               \E x : OpenScreen([kind |-> kind, n |-> x])
    BY <1>6 DEF OpenPicture, Open
  <2>2. PICK x : OpenScreen([kind |-> kind, n |-> x])
    BY <2>1
  <2>. QED
    BY <1>0, <2>2 DEF OpenScreen
<1>7. CASE Regrant
  BY <1>7 DEF Regrant, NewsInv, On, NewsLinesPerPage, viewer
<1>. QED
  BY <1>1, <1>2, <1>3, <1>4, <1>5, <1>6, <1>7 DEF MenuNext

(* Nobody reaches the menu without having had every line of the MOTD on    *)
(* the terminal, whatever its length and the terminal's size.              *)
THEOREM NewsSeen == MenuSpec => NewsRead
<1>1. MenuSpec => []NewsInv
  BY NewsStarts, NewsStep, PTL DEF MenuSpec
<1>2. ASSUME NewsInv, MenuNext, On("news"), screen'.kind = "menu" PROVE read = DOMAIN text
  <2>1. NewsEnter
    BY <1>2 DEF MenuNext, On, SignOn, MenuPaging, MenuService, MenuInvalid, MenuHelp, HelpPaging, HelpEnd, OpenFlow,
                OpenPicture, BackToOptions, BackToMenu, Logoff, AtLogin, Regrant
  <2>2. docPage + 1 >= NewsPages
    BY <1>2, <2>1 DEF NewsEnter, ShowNews
  <2>. DEFINE per == NewsLinesPerPage(term)
              n == Len(text)
  <2>3. /\ per \in Nat /\ per >= 22 /\ n \in Nat /\ DOMAIN text = 1 .. n /\ docPage \in Nat
        /\ read = 1 .. Smaller(docPage * per + per, n)
    BY <1>2, TermRows DEF NewsInv, NewsLinesPerPage
  <2>4. ~(docPage + 1 < (n + per - 1) \div per)
    BY <2>2, <2>3 DEF NewsPages
  <2>5. n = 0 \/ ~((docPage + 1) * per < n)
    BY <2>3, <2>4, FurtherPage
  <2>6. (docPage + 1) * per = docPage * per + per /\ docPage * per \in Nat
    BY <2>3
  <2>. HIDE DEF per, n
  <2>7. Smaller(docPage * per + per, n) = n
    BY <2>3, <2>5, <2>6 DEF Smaller
  <2>. QED
    BY <2>3, <2>7
<1>3. NewsInv /\ [MenuNext]_menuVars => [On("news") /\ screen'.kind = "menu" => read = DOMAIN text]_menuVars
  BY <1>2
<1>. QED
  BY <1>1, <1>3, PTL DEF MenuSpec, NewsRead

-----------------------------------------------------------------------------
(* The service menu *)

LEMMA CapacityOfMenu ==
  ASSUME NEW t \in Terminals, NEW admin
  PROVE  MenuCapacity(t, admin) \in Nat \ {0}
<1>1. Rows(t) \in Nat /\ Rows(t) >= 24
  BY TermRows
<1>. QED
  BY <1>1 DEF MenuCapacity, BodyBottomRow, BodyTopRow

LEMMA GrantedServices ==
  ASSUME grants \in [Groups -> Catalogues], NEW G
  PROVE  IsFiniteSet(Granted(G)) /\ Granted(G) \subseteq Nat \ {0}
<1>. DEFINE gs == G \cap Groups
            sets == {grants[g] : g \in gs}
<1>1. IsFiniteSet(gs)
  BY FS_Subset, MenuAssumption
<1>2. IsFiniteSet(sets)
  <2>. DEFINE f == [g \in gs |-> grants[g]]
  <2>1. f \in Surjection(gs, sets)
    BY DEF Surjection
  <2>. QED
    BY <1>1, <2>1, FS_Surjection
<1>3. \A c \in sets : IsFiniteSet(c) /\ c \subseteq Nat \ {0}
  BY MenuAssumption
<1>4. IsFiniteSet(UNION sets)
  BY <1>2, <1>3, FS_UNION
<1>5. UNION sets \subseteq Nat \ {0}
  BY <1>3
<1>. QED
  BY <1>4, <1>5 DEF Granted

(* The list of the menu is what the groups had, in order, and stays so     *)
(* while help is read or a service is used.                                *)
PickInv ==
  /\ term \in Terminals /\ grants \in [Groups -> Catalogues]
  /\ screen.kind \in {"menu", "help", "bridge"} =>
       /\ IsFiniteSet(granted) /\ granted \subseteq Nat \ {0}
       /\ list = Ascending(granted)
       /\ HasRows(menuPage, MenuCapacity(term, isAdmin), Len(list))
  /\ On("bridge") => typed \in 1 .. Len(list) /\ target = list[typed]

LEMMA ListOfMenu ==
  ASSUME NEW S, IsFiniteSet(S), S \subseteq Nat \ {0}
  PROVE  Ascending(S) \in Seq(S) /\ Len(Ascending(S)) = Cardinality(S) /\ Cardinality(S) \in Nat
<1>1. Ascending(S) \in [1 .. Cardinality(S) -> S]
  BY Ascends
<1>2. Cardinality(S) \in Nat
  BY FS_CardinalityType
<1>. QED
  BY <1>1, <1>2

LEMMA PickStarts == MenuInit => PickInv
BY DEF MenuInit, PickInv, On, AtLogin

LEMMA MenuEntered ==
  ASSUME PickInv, EnterMenu, term' \in Terminals, grants' = grants
  PROVE  PickInv'
<1>1. /\ screen'.kind = "menu" /\ menuPage' = 0 /\ list' = Ascending(granted')
      /\ granted' \in {{}, Granted(groups')}
  BY DEF EnterMenu
<1>2. IsFiniteSet(granted') /\ granted' \subseteq Nat \ {0}
  BY <1>1, GrantedServices, FS_EmptySet DEF PickInv
<1>3. HasRows(menuPage', MenuCapacity(term', isAdmin'), Len(list'))
  BY <1>1 DEF HasRows
<1>. QED
  BY <1>1, <1>2, <1>3 DEF PickInv, On

LEMMA PickStep == PickInv /\ [MenuNext]_menuVars => PickInv'
<1>. SUFFICES ASSUME PickInv, [MenuNext]_menuVars PROVE PickInv'
  OBVIOUS
<1>0. term' \in Terminals /\ grants' \in [Groups -> Catalogues]
  <2>1. UNCHANGED term \/ Logoff
    BY DEF MenuNext, menuVars, SignOn, NewsEnter, MenuPaging, MenuService, MenuInvalid, MenuHelp, HelpPaging,
           HelpEnd, OpenFlow, OpenPicture, BackToOptions, BackToMenu, Regrant, OpenScreen, Open, access
  <2>2. UNCHANGED grants \/ Regrant
    BY DEF MenuNext, menuVars, SignOn, NewsEnter, MenuPaging, MenuService, MenuInvalid, MenuHelp, HelpPaging,
           HelpEnd, OpenFlow, OpenPicture, BackToOptions, BackToMenu, Logoff, OpenScreen, Open, access
  <2>. QED
    BY <2>1, <2>2 DEF Logoff, Regrant, PickInv
<1>1. screen'.kind \notin {"menu", "help", "bridge"} => PickInv'
  BY <1>0 DEF PickInv, On
<1>2. ASSUME UNCHANGED <<term, groups, screen, menu>> PROVE PickInv'
  BY <1>0, <1>2 DEF PickInv, On, menu, isAdmin
<1>3. CASE UNCHANGED menuVars
  BY <1>2, <1>3 DEF menuVars, menu
<1>4. CASE SignOn \/ NewsEnter
  <2>1. CASE Arrive
    BY <1>0, <1>4, <2>1, MenuEntered DEF SignOn, NewsEnter, Arrive
  <2>2. CASE ~Arrive
    BY <1>1, <1>4, <2>2 DEF SignOn, NewsEnter, ShowNews
  <2>. QED
    BY <2>1, <2>2
<1>5. CASE MenuPaging
  <2>1. PICK p \in {menuPage - 1, menuPage + 1} : menuPage' = MenuBounds(p).page
    BY <1>5 DEF MenuPaging
  <2>2. list \in Seq(granted) /\ p \in Int /\ On("menu")
    BY <1>5, ListOfMenu DEF MenuPaging, PickInv, On, HasRows
  <2>3. HasRows(menuPage', MenuCapacity(term, isAdmin), Len(list))
    <3>1. MenuCapacity(term, isAdmin) \in Nat \ {0} /\ Len(list) \in Nat
      BY <2>2, CapacityOfMenu DEF PickInv
    <3>2. HasRows(PageBounds(MenuCapacity(term, isAdmin), Len(list), p).page, MenuCapacity(term, isAdmin), Len(list))
      BY <2>2, <3>1, BoundsShown
    <3>. QED
      BY <2>1, <3>2 DEF MenuBounds
  <2>. QED
    BY <1>0, <1>5, <2>2, <2>3 DEF MenuPaging, PickInv, On, access, isAdmin
<1>6. CASE MenuService
  <2>1. PICK n \in 1 .. Len(list) : typed' = n /\ target' = list[n]
    BY <1>6 DEF MenuService, Mapping
  <2>. QED
    BY <1>0, <1>6, <2>1 DEF MenuService, PickInv, On, access, isAdmin
<1>7. CASE MenuInvalid
  BY <1>0, <1>2, <1>7, MenuEntered DEF MenuInvalid, access
<1>8. CASE MenuHelp \/ HelpPaging \/ HelpEnd
  BY <1>0, <1>8 DEF MenuHelp, HelpPaging, HelpEnd, PickInv, On, access, menu, isAdmin
<1>9. CASE OpenFlow \/ BackToOptions
  BY <1>1, <1>9 DEF OpenFlow, BackToOptions, OpenScreen
<1>10. CASE OpenPicture
  <2>1. PICK kind \in {"list", "snapshot", "editor", "detail", "form", "compact"} :
               \E x : OpenScreen([kind |-> kind, n |-> x])
    BY <1>10 DEF OpenPicture, Open
  <2>2. PICK x : OpenScreen([kind |-> kind, n |-> x])
    BY <2>1
  <2>. QED
    BY <1>1, <2>2 DEF OpenScreen
<1>11. CASE BackToMenu
  BY <1>0, <1>11, MenuEntered DEF BackToMenu, access
<1>12. CASE Logoff
  BY <1>1, <1>12 DEF Logoff, AtLogin
<1>13. CASE Regrant
  BY <1>2, <1>13 DEF Regrant, menu
<1>. QED
  BY <1>3, <1>4, <1>5, <1>6, <1>7, <1>8, <1>9, <1>10, <1>11, <1>12, <1>13 DEF MenuNext

(* Page p numbers the services of the list from where it starts.           *)
LEMMA NumbersShown ==
  ASSUME NEW p, HasRows(p, MenuCapacity(term, isAdmin), Len(list)), term \in Terminals, Len(list) \in Nat
  PROVE  NumbersOn(p) = p * MenuCapacity(term, isAdmin) + 1
                        .. Smaller(p * MenuCapacity(term, isAdmin) + MenuCapacity(term, isAdmin), Len(list))
<1>. DEFINE b == PageBounds(MenuCapacity(term, isAdmin), Len(list), p)
            settings == IF b.page = 0 /\ ~locked THEN 1 ELSE 0
            row == BodyTopRow + settings
            n == b.end - b.start
            services == Block(row, 1, "service", b.start + 1, n)
            picture == MenuScreen(term, Len(list), isAdmin, locked, p)
<1>1. MenuCapacity(term, isAdmin) \in Nat \ {0} /\ p \in Nat
  BY CapacityOfMenu DEF HasRows
<1>2. /\ b.start = p * MenuCapacity(term, isAdmin)
      /\ b.end = Smaller(p * MenuCapacity(term, isAdmin) + MenuCapacity(term, isAdmin), Len(list))
  BY <1>1, BoundsKept
<1>3. b.start \in Nat /\ b.end \in Nat
  BY <1>1, <1>2 DEF Smaller
<1>. DEFINE others == Title \cup {Line(0, 2, "items", 0)} \cup CommandLine \cup Message \cup KeyLine(term)
                      \cup Block(BodyTopRow, 1, "settings", 0, settings)
                      \cup Block(row + b.end - b.start, 1, "none", 0, IF Len(list) = 0 THEN 1 ELSE 0)
                      \cup Block(row + b.end - b.start + 1, 1, "admin", 0, IF isAdmin THEN 1 ELSE 0)
                      \cup Block(BodyTopRow, 2, "status", 1, 6)
<1>4. picture = others \cup services
  BY DEF MenuScreen
<1>5. \A l \in others : l.what # "service"
  BY DEF Title, CommandLine, Message, KeyLine, Block, Line
<1>6. \A l \in services : l.what = "service"
  BY DEF Block, Line
<1>. HIDE DEF others, services, picture
<1>7. {m \in picture : m.what = "service"} = services
  BY <1>4, <1>5, <1>6
<1>8. {l.no : l \in services} = {b.start + i : i \in 1 .. n}
  <2>. DEFINE L(i) == Line(row + i - 1, 1, "service", b.start + 1 + i - 1)
  <2>1. services = {L(i) : i \in 1 .. n}
    BY DEF services, Block
  <2>2. \A i \in 1 .. n : L(i).no = b.start + i
    <3>1. \A i \in 1 .. n : L(i).no = b.start + 1 + i - 1
      BY DEF Line
    <3>. HIDE DEF b, L
    <3>. QED
      BY <1>3, <3>1
  <2>. HIDE DEF L, b, n
  <2>. QED
    BY <2>1, <2>2
<1>9. {b.start + i : i \in 1 .. n} = b.start + 1 .. b.end
  <2>. HIDE DEF b
  <2>1. ASSUME NEW k \in b.start + 1 .. b.end PROVE k \in {b.start + i : i \in 1 .. n}
    <3>1. k - b.start \in 1 .. n /\ k = b.start + (k - b.start)
      BY <1>3
    <3>. QED
      BY <3>1
  <2>2. \A i \in 1 .. n : b.start + i \in b.start + 1 .. b.end
    BY <1>3
  <2>. QED
    BY <2>1, <2>2
<1>10. NumbersOn(p) = {l.no : l \in services}
  BY <1>7 DEF NumbersOn, picture
<1>. QED
  BY <1>2, <1>8, <1>9, <1>10

LEMMA Ends ==
  ASSUME NEW a \in Nat, NEW b \in Nat, a <= b
  PROVE  Min(a .. b) = a /\ Max(a .. b) = b
<1>1. a \in a .. b /\ \A y \in a .. b : a <= y
  OBVIOUS
<1>2. b \in a .. b /\ \A y \in a .. b : y <= b
  OBVIOUS
<1>3. \A x \in a .. b : (\A y \in a .. b : x <= y) => x = a
  BY <1>1
<1>4. \A x \in a .. b : (\A y \in a .. b : x >= y) => x = b
  BY <1>2
<1>5. \A y \in a .. b : b >= y
  OBVIOUS
<1>6. Min(a .. b) = a
  BY <1>1, <1>3, Zenon DEF Min
<1>7. Max(a .. b) = b
  BY <1>2, <1>4, <1>5, Zenon DEF Max
<1>. QED
  BY <1>6, <1>7

(* A service that is bridged stands beside its number on some page.        *)
LEMMA PickedShown ==
  ASSUME PickInv, On("bridge")
  PROVE  /\ target \in granted
         /\ Cardinality({v \in granted : v < target}) = typed - 1
         /\ \E p \in 0 .. Len(list) : typed \in NumbersOn(p)
<1>. DEFINE N == Cardinality(granted)
            size == MenuCapacity(term, isAdmin)
            upTo == {v \in granted : v <= target}
<1>1. /\ IsFiniteSet(granted) /\ granted \subseteq Nat \ {0} /\ list = Ascending(granted)
      /\ typed \in 1 .. Len(list) /\ target = list[typed] /\ term \in Terminals
  BY DEF PickInv, On
<1>2. Len(list) = N /\ N \in Nat
  BY <1>1, ListOfMenu
<1>3. Ascending(granted)[typed] \in granted /\ Cardinality({v \in granted : v <= Ascending(granted)[typed]}) = typed
  BY <1>1, <1>2, Ascends
<1>4. target \in granted /\ Cardinality(upTo) = typed
  BY <1>1, <1>3
<1>5. Cardinality({v \in granted : v < target}) = typed - 1
  <2>1. IsFiniteSet(upTo)
    BY <1>1, FS_Subset
  <2>2. target \in Nat /\ granted \subseteq Nat /\ target \in granted
    BY <1>1, <1>4
  <2>3. \A v \in granted : v < target <=> v <= target /\ v # target
    BY <2>2
  <2>4. {v \in granted : v < target} = upTo \ {target} /\ target \in upTo
    <3>1. {v \in granted : v < target} = {v \in granted : v <= target /\ v # target}
      BY <2>3
    <3>2. target \in upTo
      BY <2>2
    <3>. QED
      BY <3>1, <3>2
  <2>. HIDE DEF upTo
  <2>. QED
    BY <1>4, <2>1, <2>4, FS_RemoveElement
<1>. DEFINE p == (typed - 1) \div size
<1>6. size \in Nat \ {0} /\ typed - 1 \in Nat
  BY <1>1, <1>2, CapacityOfMenu
<1>. HIDE DEF size
<1>7. p \in Nat /\ p * size \in Nat /\ p * size <= typed - 1 /\ typed - 1 < p * size + size
  BY <1>6
<1>8. p <= typed - 1
  BY <1>6
<1>. HIDE DEF p
<1>9. HasRows(p, size, Len(list)) /\ p \in 0 .. Len(list)
  BY <1>1, <1>2, <1>6, <1>7, <1>8 DEF HasRows
<1>10. NumbersOn(p) = p * size + 1 .. Smaller(p * size + size, Len(list))
  BY <1>1, <1>2, <1>9, NumbersShown DEF size
<1>11. typed \in NumbersOn(p)
  BY <1>1, <1>2, <1>6, <1>7, <1>10 DEF Smaller
<1>. QED
  BY <1>4, <1>5, <1>9, <1>11

(* PF8 goes on with the number after the last one on the page.             *)
LEMMA NextPageFollows ==
  ASSUME PickInv, On("menu"), list # <<>>
  PROVE  LET next == MenuBounds(menuPage + 1).page
         IN IF next = menuPage THEN Len(list) \in NumbersOn(menuPage)
            ELSE Min(NumbersOn(next)) = Max(NumbersOn(menuPage)) + 1
<1>. DEFINE n == Len(list)
            size == MenuCapacity(term, isAdmin)
            next == MenuBounds(menuPage + 1).page
            start == menuPage * size
<1>1. /\ list \in Seq(granted) /\ term \in Terminals /\ HasRows(menuPage, size, n)
  BY ListOfMenu DEF PickInv, On
<1>2. n \in Nat \ {0}
  BY <1>1
<1>3. size \in Nat \ {0} /\ menuPage \in Nat
  BY <1>1, CapacityOfMenu DEF HasRows
<1>4. NumbersOn(menuPage) = start + 1 .. Smaller(start + size, n)
  BY <1>1, <1>2, NumbersShown
<1>. HIDE DEF n
<1>5. start \in Nat /\ start < n
  <2>1. menuPage = 0 => start = 0
    BY <1>3
  <2>. QED
    BY <1>1, <1>2, <1>3, <2>1 DEF HasRows
<1>. HIDE DEF size
<1>6. (menuPage + 1) * size = start + size
  BY <1>3
<1>7. CASE start + size < n
  <2>1. HasRows(menuPage + 1, size, n)
    BY <1>3, <1>6, <1>7 DEF HasRows
  <2>2. next = menuPage + 1
    BY <1>2, <1>3, <2>1, BoundsKept DEF MenuBounds, n, size
  <2>3. NumbersOn(menuPage + 1) = (menuPage + 1) * size + 1 .. Smaller((menuPage + 1) * size + size, n)
    BY <1>1, <1>2, <2>1, NumbersShown DEF n, size
  <2>. DEFINE last == Smaller(start + size + size, n)
  <2>. HIDE DEF start
  <2>4. start + size + 1 \in Nat /\ last \in Nat /\ start + size + 1 <= last
    BY <1>2, <1>3, <1>5, <1>7 DEF Smaller
  <2>5. Min(start + size + 1 .. last) = start + size + 1
    BY <2>4, Ends
  <2>6. Smaller(start + size, n) = start + size /\ start + size \in Nat /\ start + 1 \in Nat /\ start + 1 <= start + size
    BY <1>2, <1>3, <1>5, <1>7 DEF Smaller
  <2>7. Max(start + 1 .. start + size) = start + size
    BY <2>6, Ends
  <2>8. NumbersOn(next) = start + size + 1 .. last /\ NumbersOn(menuPage) = start + 1 .. start + size
    BY <1>4, <1>6, <2>2, <2>3, <2>6
  <2>9. next # menuPage
    BY <1>3, <2>2
  <2>. HIDE DEF next, last
  <2>. QED
    BY <2>5, <2>7, <2>8, <2>9 DEF next
<1>8. CASE ~(start + size < n)
  <2>1. next \in Nat /\ next <= menuPage
    <3>1. HasRows(next, size, n)
      <4>1. HasRows(PageBounds(size, n, menuPage + 1).page, size, n)
        <5>. HIDE DEF start, next
        <5>1. menuPage + 1 \in Int /\ n \in Nat
          BY <1>2, <1>3
        <5>. QED
          BY <1>3, <5>1, BoundsShown
      <4>. QED
        BY <4>1 DEF MenuBounds, n, size
    <3>. HIDE DEF next
    <3>2. next >= menuPage + 1 => next * size >= (menuPage + 1) * size
      BY <1>3, <3>1 DEF HasRows
    <3>3. next \in Nat /\ next * size \in Nat
      BY <1>3, <3>1 DEF HasRows
    <3>. HIDE DEF start
    <3>. QED
      BY <1>2, <1>3, <1>5, <1>6, <1>8, <3>1, <3>2, <3>3 DEF HasRows
  <2>2. next = menuPage
    <3>. DEFINE maxPage == (n - 1) \div size
    <3>1. next = IF menuPage + 1 < maxPage THEN menuPage + 1 ELSE maxPage
      BY <1>2, <1>3 DEF MenuBounds, PageBounds, Smaller, n, size
    <3>2. menuPage <= maxPage /\ maxPage \in Int
      BY <1>2, <1>3, <1>5, PageStarts
    <3>. HIDE DEF maxPage, next
    <3>. QED
      BY <1>3, <2>1, <3>1, <3>2
  <2>3. n \in NumbersOn(menuPage)
    <3>. HIDE DEF start
    <3>. QED
      BY <1>2, <1>3, <1>4, <1>5, <1>8 DEF Smaller
  <2>. HIDE DEF next
  <2>. QED
    BY <2>2, <2>3 DEF next, n
<1>. QED
  BY <1>3, <1>5, <1>7, <1>8

(* Whatever is typed on whatever page, the bridge goes to the service      *)
(* beside that number, one that a group of the user had, and the pages     *)
(* show every service once: for any catalogue and any terminal.            *)
THEOREM Picks == MenuSpec => []PickExact
<1>1. MenuSpec => []PickInv
  BY PickStarts, PickStep, PTL DEF MenuSpec
<1>2. PickInv => PickExact
  BY PickedShown, NextPageFollows DEF PickExact
<1>. QED
  BY <1>1, <1>2, PTL

-----------------------------------------------------------------------------
(* Where lines go *)

(* The lines of a screen are on it, each in a place of its own.            *)
Fits(S, h) ==
  /\ \A l \in S : l.row \in 0 .. h - 1
  /\ \A l, m \in S : l.row = m.row /\ l.col = m.col => l = m

LEMMA InBlock ==
  ASSUME NEW row \in Int, NEW col, NEW what, NEW first \in Int, NEW n \in Int,
         NEW l \in Block(row, col, what, first, n)
  PROVE  l.row \in row .. row + n - 1 /\ l = Line(l.row, col, what, l.row - row + first)
<1>1. PICK i \in 1 .. n : l = Line(row + i - 1, col, what, first + i - 1)
  BY DEF Block
<1>2. l.row = row + i - 1
  BY <1>1 DEF Line
<1>3. first + i - 1 = l.row - row + first /\ l.row \in row .. row + n - 1
  BY <1>2
<1>. QED
  BY <1>1, <1>2, <1>3

(* Two screens that share no place, on one terminal                        *)
LEMMA Together ==
  ASSUME NEW S, NEW T, NEW h, Fits(S, h), Fits(T, h),
         \A l \in S, m \in T : l.row # m.row \/ l.col # m.col
  PROVE  Fits(S \cup T, h)
BY DEF Fits

LEMMA OneLine ==
  ASSUME NEW h \in Nat, NEW row \in 0 .. h - 1, NEW col, NEW what, NEW no
  PROVE  Fits({Line(row, col, what, no)}, h)
BY DEF Fits, Line

LEMMA OneBlock ==
  ASSUME NEW h \in Nat, NEW row \in Nat, NEW col, NEW what, NEW first \in Int, NEW n \in Int, row + n <= h
  PROVE  Fits(Block(row, col, what, first, n), h)
<1>1. \A l \in Block(row, col, what, first, n) :
        l.row \in row .. row + n - 1 /\ l = Line(l.row, col, what, l.row - row + first)
  BY InBlock
<1>2. \A l \in Block(row, col, what, first, n) : l.row \in 0 .. h - 1
  BY <1>1
<1>3. \A l, m \in Block(row, col, what, first, n) : l.row = m.row => l = m
  BY <1>1
<1>. QED
  BY <1>2, <1>3 DEF Fits

(* A page has at most as many rows as there is room for.                   *)
LEMMA PageRows ==
  ASSUME NEW size \in Nat \ {0}, NEW p \in Int, NEW total \in Nat
  PROVE  LET b == PageBounds(size, total, p)
         IN /\ b.start \in Nat /\ b.end \in Nat /\ b.end - b.start \in 0 .. size
            /\ total = 0 => b.end = b.start
<1>. DEFINE b == PageBounds(size, total, p)
            q == b.page
<1>1. HasRows(q, size, total)
  BY BoundsShown
<1>2. b.start = q * size /\ b.end = Smaller(q * size + size, total)
  BY DEF PageBounds
<1>. HIDE DEF b, q
<1>3. q \in Nat /\ q * size \in Nat /\ q * size <= total
  <2>1. q = 0 => q * size = 0
    OBVIOUS
  <2>. QED
    BY <1>1, <2>1 DEF HasRows
<1>4. b.start \in Nat /\ b.end \in Nat /\ b.end - b.start \in 0 .. size /\ (total = 0 => b.end = b.start)
  BY <1>2, <1>3 DEF Smaller
<1>. QED
  BY <1>4 DEF b

LEMMA MenuFits ==
  ASSUME NEW t \in Terminals, NEW n \in Nat, NEW admin \in BOOLEAN, NEW lock, NEW page_ \in Int
  PROVE  Fits(MenuScreen(t, n, admin, lock, page_), Rows(t))
<1>. DEFINE r == Rows(t)
            b == PageBounds(MenuCapacity(t, admin), n, page_)
            settings == IF b.page = 0 /\ ~lock THEN 1 ELSE 0
            row == BodyTopRow + settings
            k == b.end - b.start
            next == row + b.end - b.start
            S == MenuScreen(t, n, admin, lock, page_)
            none == IF n = 0 THEN 1 ELSE 0
            entry == IF admin THEN 1 ELSE 0
            place(a, c) ==
              IF c = 2 THEN IF a = 0 THEN Line(0, 2, "items", 0) ELSE Line(a, 2, "status", a - 3 + 1)
              ELSE IF a = 0 THEN Line(0, 1, "title", 0)
              ELSE IF a = 1 THEN Line(1, 1, "command", 0)
              ELSE IF a = 2 THEN Line(2, 1, "message", 0)
              ELSE IF a = r - 1 THEN Line(r - 1, 1, "keys", 0)
              ELSE IF a < row THEN Line(a, 1, "settings", a - 3 + 0)
              ELSE IF a < next THEN Line(a, 1, "service", a - row + (b.start + 1))
              ELSE IF a = next THEN Line(a, 1, "none", a - next + 0)
              ELSE Line(a, 1, "admin", a - (next + 1) + 0)
            ok(l) == l.row \in 0 .. r - 1 /\ l = place(l.row, l.col)
<1>1. r \in Nat /\ r >= 24
  BY TermRows
<1>2. MenuCapacity(t, admin) = r - 6 - entry
  BY <1>1 DEF MenuCapacity, BodyBottomRow, BodyTopRow
<1>3. b.start \in Nat /\ b.end \in Nat /\ k \in 0 .. r - 6 - entry /\ (n = 0 => k = 0)
  <2>1. MenuCapacity(t, admin) \in Nat \ {0}
    BY CapacityOfMenu
  <2>2. /\ b.start \in Nat /\ b.end \in Nat /\ b.end - b.start \in 0 .. MenuCapacity(t, admin)
        /\ n = 0 => b.end = b.start
    BY <2>1, PageRows
  <2>. HIDE DEF b, r, entry
  <2>. QED
    BY <1>2, <2>2
<1>. HIDE DEF b, r
<1>4. /\ settings \in 0 .. 1 /\ row = 3 + settings /\ next = row + k /\ row \in Int /\ next \in Int
      /\ none \in 0 .. 1 /\ entry \in 0 .. 1 /\ b.start + 1 \in Int
      /\ next + 1 + entry <= r - 1 /\ (none = 1 => k = 0)
  BY <1>1, <1>3 DEF BodyTopRow
<1>5. S = Title \cup {Line(0, 2, "items", 0)} \cup CommandLine \cup Message \cup KeyLine(t)
          \cup Block(3, 1, "settings", 0, settings)
          \cup Block(row, 1, "service", b.start + 1, k)
          \cup Block(next, 1, "none", 0, none)
          \cup Block(next + 1, 1, "admin", 0, entry)
          \cup Block(3, 2, "status", 1, 6)
  BY DEF MenuScreen, BodyTopRow, b
<1>. HIDE DEF settings, row, k, next, S, none, entry
<1>6. ASSUME NEW l \in Title \cup {Line(0, 2, "items", 0)} \cup CommandLine \cup Message \cup KeyLine(t)
      PROVE  ok(l)
  BY <1>1, <1>6 DEF Title, CommandLine, Message, KeyLine, Line, HelpRow, MessageRow, r
<1>7. ASSUME NEW l \in Block(3, 1, "settings", 0, settings) PROVE ok(l)
  <2>1. l.row \in 3 .. 3 + settings - 1 /\ l = Line(l.row, 1, "settings", l.row - 3 + 0)
    BY <1>4, InBlock
  <2>. QED
    BY <1>1, <1>4, <2>1 DEF Line
<1>8. ASSUME NEW l \in Block(row, 1, "service", b.start + 1, k) PROVE ok(l)
  <2>1. l.row \in row .. row + k - 1 /\ l = Line(l.row, 1, "service", l.row - row + (b.start + 1))
    BY <1>3, <1>4, InBlock
  <2>. QED
    BY <1>1, <1>3, <1>4, <2>1 DEF Line
<1>9. ASSUME NEW l \in Block(next, 1, "none", 0, none) PROVE ok(l)
  <2>1. l.row \in next .. next + none - 1 /\ l = Line(l.row, 1, "none", l.row - next + 0)
    BY <1>4, InBlock
  <2>2. l.row = next /\ next = row /\ l.col = 1
    BY <1>3, <1>4, <2>1 DEF Line, k
  <2>3. next \notin {0, 1, 2, r - 1} /\ next \in 0 .. r - 1 /\ ~(next < row) /\ ~(next < next)
    BY <1>1, <1>3, <1>4, <2>2
  <2>. QED
    BY <2>1, <2>2, <2>3
<1>10. ASSUME NEW l \in Block(next + 1, 1, "admin", 0, entry) PROVE ok(l)
  <2>1. l.row \in next + 1 .. next + 1 + entry - 1 /\ l = Line(l.row, 1, "admin", l.row - (next + 1) + 0)
    BY <1>4, InBlock
  <2>. QED
    BY <1>1, <1>3, <1>4, <2>1 DEF Line
<1>11. ASSUME NEW l \in Block(3, 2, "status", 1, 6) PROVE ok(l)
  <2>1. l.row \in 3 .. 3 + 6 - 1 /\ l = Line(l.row, 2, "status", l.row - 3 + 1)
    BY InBlock
  <2>. QED
    BY <1>1, <2>1 DEF Line
<1>. HIDE DEF place
<1>12. \A l \in S : ok(l)
  BY <1>5, <1>6, <1>7, <1>8, <1>9, <1>10, <1>11
<1>. QED
  BY <1>12 DEF Fits, S, r

LEMMA NewsFits ==
  ASSUME NEW t \in Terminals, NEW first \in Int, NEW n \in 0 .. NewsLinesPerPage(t)
  PROVE  Fits(NewsScreen(first, n), Rows(t))
<1>1. Rows(t) \in Nat /\ Rows(t) >= 24 /\ n \in 0 .. Rows(t) - 2
  BY TermRows DEF NewsLinesPerPage
<1>2. Fits(Block(0, 1, "text", first, n), Rows(t))
  BY <1>1, OneBlock
<1>3. Fits({Line(n + 1, 1, "gate", 0)}, Rows(t))
  BY <1>1, OneLine
<1>4. ASSUME NEW l \in Block(0, 1, "text", first, n) PROVE l.row # n + 1
  BY <1>1, InBlock
<1>5. \A l \in Block(0, 1, "text", first, n), m \in {Line(n + 1, 1, "gate", 0)} : l.row # m.row \/ l.col # m.col
  BY <1>4 DEF Line
<1>. QED
  BY <1>2, <1>3, <1>5, Together DEF NewsScreen

LEMMA HelpFits ==
  ASSUME NEW t \in Terminals, NEW n \in Nat, NEW page_ \in Int
  PROVE  Fits(HelpScreen(t, n, page_), Rows(t))
<1>. DEFINE r == Rows(t)
            b == PageBounds(HelpPageSize(t), n, page_)
            k == b.end - b.start
            S == HelpScreen(t, n, page_)
            place(a, c) ==
              IF c = 2 THEN Line(0, 2, "page", 0)
              ELSE IF a = 0 THEN Line(0, 1, "title", 0)
              ELSE IF a = r - 1 THEN Line(r - 1, 1, "keys", 0)
              ELSE Line(a, 1, "text", a - 3 + (b.start + 1))
            ok(l) == l.row \in 0 .. r - 1 /\ l = place(l.row, l.col)
<1>1. r \in Nat /\ r >= 24
  BY TermRows
<1>2. HelpPageSize(t) = r - 4
  BY <1>1 DEF HelpPageSize, BodyBottomRow, BodyTopRow
<1>3. b.start \in Nat /\ k \in 0 .. r - 4
  <2>1. HelpPageSize(t) \in Nat \ {0}
    BY <1>1, <1>2
  <2>2. b.start \in Nat /\ b.end - b.start \in 0 .. HelpPageSize(t)
    BY <2>1, PageRows
  <2>. HIDE DEF b, r
  <2>. QED
    BY <1>2, <2>2
<1>. HIDE DEF b, r
<1>4. S = Title \cup {Line(0, 2, "page", 0)} \cup KeyLine(t) \cup Block(3, 1, "text", b.start + 1, k)
  BY DEF HelpScreen, BodyTopRow, b
<1>. HIDE DEF S, k
<1>5. ASSUME NEW l \in Title \cup {Line(0, 2, "page", 0)} \cup KeyLine(t) PROVE ok(l)
  BY <1>1, <1>5 DEF Title, KeyLine, Line, HelpRow, r
<1>6. ASSUME NEW l \in Block(3, 1, "text", b.start + 1, k) PROVE ok(l)
  <2>1. l.row \in 3 .. 3 + k - 1 /\ l = Line(l.row, 1, "text", l.row - 3 + (b.start + 1))
    BY <1>3, InBlock
  <2>. QED
    BY <1>1, <1>3, <2>1 DEF Line
<1>. HIDE DEF place
<1>7. \A l \in S : ok(l)
  BY <1>4, <1>5, <1>6
<1>. QED
  BY <1>7 DEF Fits, S, r

LEMMA LoginFits ==
  ASSUME NEW t \in Terminals, NEW n \in Nat
  PROVE  Fits(LoginScreen(t, n), Rows(t))
<1>. DEFINE r == Rows(t)
            h == LoginBrandingHeight(t)
            m == Smaller(n, h)
            top == LoginBrandingTop + (h - m) \div 2
            S == LoginScreen(t, n)
            place(a, c) ==
              IF c = 2 THEN IF a = r - 2 THEN Line(r - 2, 2, "password", 0) ELSE Line(a, 2, "status", a - 0 + 1)
              ELSE IF a = 0 THEN Line(0, 1, "title", 0)
              ELSE IF a = 1 THEN Line(1, 1, "message", 0)
              ELSE IF a = r - 1 THEN Line(r - 1, 1, "keys", 0)
              ELSE IF a = r - 2 THEN Line(r - 2, 1, "user", 0)
              ELSE Line(a, 1, "text", a - top + 1)
            ok(l) == l.row \in 0 .. r - 1 /\ l = place(l.row, l.col)
<1>1. r \in Nat /\ r >= 24
  BY TermRows
<1>2. h = r - 6
  BY <1>1 DEF LoginBrandingHeight, LoginBrandingTop, BodyBottomRow
<1>. HIDE DEF h, r
<1>3. m \in Nat /\ m <= r - 6
  BY <1>1, <1>2 DEF Smaller
<1>. HIDE DEF m
<1>4. top \in Nat /\ top >= 4 /\ top + m <= r - 2
  BY <1>1, <1>2, <1>3 DEF LoginBrandingTop
<1>5. S = Title \cup {Line(1, 1, "message", 0)} \cup KeyLine(t) \cup Block(0, 2, "status", 1, 4)
          \cup Block(top, 1, "text", 1, m) \cup {Line(r - 2, 1, "user", 0), Line(r - 2, 2, "password", 0)}
  BY DEF LoginScreen, BodyBottomRow, r, m, h
<1>. HIDE DEF S, top
<1>6. ASSUME NEW l \in Title \cup {Line(1, 1, "message", 0)} \cup KeyLine(t)
                        \cup {Line(r - 2, 1, "user", 0), Line(r - 2, 2, "password", 0)}
      PROVE  ok(l)
  BY <1>1, <1>6 DEF Title, KeyLine, Line, HelpRow, r
<1>7. ASSUME NEW l \in Block(0, 2, "status", 1, 4) PROVE ok(l)
  <2>1. l.row \in 0 .. 0 + 4 - 1 /\ l = Line(l.row, 2, "status", l.row - 0 + 1)
    BY InBlock
  <2>. QED
    BY <1>1, <2>1 DEF Line
<1>8. ASSUME NEW l \in Block(top, 1, "text", 1, m) PROVE ok(l)
  <2>1. l.row \in top .. top + m - 1 /\ l = Line(l.row, 1, "text", l.row - top + 1)
    BY <1>3, <1>4, InBlock
  <2>. QED
    BY <1>1, <1>3, <1>4, <2>1 DEF Line
<1>. HIDE DEF place
<1>9. \A l \in S : ok(l)
  BY <1>5, <1>6, <1>7, <1>8
<1>. QED
  BY <1>9 DEF Fits, S, r

LEMMA OptionsFit ==
  ASSUME NEW t \in Terminals, NEW top \in 3 .. 5, NEW n \in 0 .. 8
  PROVE  /\ Fits(OptionScreen(t, top, n), Rows(t))
         /\ \A l \in OptionScreen(t, top, n) : l.row = 3 => top = 3
<1>. DEFINE r == Rows(t)
            S == OptionScreen(t, top, n)
            place(a) ==
              IF a = 0 THEN Line(0, 1, "title", 0)
              ELSE IF a = 1 THEN Line(1, 1, "command", 0)
              ELSE IF a = 2 THEN Line(2, 1, "message", 0)
              ELSE IF a = r - 1 THEN Line(r - 1, 1, "keys", 0)
              ELSE Line(a, 1, "option", a - top + 1)
            ok(l) == l.row \in 0 .. r - 1 /\ l = place(l.row) /\ (l.row = 3 => top = 3)
<1>1. r \in Nat /\ r >= 24
  BY TermRows
<1>2. S = Title \cup CommandLine \cup Message \cup KeyLine(t) \cup Block(top, 1, "option", 1, n)
  BY DEF OptionScreen
<1>. HIDE DEF S, r
<1>3. ASSUME NEW l \in Title \cup CommandLine \cup Message \cup KeyLine(t) PROVE ok(l)
  BY <1>1, <1>3 DEF Title, CommandLine, Message, KeyLine, Line, HelpRow, MessageRow, r
<1>4. ASSUME NEW l \in Block(top, 1, "option", 1, n) PROVE ok(l)
  <2>1. l.row \in top .. top + n - 1 /\ l = Line(l.row, 1, "option", l.row - top + 1)
    BY InBlock
  <2>. QED
    BY <1>1, <2>1
<1>. HIDE DEF place
<1>5. \A l \in S : ok(l)
  BY <1>2, <1>3, <1>4
<1>. QED
  BY <1>5 DEF Fits, S, r

LEMMA SettingsFit ==
  ASSUME NEW t \in Terminals, NEW n \in 1 .. 3
  PROVE  Fits(UserSettingsScreen(t, n), Rows(t))
<1>1. Rows(t) \in Nat /\ Rows(t) >= 24
  BY TermRows
<1>2. Fits(OptionScreen(t, 5, n), Rows(t)) /\ \A l \in OptionScreen(t, 5, n) : l.row # 3
  BY OptionsFit
<1>3. Fits({Line(3, 1, "user", 0)}, Rows(t))
  BY <1>1, OneLine
<1>4. \A l \in OptionScreen(t, 5, n), m \in {Line(3, 1, "user", 0)} : l.row # m.row \/ l.col # m.col
  BY <1>2 DEF Line
<1>5. UserSettingsScreen(t, n) = OptionScreen(t, 5, n) \cup {Line(3, 1, "user", 0)}
  BY DEF UserSettingsScreen, BodyTopRow
<1>. QED
  BY <1>2, <1>3, <1>4, <1>5, Together

(* A panel has rows 1 and 5 to itself below its last row of data.          *)
LEMMA PanelFits ==
  ASSUME NEW t \in Terminals, NEW n \in 0 .. ListPageSize(t)
  PROVE  /\ Fits(Panel(t, n), Rows(t))
         /\ \A l \in Panel(t, n) : l.row # 1 /\ l.row \notin 4 + n .. Rows(t) - 5
<1>. DEFINE r == Rows(t)
            S == Panel(t, n)
            place(a, c) ==
              IF c = 2 THEN Line(0, 2, "rows", 0)
              ELSE IF a = 0 THEN Line(0, 1, "title", 0)
              ELSE IF a = 2 THEN Line(2, 1, "message", 0)
              ELSE IF a = r - 1 THEN Line(r - 1, 1, "keys", 0)
              ELSE IF a = 3 THEN Line(3, 1, "heading", 0)
              ELSE IF a = r - 4 THEN Line(r - 4, 1, "legend", 0)
              ELSE Line(a, 1, "row", a - 4 + 1)
            ok(l) == /\ l.row \in 0 .. r - 1 /\ l = place(l.row, l.col)
                     /\ l.row # 1 /\ l.row \notin 4 + n .. r - 5
<1>1. r \in Nat /\ r >= 24 /\ n \in 0 .. r - 10
  BY TermRows DEF ListPageSize
<1>2. S = Title \cup {Line(0, 2, "rows", 0)} \cup Message \cup KeyLine(t)
          \cup {Line(3, 1, "heading", 0), Line(r - 4, 1, "legend", 0)} \cup Block(4, 1, "row", 1, n)
  BY DEF Panel, BodyTopRow, LegendRow
<1>. HIDE DEF S, r
<1>3. ASSUME NEW l \in Title \cup {Line(0, 2, "rows", 0)} \cup Message \cup KeyLine(t)
                        \cup {Line(3, 1, "heading", 0), Line(r - 4, 1, "legend", 0)}
      PROVE  ok(l)
  BY <1>1, <1>3 DEF Title, Message, KeyLine, Line, HelpRow, MessageRow, r
<1>4. ASSUME NEW l \in Block(4, 1, "row", 1, n) PROVE ok(l)
  <2>1. l.row \in 4 .. 4 + n - 1 /\ l = Line(l.row, 1, "row", l.row - 4 + 1)
    BY <1>1, InBlock
  <2>. QED
    BY <1>1, <2>1 DEF Line
<1>. HIDE DEF place
<1>5. \A l \in S : ok(l)
  BY <1>2, <1>3, <1>4
<1>. QED
  BY <1>5 DEF Fits, S, r

LEMMA PanelsFit ==
  ASSUME NEW t \in Terminals, NEW n \in Nat
  PROVE  /\ Fits(buildListScreen(t, n), Rows(t))
         /\ Fits(buildSnapshotScreen(t, n), Rows(t))
         /\ Fits(buildEditorScreen(t, n), Rows(t))
<1>. DEFINE r == Rows(t)
            m == Smaller(n, ListPageSize(t))
            none == IF m = 0 THEN 1 ELSE 0
            stop == IF m = 0 THEN 5 ELSE 4 + m
<1>1. r \in Nat /\ r >= 24 /\ ListPageSize(t) = r - 10
  BY TermRows DEF ListPageSize
<1>2. m \in 0 .. r - 10 /\ m \in 0 .. ListPageSize(t)
  BY <1>1 DEF Smaller
<1>3. Fits(Panel(t, m), r) /\ \A l \in Panel(t, m) : l.row # 1 /\ l.row \notin 4 + m .. r - 5
  <2>. HIDE DEF m
  <2>. QED
    BY <1>2, PanelFits
<1>. HIDE DEF m, r
<1>4. Fits(NoRows(m), r) /\ \A l \in NoRows(m) : l.row = 4 /\ m = 0
  <2>1. NoRows(m) = Block(4, 1, "none", 0, none) /\ none \in 0 .. 1 /\ (none = 1 => m = 0)
    BY DEF NoRows
  <2>. HIDE DEF none
  <2>2. Fits(Block(4, 1, "none", 0, none), r)
    BY <1>1, <2>1, OneBlock
  <2>3. \A l \in Block(4, 1, "none", 0, none) : l.row \in 4 .. 4 + none - 1
    BY <2>1, InBlock
  <2>. QED
    BY <2>1, <2>2, <2>3
<1>5. Fits(Panel(t, m) \cup NoRows(m), r)
  <2>1. \A l \in Panel(t, m), k \in NoRows(m) : l.row # k.row
    BY <1>1, <1>3, <1>4
  <2>. QED
    BY <1>3, <1>4, <2>1, Together
<1>6. Fits(buildListScreen(t, n), r)
  BY <1>5 DEF buildListScreen, m
<1>7. Fits(buildSnapshotScreen(t, n), r)
  <2>1. Fits({Line(1, 1, "asOf", 0)}, r)
    BY <1>1, OneLine
  <2>2. \A l \in Panel(t, m) \cup NoRows(m), k \in {Line(1, 1, "asOf", 0)} : l.row # k.row
    BY <1>3, <1>4 DEF Line
  <2>3. Fits((Panel(t, m) \cup NoRows(m)) \cup {Line(1, 1, "asOf", 0)}, r)
    BY <1>5, <2>1, <2>2, Together
  <2>. QED
    BY <2>3 DEF buildSnapshotScreen, m
<1>8. Fits(buildEditorScreen(t, n), r)
  <2>1. stop \in 4 + m .. r - 5 /\ stop \in 0 .. r - 1
    BY <1>1, <1>2
  <2>. HIDE DEF stop
  <2>2. Fits({Line(stop, 1, "stop", 0)}, r)
    BY <1>1, <2>1, OneLine
  <2>3. \A l \in Panel(t, m), k \in {Line(stop, 1, "stop", 0)} : l.row # k.row
    BY <1>3, <2>1 DEF Line
  <2>4. Fits(Panel(t, m) \cup {Line(stop, 1, "stop", 0)}, r)
    BY <1>3, <2>2, <2>3, Together
  <2>. QED
    BY <2>4 DEF buildEditorScreen, m, stop
<1>. QED
  BY <1>6, <1>7, <1>8 DEF r

LEMMA FormFits ==
  ASSUME NEW t \in Terminals, NEW n \in 0 .. 9
  PROVE  /\ Fits(FormScreen(t, n), Rows(t))
         /\ \A i \in 1 .. n : \E l \in FormScreen(t, n) : l.what = "field" /\ l.no = i
<1>. DEFINE r == Rows(t)
            S == FormScreen(t, n)
            m == Smaller(n, FormMaxFields(t))
            F(i) == Line(3 + 2 * (i - 1), 1, "field", i)
            fields == {F(i) : i \in 1 .. m}
            place(a) ==
              IF a = 0 THEN Line(0, 1, "title", 0)
              ELSE IF a = 2 THEN Line(2, 1, "message", 0)
              ELSE IF a = r - 1 THEN Line(r - 1, 1, "keys", 0)
              ELSE F((a - 1) \div 2)
            ok(l) == l.row \in 0 .. r - 1 /\ l = place(l.row)
<1>1. r \in Nat /\ r >= 24
  BY TermRows
<1>2. m = n
  <2>1. FormMaxFields(t) \in Nat /\ FormMaxFields(t) >= 9
    BY <1>1 DEF FormMaxFields
  <2>. QED
    BY <2>1 DEF Smaller
<1>3. S = Title \cup Message \cup KeyLine(t) \cup fields
  BY DEF FormScreen, BodyTopRow
<1>. HIDE DEF S, r, m
<1>4. ASSUME NEW l \in Title \cup Message \cup KeyLine(t) PROVE ok(l)
  <2>. HIDE DEF F
  <2>. QED
    BY <1>1, <1>4 DEF Title, Message, KeyLine, Line, HelpRow, MessageRow, r
<1>5. ASSUME NEW l \in fields PROVE ok(l)
  <2>1. PICK i \in 1 .. n : l = F(i)
    BY <1>2
  <2>2. l.row = 3 + 2 * (i - 1)
    BY <2>1 DEF Line
  <2>3. (l.row - 1) \div 2 = i /\ l.row >= 3 /\ l.row < r - 1
    BY <1>1, <2>2
  <2>. HIDE DEF F
  <2>. QED
    BY <1>1, <2>1, <2>2, <2>3
<1>6. ASSUME NEW i \in 1 .. n PROVE \E l \in S : l.what = "field" /\ l.no = i
  <2>1. F(i) \in S
    BY <1>2, <1>3
  <2>2. F(i).what = "field" /\ F(i).no = i
    BY DEF Line
  <2>. HIDE DEF F
  <2>. QED
    BY <2>1, <2>2
<1>. HIDE DEF place, fields
<1>7. \A l \in S : ok(l)
  BY <1>3, <1>4, <1>5
<1>. QED
  BY <1>6, <1>7 DEF Fits, S, r

LEMMA DetailFits ==
  ASSUME NEW t \in Terminals, NEW n \in 0 .. 8, NEW label \in BOOLEAN, NEW k \in Nat
  PROVE  Fits(DetailScreen(t, n, label, k), Rows(t))
<1>. DEFINE r == Rows(t)
            S == DetailScreen(t, n, label, k)
            top == 3 + n + 1
            below == top + (IF label THEN 1 ELSE 0)
            m == Smaller(k, HelpRow(t) - below)
            place(a) ==
              IF a = 0 THEN Line(0, 1, "title", 0)
              ELSE IF a = 2 THEN Line(2, 1, "message", 0)
              ELSE IF a = r - 1 THEN Line(r - 1, 1, "keys", 0)
              ELSE IF a < top THEN Line(a, 1, "field", a - 3 + 1)
              ELSE IF a < below THEN Line(a, 1, "label", a - top + 0)
              ELSE Line(a, 1, "text", a - below + 1)
            ok(l) == l.row \in 0 .. r - 1 /\ l = place(l.row)
<1>1. r \in Nat /\ r >= 24 /\ HelpRow(t) = r - 1
  BY TermRows DEF HelpRow
<1>2. top \in 4 .. 12 /\ below \in top .. top + 1 /\ below \in Nat
  OBVIOUS
<1>3. S = Title \cup Message \cup KeyLine(t) \cup Block(3, 1, "field", 1, n)
          \cup Block(top, 1, "label", 0, below - top) \cup Block(below, 1, "text", 1, m)
  BY DEF DetailScreen, BodyTopRow
<1>. HIDE DEF S, r, below
<1>4. m \in Nat /\ m <= r - 1 - below
  BY <1>1, <1>2 DEF Smaller
<1>. HIDE DEF m
<1>5. ASSUME NEW l \in Title \cup Message \cup KeyLine(t) PROVE ok(l)
  BY <1>1, <1>5 DEF Title, Message, KeyLine, Line, HelpRow, MessageRow, r
<1>6. ASSUME NEW l \in Block(3, 1, "field", 1, n) PROVE ok(l)
  <2>1. l.row \in 3 .. 3 + n - 1 /\ l = Line(l.row, 1, "field", l.row - 3 + 1)
    BY InBlock
  <2>. QED
    BY <1>1, <2>1
<1>7. ASSUME NEW l \in Block(top, 1, "label", 0, below - top) PROVE ok(l)
  <2>1. top \in Int /\ below - top \in Int
    BY <1>2
  <2>2. l.row \in top .. top + (below - top) - 1 /\ l = Line(l.row, 1, "label", l.row - top + 0)
    BY <2>1, InBlock
  <2>. HIDE DEF top
  <2>. QED
    BY <1>1, <1>2, <2>2
<1>8. ASSUME NEW l \in Block(below, 1, "text", 1, m) PROVE ok(l)
  <2>1. l.row \in below .. below + m - 1 /\ l = Line(l.row, 1, "text", l.row - below + 1)
    BY <1>2, <1>4, InBlock
  <2>. HIDE DEF top
  <2>. QED
    BY <1>1, <1>2, <1>4, <2>1
<1>. HIDE DEF place
<1>9. \A l \in S : ok(l)
  BY <1>3, <1>5, <1>6, <1>7, <1>8
<1>. QED
  BY <1>9 DEF Fits, S, r

(* Rows grow by one for a field on the left and by another for a banner.   *)
LEMMA RowsGrow ==
  ASSUME NEW intro \in BOOLEAN, NEW fields, NEW i \in Nat, NEW j \in Nat, i < j
  PROVE  CompactRow(intro, fields, j) >= CompactRow(intro, fields, i)
                                         + (IF fields[j] # "second" THEN 1 ELSE 0)
                                         + (IF fields[j] = "section" THEN 1 ELSE 0)
<1>. DEFINE L(n) == FieldsOnLeft(fields, n)
            G(n) == Gutters(fields, n)
            B(n) == Banners(fields, n)
            left == IF fields[j] # "second" THEN 1 ELSE 0
            banner == IF fields[j] = "section" THEN 1 ELSE 0
<1>1. ASSUME NEW n \in Nat
      PROVE  IsFiniteSet(L(n)) /\ IsFiniteSet(G(n)) /\ IsFiniteSet(B(n))
  <2>1. IsFiniteSet(1 .. n) /\ L(n) \subseteq 1 .. n
    BY FS_Interval DEF FieldsOnLeft
  <2>2. G(n) \subseteq L(n) /\ B(n) \subseteq L(n)
    BY DEF Gutters, Banners
  <2>3. IsFiniteSet(L(n))
    BY <2>1, FS_Subset
  <2>. QED
    BY <2>2, <2>3, FS_Subset
<1>2. Cardinality(G(i)) <= Cardinality(G(j))
  <2>1. G(i) \subseteq G(j)
    BY DEF Gutters, FieldsOnLeft
  <2>. QED
    BY <1>1, <2>1, FS_Subset
<1>3. Cardinality(L(i)) + left <= Cardinality(L(j))
  <2>1. L(i) \subseteq L(j) /\ j \notin L(i) /\ (left = 1 => j \in L(j))
    BY DEF FieldsOnLeft
  <2>2. Cardinality(L(i)) <= Cardinality(L(j)) /\ (L(i) # L(j) => Cardinality(L(i)) # Cardinality(L(j)))
    BY <1>1, <2>1, FS_Subset
  <2>3. Cardinality(L(i)) \in Nat /\ Cardinality(L(j)) \in Nat
    BY <1>1, FS_CardinalityType
  <2>. HIDE DEF L
  <2>. QED
    BY <2>1, <2>2, <2>3
<1>4. Cardinality(B(i)) + banner <= Cardinality(B(j))
  <2>1. B(i) \subseteq B(j) /\ j \notin B(i) /\ (banner = 1 => j \in B(j))
    BY DEF Banners, FieldsOnLeft
  <2>2. Cardinality(B(i)) <= Cardinality(B(j)) /\ (B(i) # B(j) => Cardinality(B(i)) # Cardinality(B(j)))
    BY <1>1, <2>1, FS_Subset
  <2>3. Cardinality(B(i)) \in Nat /\ Cardinality(B(j)) \in Nat
    BY <1>1, FS_CardinalityType
  <2>. HIDE DEF B
  <2>. QED
    BY <2>1, <2>2, <2>3
<1>5. /\ Cardinality(L(i)) \in Nat /\ Cardinality(L(j)) \in Nat /\ Cardinality(G(i)) \in Nat
      /\ Cardinality(G(j)) \in Nat /\ Cardinality(B(i)) \in Nat /\ Cardinality(B(j)) \in Nat
  BY <1>1, FS_CardinalityType
<1>. DEFINE top == (IF intro THEN 4 ELSE 2) - 1
<1>6. /\ CompactRow(intro, fields, i) = top + Cardinality(L(i)) + Cardinality(G(i)) + Cardinality(B(i))
      /\ CompactRow(intro, fields, j) = top + Cardinality(L(j)) + Cardinality(G(j)) + Cardinality(B(j))
  BY DEF CompactRow
<1>7. top \in Int
  OBVIOUS
<1>8. CompactRow(intro, fields, j) >= CompactRow(intro, fields, i) + left + banner
  <2>. HIDE DEF L, G, B, top
  <2>. QED
    BY <1>2, <1>3, <1>4, <1>5, <1>6, <1>7
<1>. QED
  BY <1>8

(* The first field is on the first row, a banner above it included.        *)
LEMMA RowsStart ==
  ASSUME NEW intro \in BOOLEAN, NEW fields, NEW i \in Nat
  PROVE  LET top == IF intro THEN 4 ELSE 2
         IN /\ CompactRow(intro, fields, i) \in Nat
            /\ FieldsOnLeft(fields, i) # {} => CompactRow(intro, fields, i) >= top
            /\ i # 0 /\ fields[i] = "section" => CompactRow(intro, fields, i) >= top + 1
<1>. DEFINE L == FieldsOnLeft(fields, i)
            G == Gutters(fields, i)
            B == Banners(fields, i)
            top == IF intro THEN 4 ELSE 2
<1>1. IsFiniteSet(L)
  <2>1. IsFiniteSet(1 .. i) /\ L \subseteq 1 .. i
    BY FS_Interval DEF FieldsOnLeft
  <2>. QED
    BY <2>1, FS_Subset
<1>2. IsFiniteSet(G) /\ IsFiniteSet(B)
  <2>1. G \subseteq L /\ B \subseteq L
    BY DEF Gutters, Banners
  <2>. QED
    BY <1>1, <2>1, FS_Subset
<1>3. Cardinality(L) \in Nat /\ Cardinality(G) \in Nat /\ Cardinality(B) \in Nat
  BY <1>1, <1>2, FS_CardinalityType
<1>4. (L # {} => Cardinality(L) # 0) /\ (B # {} => Cardinality(B) # 0)
  BY <1>1, <1>2, FS_EmptySet
<1>5. i # 0 /\ fields[i] = "section" => i \in L /\ i \in B
  BY DEF FieldsOnLeft, Banners
<1>6. CompactRow(intro, fields, i) = top - 1 + Cardinality(L) + Cardinality(G) + Cardinality(B) /\ top \in {2, 4}
  BY DEF CompactRow
<1>7. /\ CompactRow(intro, fields, i) \in Nat
      /\ L # {} => CompactRow(intro, fields, i) >= top
      /\ i # 0 /\ fields[i] = "section" => CompactRow(intro, fields, i) >= top + 1
  <2>. HIDE DEF L, G, B, top
  <2>. QED
    BY <1>3, <1>4, <1>5, <1>6
<1>. QED
  BY <1>7

(* What LayoutAssumption says of a compact form                            *)
Formed(intro, fields) ==
  /\ intro \in BOOLEAN /\ Len(fields) \in Nat /\ DOMAIN fields = 1 .. Len(fields)
  /\ \A i \in DOMAIN fields :
       /\ fields[i] = "second" => i > 1 /\ fields[i - 1] # "second"
       /\ CompactRow(intro, fields, i) <= 21

LEMMA CompactFits ==
  ASSUME NEW t \in Terminals, NEW intro, NEW fields, Formed(intro, fields)
  PROVE  /\ Fits(CompactFormScreen(t, intro, fields), Rows(t))
         /\ \A i \in 1 .. Len(fields) :
              \E l \in CompactFormScreen(t, intro, fields) : l.what = "field" /\ l.no = i
<1>. DEFINE r == Rows(t)
            D == 1 .. Len(fields)
            At(i) == CompactRow(intro, fields, i)
            top == IF intro THEN 4 ELSE 2
            col(i) == IF fields[i] = "second" THEN 2 ELSE 1
            F(i) == Line(At(i), col(i), "field", i)
            B(i) == Line(At(i) - 1, 1, "banner", i)
            sections == {i \in D : fields[i] = "section"}
            placed == {F(i) : i \in D}
            banners == {B(i) : i \in sections}
            frame == Title \cup KeyLine(t) \cup {Line(CompactMessageRow(t), 1, "message", 0)}
                     \cup Block(2, 1, "intro", 0, top \div 2 - 1)
<1>0. intro \in BOOLEAN /\ Len(fields) \in Nat /\ DOMAIN fields = D
  BY DEF Formed
<1>1. r \in Nat /\ r >= 24 /\ CompactMessageRow(t) = r - 2
  BY TermRows DEF CompactMessageRow, HelpRow
<1>2. ASSUME NEW i \in D
      PROVE  /\ At(i) \in top .. 21 /\ (fields[i] = "section" => At(i) > top)
             /\ FieldsOnLeft(fields, i) # {}
  <2>1. 1 \in D /\ fields[1] # "second"
    <3>1. 1 \in D
      BY <1>0, <1>2
    <3>2. \A j \in D : fields[j] = "second" => j > 1
      BY <1>0 DEF Formed
    <3>. QED
      BY <3>1, <3>2
  <2>2. 1 \in FieldsOnLeft(fields, i)
    BY <2>1, <1>0, <1>2 DEF FieldsOnLeft
  <2>3. At(i) <= 21
    BY <1>0, <1>2 DEF Formed
  <2>4. i \in Nat /\ i # 0
    BY <1>0, <1>2
  <2>5. At(i) \in Nat /\ At(i) >= top /\ (fields[i] = "section" => At(i) >= top + 1)
    BY <1>0, <2>2, <2>4, RowsStart
  <2>. HIDE DEF At, top
  <2>6. top \in Nat
    BY DEF top
  <2>. QED
    BY <2>2, <2>3, <2>5, <2>6
<1>3. ASSUME NEW i \in D, NEW j \in D, i < j
      PROVE  /\ At(j) >= At(i)
             /\ fields[j] # "second" => At(j) > At(i)
             /\ fields[j] = "section" => At(j) - 1 > At(i)
  <2>1. At(j) >= At(i) + (IF fields[j] # "second" THEN 1 ELSE 0) + (IF fields[j] = "section" THEN 1 ELSE 0)
    BY <1>0, <1>3, RowsGrow
  <2>2. At(i) \in Int /\ At(j) \in Int
    BY <1>2
  <2>. HIDE DEF At
  <2>. QED
    BY <2>1, <2>2
<1>4. ASSUME NEW i \in D, NEW j \in D, i < j, At(j) = At(i) PROVE col(i) # col(j)
  <2>1. fields[j] = "second"
    BY <1>2, <1>3, <1>4
  <2>2. fields[j - 1] # "second" /\ j - 1 \in D
    BY <1>0, <1>4, <2>1 DEF Formed
  <2>3. CASE i = j - 1
    BY <2>1, <2>2, <2>3
  <2>4. CASE i # j - 1
    <3>1. i < j - 1 /\ j - 1 < j
      BY <1>0, <1>4, <2>4
    <3>2. At(j - 1) > At(i) /\ At(j) >= At(j - 1)
      BY <1>3, <2>2, <3>1
    <3>3. At(i) \in Int /\ At(j) \in Int /\ At(j - 1) \in Int
      BY <1>2, <2>2
    <3>. HIDE DEF At
    <3>. QED
      BY <1>4, <3>2, <3>3
  <2>. QED
    BY <2>3, <2>4
<1>. HIDE DEF At, col, r, top
<1>5. top \in {2, 4}
  BY DEF top
<1>6. \A i \in D : F(i).row = At(i) /\ F(i).col = col(i) /\ F(i).what = "field" /\ F(i).no = i
  BY DEF Line
<1>7. \A i \in D : B(i).row = At(i) - 1 /\ B(i).col = 1
  BY DEF Line
<1>. HIDE DEF F, B
<1>8. Fits(placed, r) /\ \A l \in placed : l.row \in top .. 21
  <2>1. \A i \in D : F(i).row \in top .. 21
    BY <1>2, <1>6
  <2>2. ASSUME NEW i \in D, NEW j \in D, F(i).row = F(j).row, F(i).col = F(j).col PROVE i = j
    <3>1. At(i) = At(j) /\ col(i) = col(j)
      BY <1>6, <2>2
    <3>2. ~(i < j) /\ ~(j < i)
      BY <1>4, <3>1
    <3>. QED
      BY <1>0, <3>2
  <2>. QED
    BY <1>1, <1>5, <2>1, <2>2 DEF Fits
<1>9. Fits(banners, r) /\ \A l \in banners : l.row \in top .. 21
  <2>1. \A i \in sections : B(i).row \in top .. 21
    BY <1>2, <1>5, <1>7
  <2>2. ASSUME NEW i \in sections, NEW j \in sections, B(i).row = B(j).row PROVE i = j
    <3>1. At(i) - 1 = At(j) - 1 /\ At(i) \in Int /\ At(j) \in Int
      BY <1>2, <1>7, <2>2
    <3>2. ~(i < j) /\ ~(j < i)
      BY <1>3, <3>1
    <3>. QED
      BY <1>0, <3>2
  <2>. QED
    BY <1>1, <1>5, <2>1, <2>2 DEF Fits
<1>10. \A l \in placed, m \in banners : l.row # m.row \/ l.col # m.col
  <2>. SUFFICES ASSUME NEW i \in D, NEW j \in sections, F(i).row = B(j).row, F(i).col = B(j).col PROVE FALSE
    OBVIOUS
  <2>1. At(i) = At(j) - 1 /\ col(i) = 1 /\ At(i) \in Int /\ At(j) \in Int
    BY <1>2, <1>6, <1>7
  <2>2. ~(i < j)
    BY <1>3, <2>1
  <2>3. ~(j < i)
    BY <1>3, <2>1
  <2>. QED
    BY <1>0, <2>1, <2>2, <2>3
<1>11. Fits(frame, r) /\ \A l \in frame : l.row \in {0, r - 1, r - 2} \/ (l.row = 2 /\ top = 4)
  <2>. DEFINE n == top \div 2 - 1
              head == {Line(0, 1, "title", 0)} \cup {Line(r - 1, 1, "keys", 0)} \cup {Line(r - 2, 1, "message", 0)}
  <2>1. n \in 0 .. 1 /\ (n = 1 => top = 4)
    BY <1>5
  <2>2. frame = head \cup Block(2, 1, "intro", 0, n)
    BY <1>1 DEF Title, KeyLine, HelpRow, r
  <2>3. Fits(head, r) /\ \A l \in head : l.row \in {0, r - 1, r - 2}
    BY <1>1 DEF Fits, Line
  <2>. HIDE DEF head, n
  <2>4. Fits(Block(2, 1, "intro", 0, n), r) /\ \A l \in Block(2, 1, "intro", 0, n) : l.row \in 2 .. 2 + n - 1
    BY <1>1, <2>1, OneBlock, InBlock
  <2>5. \A l \in Block(2, 1, "intro", 0, n) : l.row = 2 /\ n = 1
    BY <2>1, <2>4
  <2>6. \A l \in head, m \in Block(2, 1, "intro", 0, n) : l.row # m.row
    BY <1>1, <2>3, <2>5
  <2>7. Fits(head \cup Block(2, 1, "intro", 0, n), r)
    BY <2>3, <2>4, <2>6, Together
  <2>. QED
    BY <2>1, <2>2, <2>3, <2>5, <2>7
<1>12. CompactForm(t, intro, fields) = placed \cup banners
  <2>1. \A i \in D : At(i) <= r - 2 - 1 /\ At(i) - 1 <= r - 2 - 1 /\ FieldsOnLeft(fields, i) # {}
    BY <1>1, <1>2, <1>5
  <2>2. CompactForm(t, intro, fields) =
          {F(i) : i \in {j \in {h \in D : FieldsOnLeft(fields, h) # {}} : At(j) <= r - 2 - 1}}
          \cup {B(i) : i \in {j \in {h \in D : FieldsOnLeft(fields, h) # {}} :
                               fields[j] = "section" /\ At(j) - 1 <= r - 2 - 1}}
    BY <1>0, <1>1 DEF CompactForm, F, B, At, col
  <2>. QED
    BY <2>1, <2>2
<1>13. CompactFormScreen(t, intro, fields) = frame \cup (placed \cup banners)
  <2>1. top \div 2 - 1 = IF intro THEN 1 ELSE 0
    BY DEF top
  <2>. QED
    BY <1>12, <2>1 DEF CompactFormScreen
<1>. HIDE DEF frame, placed, banners
<1>14. Fits(placed \cup banners, r)
  BY <1>8, <1>9, <1>10, Together
<1>15. \A l \in frame, m \in placed \cup banners : l.row # m.row
  BY <1>1, <1>5, <1>8, <1>9, <1>11
<1>16. Fits(CompactFormScreen(t, intro, fields), r)
  BY <1>11, <1>13, <1>14, <1>15, Together
<1>17. ASSUME NEW i \in D
       PROVE  \E l \in CompactFormScreen(t, intro, fields) : l.what = "field" /\ l.no = i
  BY <1>6, <1>13, <1>17 DEF placed
<1>. QED
  BY <1>16, <1>17 DEF r

(* What is on the terminal has the measures that the lemmas ask for.       *)
PictureInv ==
  /\ screen.kind \in {"login", "news", "menu", "help", "admin", "settings", "list", "snapshot", "editor",
                      "form", "compact", "detail", "bridge"}
  /\ On("login") => screen.n \in Nat
  /\ On("news") => screen.n \in 0 .. NewsLinesPerPage(term)
  /\ On("help") => Len(text) \in Nat /\ docPage \in Int
  /\ On("settings") => screen.n \in 1 .. 3
  /\ screen.kind \in {"list", "snapshot", "editor"} => screen.n \in PanelRows
  /\ On("form") => screen.n \in FormSizes
  /\ On("compact") => screen.n \in CompactForms
  /\ On("detail") => screen.n \in Details

LEMMA PictureStarts == MenuInit => PictureInv
BY DEF MenuInit, PictureInv, On, AtLogin

LEMMA NewsPageFits ==
  ASSUME NEW i \in Nat, NEW motd, ShowNews(i, motd), term \in Terminals, term' = term, Len(motd) \in Nat,
         i * NewsLinesPerPage(term) < Len(motd)
  PROVE  PictureInv'
<1>. DEFINE per == NewsLinesPerPage(term)
            start == i * per
            n == Len(motd)
<1>1. per \in Nat /\ start \in Nat
  <2>1. per \in Nat
    BY TermRows DEF NewsLinesPerPage
  <2>. QED
    BY <2>1
<1>2. screen' = [kind |-> "news", n |-> Smaller(per, n - start)]
  BY DEF ShowNews, NewsPage
<1>3. start < n /\ n \in Nat
  OBVIOUS
<1>4. NewsLinesPerPage(term') = per
  BY DEF NewsLinesPerPage
<1>. HIDE DEF start, per, n
<1>5. Smaller(per, n - start) \in 0 .. per
  BY <1>1, <1>3 DEF Smaller
<1>. QED
  BY <1>2, <1>4, <1>5 DEF PictureInv, On

LEMMA PictureStep == PictureInv /\ NewsInv /\ [MenuNext]_menuVars => PictureInv'
<1>. SUFFICES ASSUME PictureInv, NewsInv, [MenuNext]_menuVars PROVE PictureInv'
  OBVIOUS
<1>1. screen'.kind \in {"menu", "admin", "bridge"} => PictureInv'
  BY DEF PictureInv, On
<1>2. ASSUME UNCHANGED <<term, screen, text>>, docPage' \in Int \/ UNCHANGED docPage PROVE PictureInv'
  BY <1>2 DEF PictureInv, On, NewsLinesPerPage
<1>3. CASE UNCHANGED menuVars
  BY <1>2, <1>3 DEF menuVars
<1>4. CASE SignOn
  <2>1. CASE Arrive
    BY <1>1, <2>1 DEF Arrive, EnterMenu
  <2>2. CASE \E d \in Documents : Trimmed(d) # NoLines /\ ShowNews(0, Trimmed(d))
    <3>1. PICK d \in Documents : Trimmed(d) # NoLines /\ ShowNews(0, Trimmed(d))
      BY <2>2
    <3>2. Trimmed(d) \in Seq({"text", "blank"})
      BY TrimmedDocument
    <3>3. Len(Trimmed(d)) \in Nat /\ Len(Trimmed(d)) # 0
      BY <3>1, <3>2 DEF NoLines
    <3>4. 0 * NewsLinesPerPage(term) = 0
      BY TermRows DEF NewsLinesPerPage, NewsInv
    <3>. QED
      BY <1>4, <3>1, <3>3, <3>4, NewsPageFits DEF SignOn, NewsInv
  <2>. QED
    BY <1>4, <2>1, <2>2 DEF SignOn
<1>5. CASE NewsEnter
  <2>1. CASE Arrive
    BY <1>1, <2>1 DEF Arrive, EnterMenu
  <2>2. CASE docPage + 1 < NewsPages /\ ShowNews(docPage + 1, text)
    <3>. DEFINE per == NewsLinesPerPage(term)
                n == Len(text)
    <3>1. per \in Nat /\ per >= 22 /\ n \in Nat /\ docPage \in Nat
      BY <1>5, TermRows DEF NewsEnter, NewsInv, NewsLinesPerPage
    <3>2. docPage + 1 < (n + per - 1) \div per
      BY <2>2 DEF NewsPages
    <3>3. n # 0
      BY <3>1, <3>2
    <3>4. (docPage + 1) * per < n
      BY <3>1, <3>2, <3>3, FurtherPage
    <3>. QED
      BY <1>5, <2>2, <3>1, <3>4, NewsPageFits DEF NewsEnter, NewsInv
  <2>. QED
    BY <1>5, <2>1, <2>2 DEF NewsEnter
<1>6. CASE MenuPaging \/ Regrant
  BY <1>2, <1>6 DEF MenuPaging, Regrant, viewer, access
<1>7. CASE MenuService \/ HelpEnd \/ BackToMenu
  BY <1>1, <1>7 DEF MenuService, HelpEnd, BackToMenu, EnterMenu
<1>8. CASE MenuInvalid
  BY <1>1, <1>2, <1>8 DEF MenuInvalid, EnterMenu, access, viewer
<1>9. CASE MenuHelp
  <2>1. PICK d \in Documents : text' = d /\ docPage' = 0 /\ screen' = [kind |-> "help", n |-> Len(d)]
    BY <1>9 DEF MenuHelp
  <2>2. Len(d) \in Nat
    BY MenuAssumption
  <2>. QED
    BY <2>1, <2>2 DEF PictureInv, On
<1>10. CASE HelpPaging
  <2>1. PICK p \in {docPage - 1, docPage + 1} : docPage' = HelpBounds(p).page
    BY <1>10 DEF HelpPaging
  <2>2. p \in Int /\ Len(text) \in Nat
    BY <1>10, <2>1 DEF HelpPaging, PictureInv
  <2>3. HelpPageSize(term) \in Nat \ {0}
    BY TermRows DEF HelpPageSize, BodyBottomRow, BodyTopRow, NewsInv
  <2>4. HasRows(PageBounds(HelpPageSize(term), Len(text), p).page, HelpPageSize(term), Len(text))
    BY <2>2, <2>3, BoundsShown
  <2>. QED
    BY <1>2, <1>10, <2>1, <2>4 DEF HelpPaging, HelpBounds, HasRows, access
<1>11. CASE OpenFlow \/ BackToOptions
  <2>1. CASE screen' = [kind |-> "admin", n |-> 0]
    BY <1>1, <2>1
  <2>2. CASE \E n \in 1 .. 3 : screen' = [kind |-> "settings", n |-> n]
    BY <2>2 DEF PictureInv, On
  <2>. QED
    BY <1>11, <2>1, <2>2 DEF OpenFlow, BackToOptions, OpenScreen
<1>12. CASE OpenPicture
  <2>1. CASE \E kind \in {"list", "snapshot", "editor"}, x \in PanelRows : screen' = [kind |-> kind, n |-> x]
    BY <2>1 DEF PictureInv, On
  <2>2. CASE \E x \in Details : screen' = [kind |-> "detail", n |-> x]
    BY <2>2 DEF PictureInv, On
  <2>3. CASE \E x \in FormSizes : screen' = [kind |-> "form", n |-> x]
    BY <2>3 DEF PictureInv, On
  <2>4. CASE \E x \in CompactForms : screen' = [kind |-> "compact", n |-> x]
    BY <2>4 DEF PictureInv, On
  <2>. QED
    BY <1>12, <2>1, <2>2, <2>3, <2>4 DEF OpenPicture, Open, OpenScreen
<1>13. CASE Logoff
  <2>1. PICK d \in Documents : screen' = AtLogin(Len(Trimmed(d)))
    BY <1>13 DEF Logoff
  <2>2. Len(Trimmed(d)) \in Nat
    BY TrimmedDocument
  <2>. QED
    BY <2>1, <2>2 DEF PictureInv, On, AtLogin
<1>. QED
  BY <1>3, <1>4, <1>5, <1>6, <1>7, <1>8, <1>9, <1>10, <1>11, <1>12, <1>13 DEF MenuNext

LEMMA LinesFit ==
  ASSUME PickInv, NewsInv, PictureInv
  PROVE  /\ Fits(Lines, Rows(term))
         /\ screen.kind \in {"form", "compact"} =>
              \A i \in 1 .. FieldsOf(screen) : \E l \in Lines : l.what = "field" /\ l.no = i
<1>0. term \in Terminals
  BY DEF PickInv
<1>1. CASE On("login")
  BY <1>0, <1>1, LoginFits DEF Lines, On, PictureInv
<1>2. CASE On("news")
  <2>1. NewsPage(docPage, Len(text)).first \in Int
    BY <1>0, <1>2, TermRows DEF NewsPage, NewsInv, NewsLinesPerPage
  <2>. QED
    BY <1>0, <1>2, <2>1, NewsFits DEF Lines, On, PictureInv
<1>3. CASE On("menu")
  <2>1. Len(list) \in Nat /\ menuPage \in Int /\ isAdmin \in BOOLEAN
    BY <1>3, ListOfMenu DEF PickInv, On, HasRows, isAdmin
  <2>. QED
    BY <1>0, <1>3, <2>1, MenuFits DEF Lines, On
<1>4. CASE On("help")
  BY <1>0, <1>4, HelpFits DEF Lines, On, PictureInv
<1>5. CASE On("admin")
  BY <1>0, <1>5, OptionsFit DEF Lines, On, AdminMenuScreen, BodyTopRow
<1>6. CASE On("settings")
  BY <1>0, <1>6, SettingsFit DEF Lines, On, PictureInv
<1>7. CASE screen.kind \in {"list", "snapshot", "editor"}
  <2>1. screen.n \in Nat
    BY <1>7, MenuAssumption DEF PictureInv
  <2>. QED
    BY <1>0, <1>7, <2>1, PanelsFit DEF Lines, On
<1>8. CASE On("form")
  <2>1. screen.n \in 0 .. 9
    BY <1>8, LayoutAssumption DEF PictureInv
  <2>2. Lines = FormScreen(term, screen.n) /\ FieldsOf(screen) = screen.n
    BY <1>8 DEF Lines, On, FieldsOf
  <2>. QED
    BY <1>0, <2>1, <2>2, FormFits
<1>9. CASE On("compact")
  <2>1. screen.n \in CompactForms
    BY <1>9 DEF PictureInv
  <2>2. Formed(screen.n.intro, screen.n.fields)
    <3>. DEFINE f == screen.n
    <3>. HIDE DEF f
    <3>1. /\ f.intro \in BOOLEAN /\ f.fields \in Seq({"primary", "second", "gap", "section"})
          /\ \A i \in DOMAIN f.fields :
               /\ f.fields[i] = "second" => i > 1 /\ f.fields[i - 1] # "second"
               /\ CompactRow(f.intro, f.fields, i) <= 21
      BY <2>1, LayoutAssumption DEF f
    <3>2. Len(f.fields) \in Nat /\ DOMAIN f.fields = 1 .. Len(f.fields)
      BY <3>1
    <3>3. Formed(f.intro, f.fields)
      BY <3>1, <3>2 DEF Formed
    <3>. QED
      BY <3>3 DEF f
  <2>3. Lines = CompactFormScreen(term, screen.n.intro, screen.n.fields)
        /\ FieldsOf(screen) = Len(screen.n.fields)
    BY <1>9 DEF Lines, On, FieldsOf
  <2>. QED
    BY <1>0, <2>2, <2>3, CompactFits
<1>10. CASE On("detail")
  <2>1. screen.n \in (0 .. 8) \X BOOLEAN \X Nat
    BY <1>10, LayoutAssumption DEF PictureInv
  <2>2. Lines = DetailScreen(term, screen.n[1], screen.n[2], screen.n[3])
    BY <1>10 DEF Lines, On
  <2>3. screen.n[1] \in 0 .. 8 /\ screen.n[2] \in BOOLEAN /\ screen.n[3] \in Nat
    BY <2>1
  <2>. QED
    BY <1>0, <1>10, <2>2, <2>3, DetailFits DEF On
<1>11. CASE On("bridge")
  BY <1>11 DEF Lines, On, Fits
<1>. QED
  BY <1>1, <1>2, <1>3, <1>4, <1>5, <1>6, <1>7, <1>8, <1>9, <1>10, <1>11 DEF PictureInv, On

(* Whatever the terminal reports as its size, every screen keeps within    *)
(* it, no line is written over another and no field of a form is left out. *)
THEOREM ScreensFit == MenuSpec => []ScreenFits
<1>1. MenuSpec => []PickInv
  BY PickStarts, PickStep, PTL DEF MenuSpec
<1>2. MenuSpec => []NewsInv
  BY NewsStarts, NewsStep, PTL DEF MenuSpec
<1>3. MenuSpec => []PictureInv
  BY <1>2, PictureStarts, PictureStep, PTL DEF MenuSpec
<1>4. PickInv /\ NewsInv /\ PictureInv => ScreenFits
  BY LinesFit, Zenon DEF ScreenFits, Fits
<1>. QED
  BY <1>1, <1>2, <1>3, <1>4, PTL

-----------------------------------------------------------------------------
(* Forms *)

Values == Data \cup {"Y", "N", BlankField}
UserRows == [name : Names \cup {BlankField}, pw : Values, prof : Values,
         req : Values, secret : Values, lock : Values]

EditPlan == <<"pw", "prof", "req", "secret", "lock", "event">>
AddPlan == <<"free", "insert", "prof", "event">>
Plan == IF form.kind = "edit" THEN EditPlan ELSE IF form.kind = "add" THEN AddPlan ELSE Keys
Marks == Columns \cup {"free", "insert", "event"} \cup Params

Suffix(t, p) == Len(t) <= Len(p) /\ \A i \in 1 .. Len(t) : t[i] = p[Len(p) - Len(t) + i]

(* The steps the submit has gone through *)
Passed == {Plan[i] : i \in 1 .. Len(Plan) - Len(form.todo)}

ShapeOK ==
  /\ users \in [Ids -> UserRows] /\ lost \in BOOLEAN /\ moves \in Nat
  /\ form = [kind |-> form.kind, at |-> form.at, id |-> form.id, seen |-> form.seen,
             vals |-> form.vals, todo |-> form.todo]
  /\ form.kind \in {"none", "edit", "add", "params"} /\ form.at \in {"prompt", "busy", "saved"}
  /\ form.todo \in Seq(Marks)
  /\ form.at = "busy" => Suffix(form.todo, Plan)
  /\ form.at = "saved" => form.todo = <<>>
  /\ form.kind = "none" => form = NoForm /\ trail = {} /\ done = {} /\ foreign = {} /\ ~lost

(* What has been logged, and what has been stored *)
TrailOK ==
  /\ done \subseteq IF form.kind = "params" THEN Params ELSE Columns
  /\ trail \subseteq done \cup {"user"}
  /\ lost \/ done \cap (Params \cup {"secret", "lock"}) \subseteq trail
  /\ "user" \in trail => form.at = "saved" /\ form.kind \in {"edit", "add"}
  /\ form.kind \in {"edit", "add"} /\ form.at # "prompt" /\ "prof" \in Passed => "prof" \in done
  /\ form.kind \in {"edit", "add"} /\ form.at = "saved" => lost \/ "user" \in trail

EditOK ==
  form.kind = "edit" =>
    /\ form.id \in Ids /\ form.seen \in UserRows
    /\ \A c \in {"req", "lock"} \ (done \cup foreign) : users[form.id][c] = form.seen[c]
    /\ form.at # "prompt" =>
         /\ form.vals \in EditTyped
         /\ \A c \in {"req", "lock"} \cap done : c \in before \/ Wanted(c)
         /\ \A c \in (Columns \cap Passed) \ foreign :
              Wanted(c) \/ c \in {"req", "lock"} \ before => users[form.id][c] = Entered(c)

AddOK ==
  form.kind = "add" /\ form.at # "prompt" =>
    /\ form.vals \in AddTyped
    /\ "insert" \in Passed => form.id \in Ids
    /\ foreign \cap Columns = {} =>
         /\ "free" \in Passed /\ "insert" \notin Passed => Taken(form.vals.name) = {}
         /\ "insert" \in Passed =>
              users[form.id].name = form.vals.name /\ users[form.id].pw = form.vals.pw
         /\ "prof" \in Passed => "insert" \in Passed /\ users[form.id].prof = form.vals.prof

ParamsOK ==
  /\ params = [k \in Params |-> params[k]]
  /\ \A k \in Params : params[k] # "BAD"
  /\ form.kind = "none" => params = [k \in Params |-> "old"]
  /\ form.kind = "params" =>
       /\ form.seen = [k \in Params |-> form.seen[k]]
       /\ \A k \in Params \ foreign : params[k] = form.seen[k]
       /\ form.at # "prompt" =>
            /\ \A k \in Params : form.vals[k] # "BAD"
            /\ \A k \in Passed : form.seen[k] = form.vals[k]

FormsInv == ShapeOK /\ TrailOK /\ EditOK /\ AddOK /\ ParamsOK

-----------------------------------------------------------------------------
(* UserRows *)

LEMMA RowTypes ==
  /\ NoRow \in UserRows
  /\ \A n \in Names, p \in Data : NewRow(n, p) \in UserRows /\ NewRow(n, p).name = n /\ NewRow(n, p).pw = p
  BY DEF NewRow, NoRow, UserRows, Values, Data

(* Where a form may be opened *)
LEMMA FirstRows == Databases \subseteq [Ids -> UserRows]
<1>1. First \in Names
  BY FormsAssumption DEF First
<1>2. \A n \in Names : NewRow(n, "old") \in UserRows
  BY RowTypes DEF Data
<1>3. \A f \in Flags : [NewRow(First, "old") EXCEPT !.req = f[1], !.secret = f[2], !.lock = f[3]] \in UserRows
  <2>1. \A f \in Flags : f[1] \in Values /\ f[2] \in Values /\ f[3] \in Values
    BY DEF Flags, Values
  <2>2. ASSUME NEW r \in UserRows, NEW a \in Values, NEW b \in Values, NEW c \in Values
        PROVE  [r EXCEPT !.req = a, !.secret = b, !.lock = c] \in UserRows
    BY DEF UserRows
  <2>. QED
    BY <1>1, <1>2, <2>1, <2>2
<1>. SUFFICES ASSUME NEW d \in Databases PROVE d \in [Ids -> UserRows]
  OBVIOUS
<1>4. CASE \E f \in Flags :
             d = [i \in Ids |-> IF i = 1 THEN [NewRow(First, "old") EXCEPT !.req = f[1], !.secret = f[2], !.lock = f[3]]
                               ELSE NoRow]
  BY <1>3, <1>4, RowTypes
<1>5. CASE \E n \in Names \ {First} :
             d = [i \in Ids |-> IF i = 1 THEN NewRow(First, "old")
                               ELSE IF i = 2 THEN NewRow(n, "old") ELSE NoRow]
  BY <1>1, <1>2, <1>5, RowTypes
<1>. QED
  BY <1>4, <1>5 DEF Databases

(* Writing a column changes that column.                                   *)
OneColumn(u, w, i, c, v) ==
  /\ w \in [Ids -> UserRows]
  /\ w[i][c] = v
  /\ \A j \in Ids : w[j].name = u[j].name
  /\ \A j \in Ids, d \in Columns : j # i \/ d # c => w[j][d] = u[j][d]

LEMMA Column ==
  ASSUME NEW u \in [Ids -> UserRows], NEW i \in Ids, NEW c \in Columns, NEW v \in Values,
         NEW w, w = [u EXCEPT ![i][c] = v]
  PROVE  OneColumn(u, w, i, c, v)
<1>1. ASSUME NEW r \in UserRows
      PROVE  /\ [r EXCEPT ![c] = v] \in UserRows /\ [r EXCEPT ![c] = v][c] = v
             /\ [r EXCEPT ![c] = v].name = r.name
             /\ \A d \in Columns \ {c} : [r EXCEPT ![c] = v][d] = r[d]
  BY DEF UserRows, Columns
<1>2. [u[i] EXCEPT ![c] = v] \in UserRows
  BY <1>1
<1>. QED
  BY <1>1, <1>2 DEF OneColumn

(* A set of numbers up to n has a greatest one.                            *)
LEMMA Greatest ==
  ASSUME NEW n \in Nat, NEW S \in SUBSET (1 .. n), S # {}
  PROVE  \E m \in S : \A k \in S : k <= m
<1>. DEFINE R == OpToRel(<, Nat)
            G == {n - k : k \in S}
<1>1. IsWellFoundedOn(R, Nat)
  BY NatLessThanWellFounded
<1>2. \A a, b \in Nat : <<a, b>> \in R <=> a < b
  BY DEF OpToRel
<1>3. G \subseteq Nat /\ G # {}
  <2>1. \A k \in 1 .. n : n - k \in Nat
    OBVIOUS
  <2>. QED
    BY <2>1
<1>. HIDE DEF R
<1>4. PICK g \in G : \A y \in G : <<y, g>> \notin R
  <2>. HIDE DEF G
  <2>. QED
    BY <1>1, <1>3, WFMin
<1>5. PICK m \in S : g = n - m
  BY <1>4
<1>6. ASSUME NEW k \in S PROVE k <= m
  <2>1. n - k \in Nat /\ n - m \in Nat /\ k \in Nat /\ m \in Nat
    OBVIOUS
  <2>2. ~(n - k < n - m)
    BY <1>2, <1>4, <1>5, <2>1
  <2>. QED
    BY <2>1, <2>2
<1>. QED
  BY <1>6

(* The id of a new row was free.                                           *)
LEMMA NextIsFree == NextId \in Ids => users[NextId].name = BlankField
<1>. SUFFICES ASSUME NextId \in Ids, users[NextId].name # BlankField
              PROVE  FALSE
  OBVIOUS
<1>. DEFINE used == {i \in Ids : users[i].name # BlankField}
            top == CHOOSE i \in Ids : users[i].name # BlankField /\ \A j \in Ids : users[j].name # BlankField => j <= i
<1>1. MaxId \in Nat /\ Ids = 1 .. MaxId
  BY FormsAssumption DEF Ids
<1>2. NextId \in used /\ used \in SUBSET (1 .. MaxId)
  BY <1>1
<1>3. \E m \in used : \A j \in used : j <= m
  <2>. HIDE DEF used
  <2>. QED
    BY <1>1, <1>2, Greatest
<1>4. top \in used /\ \A j \in used : j <= top
  BY <1>3
<1>5. NextId = 1 + top
  BY <1>2 DEF NextId
<1>6. top \in Nat
  BY <1>1, <1>2, <1>4
<1>7. 1 + top <= top
  BY <1>2, <1>4, <1>5
<1>. HIDE DEF top
<1>. QED
  BY <1>6, <1>7

-----------------------------------------------------------------------------
(* The steps of a submit *)

(* A step joins those gone through.                                        *)
LEMMA Plans ==
  /\ Len(Plan) \in Nat
  /\ form.kind = "edit" => Plan = EditPlan /\ Len(Plan) = 6
  /\ form.kind = "add" => Plan = AddPlan /\ Len(Plan) = 4
  /\ form.kind \notin {"edit", "add"} => Plan = Keys
<1>1. Len(EditPlan) = 6 /\ Len(AddPlan) = 4
  BY DEF EditPlan, AddPlan
<1>2. Len(Keys) \in Nat
  BY FormsAssumption
<1>. QED
  BY <1>1, <1>2 DEF Plan

LEMMA Steps ==
  ASSUME ShapeOK, Step
  PROVE  /\ form.todo # <<>> /\ form.todo \in Seq(Marks) /\ Now \in Marks /\ Tail(form.todo) \in Seq(Marks)
         /\ Suffix(Tail(form.todo), Plan)
         /\ Len(Plan) - Len(form.todo) \in 0 .. Len(Plan) - 1
         /\ Now = Plan[Len(Plan) - Len(form.todo) + 1]
         /\ {Plan[i] : i \in 1 .. Len(Plan) - Len(Tail(form.todo))} = Passed \cup {Now}
<1>. DEFINE t == form.todo
            p == Plan
<1>1. t \in Seq(Marks) /\ t # <<>> /\ Suffix(t, p) /\ Len(p) \in Nat
  BY Plans DEF ShapeOK, Step
<1>2. Now = Head(t) /\ Passed = {p[i] : i \in 1 .. Len(p) - Len(t)}
  BY DEF Now, Passed
<1>. HIDE DEF t, p
<1>3. Len(t) \in Nat \ {0} /\ Tail(t) \in Seq(Marks) /\ Len(Tail(t)) = Len(t) - 1
      /\ Head(t) = t[1] /\ t[1] \in Marks /\ \A i \in 1 .. Len(t) - 1 : Tail(t)[i] = t[i + 1]
  BY <1>1
<1>4. PICK n \in Nat, m \in Nat : n = Len(t) /\ m = Len(p)
  BY <1>1, <1>3
<1>5. n # 0 /\ n <= m /\ \A i \in 1 .. n : t[i] = p[m - n + i]
  BY <1>1, <1>3, <1>4 DEF Suffix
<1>6. m - n \in 0 .. m - 1 /\ t[1] = p[m - n + 1]
  BY <1>5
<1>7. Suffix(Tail(t), p)
  <2>1. Len(Tail(t)) = n - 1 /\ n - 1 <= m
    BY <1>3, <1>4, <1>5
  <2>2. ASSUME NEW i \in 1 .. n - 1 PROVE Tail(t)[i] = p[m - (n - 1) + i]
    <3>1. i + 1 \in 1 .. n /\ m - n + (i + 1) = m - (n - 1) + i
      BY <1>4, <1>5
    <3>. QED
      BY <1>3, <1>4, <1>5, <3>1
  <2>. QED
    BY <1>4, <2>1, <2>2 DEF Suffix
<1>8. m - (n - 1) = m - n + 1 /\ 1 .. m - n + 1 = (1 .. m - n) \cup {m - n + 1}
  BY <1>5
<1>9. {p[i] : i \in 1 .. Len(p) - Len(Tail(t))} = Passed \cup {Now}
  BY <1>2, <1>3, <1>4, <1>6, <1>8
<1>. QED
  BY <1>1, <1>2, <1>3, <1>4, <1>6, <1>7, <1>9 DEF t, p

(* What has been gone through when a step's turn comes                     *)
LEMMA Order ==
  ASSUME ShapeOK, Step
  PROVE  /\ form.kind # "none"
         /\ Now = "event" => form.kind # "params" /\ Tail(form.todo) = <<>>
         /\ form.kind = "edit" => Now \in Columns \cup {"event"} /\ (Now = "event" => Columns \subseteq Passed)
         /\ form.kind = "add" =>
              \/ Now = "free" /\ Passed = {}
              \/ Now = "insert" /\ Passed = {"free"}
              \/ Now = "prof" /\ Passed = {"free", "insert"}
              \/ Now = "event" /\ Passed = {"free", "insert", "prof"}
         /\ form.kind = "params" =>
              Now \in Params /\ Now \notin Columns \cup {"free", "insert", "event", "user"}
<1>. DEFINE g == Len(Plan) - Len(form.todo)
<1>1. Len(Plan) \in Nat /\ g \in 0 .. Len(Plan) - 1 /\ Now = Plan[g + 1] /\ Passed = {Plan[i] : i \in 1 .. g}
  BY Steps, Plans DEF Passed
<1>2. g + 1 = Len(Plan) => Tail(form.todo) = <<>>
  <2>1. form.todo \in Seq(Marks) /\ form.todo # <<>> /\ Len(form.todo) \in Nat
    BY Steps
  <2>2. g + 1 = Len(Plan) => Len(form.todo) = 1
    <3>1. Len(Plan) \in Nat
      BY <1>1
    <3>2. \A m, n \in Nat : m - n + 1 = m => n = 1
      OBVIOUS
    <3>. QED
      BY <2>1, <3>1, <3>2
  <2>. QED
    BY <2>1, <2>2
<1>. HIDE DEF g
<1>3. form.kind # "none"
  BY DEF ShapeOK, Step, NoForm
<1>4. ASSUME form.kind = "edit"
      PROVE  Now \in Columns \cup {"event"} /\ (Now = "event" => g + 1 = Len(Plan) /\ Columns \subseteq Passed)
  <2>1. Plan = EditPlan /\ Len(Plan) = 6
    BY <1>4, Plans
  <2>2. Plan[1] = "pw" /\ Plan[2] = "prof" /\ Plan[3] = "req" /\ Plan[4] = "secret" /\ Plan[5] = "lock"
        /\ Plan[6] = "event"
    BY <2>1 DEF EditPlan
  <2>3. g = 0 \/ g = 1 \/ g = 2 \/ g = 3 \/ g = 4 \/ g = 5
    BY <1>1, <2>1
  <2>4. CASE g = 5
    <3>1. 1 .. g = {1, 2, 3, 4, 5}
      BY <2>4
    <3>2. Passed = {Plan[i] : i \in {1, 2, 3, 4, 5}} /\ Now = Plan[6]
      BY <1>1, <2>4, <3>1
    <3>. QED
      BY <2>1, <2>2, <2>4, <3>2 DEF Columns
  <2>5. CASE g # 5
    BY <1>1, <2>2, <2>3, <2>5 DEF Columns
  <2>. QED
    BY <2>4, <2>5
<1>5. ASSUME form.kind = "add"
      PROVE  \/ Now = "free" /\ Passed = {}
             \/ Now = "insert" /\ Passed = {"free"}
             \/ Now = "prof" /\ Passed = {"free", "insert"}
             \/ Now = "event" /\ Passed = {"free", "insert", "prof"} /\ g + 1 = Len(Plan)
  <2>1. Plan = AddPlan /\ Len(Plan) = 4
    BY <1>5, Plans
  <2>2. Plan[1] = "free" /\ Plan[2] = "insert" /\ Plan[3] = "prof" /\ Plan[4] = "event"
    BY <2>1 DEF AddPlan
  <2>3. 1 .. 0 = {} /\ 1 .. 1 = {1} /\ 1 .. 2 = {1, 2} /\ 1 .. 3 = {1, 2, 3}
    OBVIOUS
  <2>4. g = 0 \/ g = 1 \/ g = 2 \/ g = 3
    BY <1>1, <2>1
  <2>5. CASE g = 0
    BY <1>1, <2>2, <2>3, <2>5
  <2>6. CASE g = 1
    BY <1>1, <2>2, <2>3, <2>6
  <2>7. CASE g = 2
    BY <1>1, <2>2, <2>3, <2>7
  <2>8. CASE g = 3
    BY <1>1, <2>1, <2>2, <2>3, <2>8
  <2>. QED
    BY <2>4, <2>5, <2>6, <2>7, <2>8
<1>6. ASSUME form.kind = "params"
      PROVE  Now \in Params /\ Now \notin Columns \cup {"free", "insert", "event", "user"}
  <2>1. Plan = Keys /\ g + 1 \in DOMAIN Keys
    BY <1>1, <1>6, Plans, FormsAssumption
  <2>. QED
    BY <1>1, <2>1, FormsAssumption DEF Params, Columns
<1>7. Now = "event" => form.kind # "params" /\ Tail(form.todo) = <<>>
  BY <1>2, <1>3, <1>4, <1>5, <1>6 DEF ShapeOK
<1>. QED
  BY <1>3, <1>4, <1>5, <1>6, <1>7 DEF ShapeOK

-----------------------------------------------------------------------------
(* Opening, leaving and beginning *)

LEMMA InitForms == FormsInit => FormsInv
<1>. SUFFICES ASSUME FormsInit PROVE FormsInv
  OBVIOUS
<1>1. users \in [Ids -> UserRows]
  BY FirstRows DEF FormsInit
<1>2. form = NoForm /\ <<>> \in Seq(Marks)
  BY DEF FormsInit
<1>3. form = [kind |-> form.kind, at |-> form.at, id |-> form.id, seen |-> form.seen,
              vals |-> form.vals, todo |-> form.todo]
  BY <1>2 DEF NoForm
<1>4. form.kind = "none" /\ form.at = "prompt" /\ form.todo = <<>>
  BY <1>2 DEF NoForm
<1>5. ShapeOK
  BY <1>1, <1>2, <1>3, <1>4 DEF FormsInit, ShapeOK
<1>. QED
  BY <1>4, <1>5 DEF FormsInit, FormsInv, TrailOK, EditOK, AddOK, ParamsOK

(* As long as the form is the same, so is its plan.                        *)
LEMMA SamePlan ==
  ASSUME form'.kind = form.kind
  PROVE  /\ Plan' = Plan
         /\ Passed' = {Plan[i] : i \in 1 .. Len(Plan) - Len(form'.todo)}
  BY DEF Plan, Passed

LEMMA PlanMarks == Plan \in Seq(Marks)
<1>1. CASE form.kind \in {"edit", "add"}
  <2>1. EditPlan \in Seq(Marks)
    <3>1. {"pw", "prof", "req", "secret", "lock", "event"} \subseteq Marks
      BY DEF Marks, Columns
    <3>. QED
      BY <3>1 DEF EditPlan
  <2>2. AddPlan \in Seq(Marks)
    <3>1. {"free", "insert", "prof", "event"} \subseteq Marks
      BY DEF Marks, Columns
    <3>. QED
      BY <3>1 DEF AddPlan
  <2>. QED
    BY <1>1, <2>1, <2>2, Plans
<1>2. CASE form.kind \notin {"edit", "add"}
  <2>1. Plan = Keys
    BY <1>2, Plans
  <2>2. Keys \in Seq(STRING) /\ \A k \in 1 .. Len(Keys) : Keys[k] \in Marks
    BY FormsAssumption DEF Marks, Params
  <2>. QED
    BY <2>1, <2>2
<1>. QED
  BY <1>1, <1>2

LEMMA WholePlan == Suffix(Plan, Plan) /\ {Plan[i] : i \in 1 .. Len(Plan) - Len(Plan)} = {}
<1>1. Len(Plan) \in Nat /\ Len(Plan) - Len(Plan) = 0
  BY Plans
<1>. QED
  BY <1>1 DEF Suffix

(* Nothing has been gone through when a submit begins.                     *)
LEMMA Begun ==
  ASSUME FormsInv, NEW v, Begin(v, Plan), form.at = "prompt", form.kind # "none"
  PROVE  /\ ShapeOK' /\ TrailOK' /\ Passed' = {}
         /\ form'.kind = form.kind /\ form'.id = form.id /\ form'.seen = form.seen /\ form'.vals = v
         /\ form'.at = "busy"
<1>1. /\ form' = [kind |-> form.kind, at |-> "busy", id |-> form.id, seen |-> form.seen,
                  vals |-> v, todo |-> Plan]
  BY DEF FormsInv, ShapeOK, Begin
<1>2. /\ form'.kind = form.kind /\ form'.id = form.id /\ form'.seen = form.seen /\ form'.vals = v
      /\ form'.at = "busy" /\ form'.todo = Plan
  BY <1>1
<1>3. Plan' = Plan /\ Passed' = {}
  BY <1>2, SamePlan, WholePlan
<1>4. ShapeOK'
  BY <1>1, <1>2, <1>3, WholePlan, PlanMarks DEF FormsInv, ShapeOK, Begin
<1>5. TrailOK'
  BY <1>2, <1>3 DEF FormsInv, TrailOK, Begin
<1>. QED
  BY <1>2, <1>3, <1>4, <1>5

(* A submit that is refused leaves a form as it was opened, with whatever  *)
(* has been stored.                                                        *)
LEMMA Refused ==
  ASSUME FormsInv, form.kind # "none", form.at # "saved", Refuse, UNCHANGED <<users, params, formHistory>>
  PROVE  FormsInv'
<1>1. /\ form' = [kind |-> form.kind, at |-> "prompt", id |-> form.id, seen |-> form.seen,
                  vals |-> form.seen, todo |-> <<>>]
  BY DEF FormsInv, ShapeOK, Refuse
<1>2. /\ form'.kind = form.kind /\ form'.id = form.id /\ form'.seen = form.seen
      /\ form'.at = "prompt" /\ form'.todo = <<>>
  BY <1>1
<1>3. ShapeOK'
  BY <1>1, <1>2 DEF FormsInv, ShapeOK, formHistory
<1>4. TrailOK'
  BY <1>2 DEF FormsInv, TrailOK, formHistory
<1>5. EditOK'
  BY <1>2 DEF FormsInv, EditOK, formHistory
<1>6. AddOK'
  BY <1>2 DEF AddOK
<1>7. ParamsOK'
  BY <1>2 DEF FormsInv, ParamsOK, formHistory
<1>. QED
  BY <1>3, <1>4, <1>5, <1>6, <1>7 DEF FormsInv

(* What a form becomes when its fields are filled in                       *)
LEMMA FormChanged ==
  ASSUME NEW g, NEW i, NEW s, NEW v, NEW f,
         g = [kind |-> g.kind, at |-> g.at, id |-> g.id, seen |-> g.seen, vals |-> g.vals, todo |-> g.todo]
  PROVE  /\ f = [g EXCEPT !.kind = "edit", !.id = i, !.seen = s, !.vals = v] =>
              f = [kind |-> "edit", at |-> g.at, id |-> i, seen |-> s, vals |-> v, todo |-> g.todo]
         /\ f = [g EXCEPT !.kind = "params", !.seen = s, !.vals = v] =>
              f = [kind |-> "params", at |-> g.at, id |-> g.id, seen |-> s, vals |-> v, todo |-> g.todo]
  OBVIOUS

(* NoForm, field by field *)
LEMMA NoFormShape ==
  /\ NoForm.kind = "none" /\ NoForm.at = "prompt" /\ NoForm.id = 0 /\ NoForm.todo = <<>>
  /\ NoForm = [kind |-> NoForm.kind, at |-> NoForm.at, id |-> NoForm.id, seen |-> NoForm.seen,
               vals |-> NoForm.vals, todo |-> NoForm.todo]
  BY DEF NoForm

LEMMA Opened ==
  ASSUME FormsInv,
         (\E i \in Ids : OpenEdit(i)) \/ OpenAdd \/ OpenParams
  PROVE  FormsInv'
<1>0. form.kind = "none" /\ form = NoForm
  BY DEF FormsInv, ShapeOK, OpenEdit, OpenAdd, OpenParams, OpenForm
<1>1. ASSUME NEW f, NEW unread, OpenForm(f, unread),
             f = [kind |-> f.kind, at |-> "prompt", id |-> f.id, seen |-> f.seen, vals |-> f.vals, todo |-> <<>>],
             f.kind \in {"edit", "add", "params"}
      PROVE  ShapeOK' /\ TrailOK' /\ AddOK' /\ form'.at = "prompt" /\ form' = f
  <2>1. form' = f /\ f.at = "prompt" /\ f.todo = <<>>
    BY <1>1 DEF OpenForm
  <2>2. ShapeOK'
    BY <1>1, <2>1 DEF FormsInv, ShapeOK, OpenForm
  <2>3. TrailOK' /\ AddOK'
    BY <1>0, <1>1, <2>1 DEF FormsInv, ShapeOK, TrailOK, AddOK, OpenForm
  <2>. QED
    BY <2>1, <2>2, <2>3
<1>2. ASSUME NEW i \in Ids, OpenEdit(i) PROVE FormsInv'
  <2>1. PICK f : f = [NoForm EXCEPT !.kind = "edit", !.id = i, !.seen = users[i], !.vals = users[i]]
    OBVIOUS
  <2>2. f = [kind |-> "edit", at |-> "prompt", id |-> i, seen |-> users[i], vals |-> users[i], todo |-> <<>>]
    BY <2>1, FormChanged, NoFormShape
  <2>3. /\ f.kind = "edit" /\ f.at = "prompt" /\ f.id = i /\ f.seen = users[i] /\ f.vals = users[i]
        /\ f.todo = <<>>
        /\ f = [kind |-> f.kind, at |-> "prompt", id |-> f.id, seen |-> f.seen, vals |-> f.vals, todo |-> <<>>]
    BY <2>2
  <2>4. OpenForm(f, {})
    BY <1>2, <2>1 DEF OpenEdit
  <2>5. ShapeOK' /\ TrailOK' /\ AddOK' /\ form'.at = "prompt" /\ form' = f
    BY <1>1, <2>3, <2>4
  <2>6. EditOK' /\ ParamsOK'
    BY <1>0, <2>3, <2>4, <2>5 DEF FormsInv, ShapeOK, EditOK, ParamsOK, OpenForm
  <2>. QED
    BY <2>5, <2>6 DEF FormsInv
<1>3. ASSUME OpenAdd PROVE FormsInv'
  <2>. DEFINE f == [NoForm EXCEPT !.kind = "add"]
  <2>1. f = [kind |-> "add", at |-> "prompt", id |-> 0, seen |-> NoRow, vals |-> NoRow, todo |-> <<>>]
    BY DEF NoForm
  <2>2. f.kind = "add" /\ f.at = "prompt" /\ f.id = 0 /\ f.seen = NoRow /\ f.vals = NoRow /\ f.todo = <<>>
    BY <2>1
  <2>3. OpenForm(f, {})
    BY <1>3 DEF OpenAdd
  <2>. HIDE DEF f
  <2>4. ShapeOK' /\ TrailOK' /\ AddOK' /\ form'.at = "prompt" /\ form' = f
    BY <1>1, <2>1, <2>2, <2>3
  <2>5. EditOK' /\ ParamsOK'
    BY <1>0, <2>2, <2>3, <2>4 DEF FormsInv, EditOK, ParamsOK, OpenForm
  <2>. QED
    BY <2>4, <2>5 DEF FormsInv
<1>4. ASSUME OpenParams PROVE FormsInv'
  <2>1. PICK unread \in SUBSET Params :
          OpenForm([NoForm EXCEPT !.kind = "params",
                        !.seen = [k \in Params |-> IF k \in unread THEN "default" ELSE params[k]],
                        !.vals = [k \in Params |-> "old"]], unread)
    BY <1>4 DEF OpenParams
  <2>. DEFINE offered == [k \in Params |-> IF k \in unread THEN "default" ELSE params[k]]
              old == [k \in Params |-> "old"]
  <2>2. (\A k \in Params \ unread : offered[k] = params[k]) /\ offered = [k \in Params |-> offered[k]]
    OBVIOUS
  <2>. HIDE DEF offered, old
  <2>3. PICK f : f = [NoForm EXCEPT !.kind = "params", !.seen = offered, !.vals = old]
    OBVIOUS
  <2>4. f = [kind |-> "params", at |-> "prompt", id |-> 0, seen |-> offered, vals |-> old, todo |-> <<>>]
    BY <2>3, FormChanged, NoFormShape
  <2>5. /\ f.kind = "params" /\ f.at = "prompt" /\ f.id = 0 /\ f.seen = offered /\ f.vals = old /\ f.todo = <<>>
        /\ f = [kind |-> f.kind, at |-> "prompt", id |-> f.id, seen |-> f.seen, vals |-> f.vals, todo |-> <<>>]
    BY <2>4
  <2>6. OpenForm(f, unread)
    BY <2>1, <2>3 DEF offered, old
  <2>7. ShapeOK' /\ TrailOK' /\ AddOK' /\ form'.at = "prompt" /\ form' = f
    BY <1>1, <2>5, <2>6
  <2>8. EditOK' /\ ParamsOK'
    BY <2>2, <2>5, <2>6, <2>7 DEF FormsInv, EditOK, ParamsOK, OpenForm
  <2>. QED
    BY <2>7, <2>8 DEF FormsInv
<1>. QED
  BY <1>2, <1>3, <1>4

LEMMA Closed == ASSUME FormsInv, CloseForm PROVE FormsInv'
<1>1. form' = NoForm /\ form' = [kind |-> "none", at |-> "prompt", id |-> 0, seen |-> NoRow, vals |-> NoRow, todo |-> <<>>]
  BY DEF CloseForm, NoForm
<1>2. form'.kind = "none" /\ form'.at = "prompt" /\ form'.todo = <<>>
  BY <1>1
<1>3. ShapeOK'
  <2>1. form' = [kind |-> form'.kind, at |-> form'.at, id |-> form'.id, seen |-> form'.seen,
                 vals |-> form'.vals, todo |-> form'.todo]
    BY <1>1
  <2>2. form'.todo \in Seq(Marks')
    BY <1>2
  <2>3. users' \in [Ids -> UserRows]
    BY FirstRows DEF CloseForm
  <2>4. NoForm' = NoForm
    BY DEF NoForm, NoRow
  <2>. QED
    BY <1>1, <1>2, <2>1, <2>2, <2>3, <2>4 DEF CloseForm, ShapeOK
<1>. QED
  BY <1>2, <1>3 DEF CloseForm, FormsInv, TrailOK, EditOK, AddOK, ParamsOK

LEMMA Stayed == ASSUME FormsInv, Stay PROVE FormsInv'
<1>1. form' = [kind |-> "params", at |-> "prompt", id |-> form.id, seen |-> form.seen,
               vals |-> form.seen, todo |-> <<>>]
  BY DEF Stay, FormsInv, ShapeOK
<1>2. /\ form'.kind = "params" /\ form'.at = "prompt" /\ form'.todo = <<>> /\ form'.seen = form.seen
  BY <1>1
<1>3. ShapeOK'
  BY <1>1, <1>2 DEF Stay, FormsInv, ShapeOK, formHistory
<1>4. TrailOK'
  BY <1>2 DEF Stay, FormsInv, TrailOK, formHistory
<1>5. EditOK' /\ AddOK'
  BY <1>2 DEF EditOK, AddOK
<1>6. ParamsOK'
  BY <1>2 DEF Stay, FormsInv, ParamsOK, formHistory
<1>. QED
  BY <1>3, <1>4, <1>5, <1>6 DEF FormsInv

LEMMA Submitted ==
  ASSUME FormsInv, SubmitEdit \/ SubmitAdd \/ SubmitParams \/ SubmitRejected
  PROVE  FormsInv'
<1>1. ASSUME SubmitEdit PROVE FormsInv'
  <2>1. PICK v \in EditTyped : Begin(v, EditPlan)
    BY <1>1 DEF SubmitEdit, EditPlan
  <2>2. form.kind = "edit" /\ form.at = "prompt" /\ Plan = EditPlan
    BY <1>1, Plans DEF SubmitEdit
  <2>3. /\ ShapeOK' /\ TrailOK' /\ Passed' = {}
        /\ form'.kind = "edit" /\ form'.id = form.id /\ form'.seen = form.seen /\ form'.vals = v
    BY <2>1, <2>2, Begun
  <2>4. EditTyped' = EditTyped
    BY <2>3 DEF EditTyped
  <2>5. EditOK'
    BY <2>1, <2>2, <2>3, <2>4 DEF FormsInv, EditOK, Begin
  <2>6. AddOK' /\ ParamsOK'
    BY <2>1, <2>3 DEF FormsInv, AddOK, ParamsOK, Begin
  <2>. QED
    BY <2>3, <2>5, <2>6 DEF FormsInv
<1>2. ASSUME SubmitAdd PROVE FormsInv'
  <2>1. PICK v \in AddTyped : Begin(v, AddPlan)
    BY <1>2 DEF SubmitAdd, AddPlan
  <2>2. form.kind = "add" /\ form.at = "prompt" /\ Plan = AddPlan
    BY <1>2, Plans DEF SubmitAdd
  <2>3. /\ ShapeOK' /\ TrailOK' /\ Passed' = {}
        /\ form'.kind = "add" /\ form'.vals = v
    BY <2>1, <2>2, Begun
  <2>4. AddOK'
    BY <2>1, <2>3 DEF AddOK, AddTyped
  <2>5. EditOK' /\ ParamsOK'
    BY <2>1, <2>3 DEF FormsInv, EditOK, ParamsOK, Begin
  <2>. QED
    BY <2>3, <2>4, <2>5 DEF FormsInv
<1>3. ASSUME SubmitParams PROVE FormsInv'
  <2>1. PICK v \in ParamTyped :
          /\ \A k \in Params : v[k] # "BAD"
          /\ Begin([k \in Params |-> Normalize(k, v[k])], Keys)
    BY <1>3 DEF SubmitParams
  <2>. DEFINE w == [k \in Params |-> Normalize(k, v[k])]
  <2>2. form.kind = "params" /\ form.at = "prompt" /\ Plan = Keys
    BY <1>3, Plans DEF SubmitParams
  <2>3. \A k \in Params : w[k] # "BAD"
    BY <2>1 DEF Normalize
  <2>. HIDE DEF w
  <2>4. Begin(w, Plan)
    BY <2>1, <2>2 DEF w
  <2>5. /\ ShapeOK' /\ TrailOK' /\ Passed' = {}
        /\ form'.kind = "params" /\ form'.vals = w /\ form'.seen = form.seen
    BY <2>2, <2>4, Begun
  <2>6. EditOK' /\ AddOK' /\ ParamsOK'
    BY <2>2, <2>3, <2>4, <2>5 DEF FormsInv, EditOK, AddOK, ParamsOK, Begin
  <2>. QED
    BY <2>5, <2>6 DEF FormsInv
<1>4. ASSUME SubmitRejected PROVE FormsInv'
  BY <1>4, Refused DEF SubmitRejected
<1>. QED
  BY <1>1, <1>2, <1>3, <1>4

-----------------------------------------------------------------------------
(* A step of a submit that is not refused *)

LEMMA Advanced ==
  ASSUME ShapeOK, Step, users' \in [Ids -> UserRows], lost' \in BOOLEAN, moves' \in Nat,
         NEW a \in {"busy", "saved"}, a = "saved" => Tail(form.todo) = <<>>, NEW i, NEW s,
         form' = [kind |-> form.kind, at |-> a, id |-> i, seen |-> s, vals |-> form.vals, todo |-> Tail(form.todo)]
  PROVE  /\ ShapeOK' /\ Passed' = Passed \cup {Now} /\ Plan' = Plan
         /\ form'.kind = form.kind /\ form'.at = a /\ form'.id = i /\ form'.seen = s /\ form'.vals = form.vals
<1>1. /\ form'.kind = form.kind /\ form'.at = a /\ form'.id = i /\ form'.seen = s /\ form'.vals = form.vals
      /\ form'.todo = Tail(form.todo)
      /\ form' = [kind |-> form'.kind, at |-> form'.at, id |-> form'.id, seen |-> form'.seen,
                  vals |-> form'.vals, todo |-> form'.todo]
  OBVIOUS
<1>2. Plan' = Plan /\ Passed' = Passed \cup {Now}
  BY <1>1, SamePlan, Steps
<1>3. form.kind # "none" /\ Tail(form.todo) \in Seq(Marks) /\ Suffix(Tail(form.todo), Plan) /\ Marks' = Marks
  BY Order, Steps DEF Marks, Columns, Params
<1>4. ShapeOK'
  BY <1>1, <1>2, <1>3 DEF ShapeOK
<1>. QED
  BY <1>1, <1>2, <1>4

(* What a user form writes is one of the values of a column.               *)
LEMMA EnteredTypes ==
  ASSUME FormsInv, NEW c \in Columns, Editing(c), ~Malformed(c), Wanted(c)
  PROVE  form.id \in Ids /\ Entered(c) \in Values /\ (form.kind = "add" => c = "prof" /\ "insert" \in Passed)
<1>1. ShapeOK /\ Step /\ Now = c /\ form.kind \in {"edit", "add"} /\ form.at = "busy"
  BY DEF FormsInv, Editing, Step
<1>2. CASE form.kind = "edit"
  <2>1. form.id \in Ids /\ form.vals \in EditTyped
    BY <1>1, <1>2 DEF FormsInv, EditOK
  <2>2. /\ form.vals.pw \in {BlankField, "mine"} /\ form.vals.prof = "mine"
        /\ form.vals.req \in {"Y", "N", "Q"} /\ form.vals.lock \in {"Y", "N", "Q"}
    BY <2>1 DEF EditTyped
  <2>. QED
    BY <1>2, <2>1, <2>2 DEF Entered, Malformed, Values, Data, Columns
<1>3. CASE form.kind = "add"
  <2>1. c = "prof" /\ "insert" \in Passed
    BY <1>1, <1>3, Order DEF Columns
  <2>2. form.id \in Ids /\ form.vals \in AddTyped
    BY <1>1, <1>3, <2>1 DEF FormsInv, AddOK
  <2>3. form.vals.prof = "mine"
    BY <2>2 DEF AddTyped, NewRow, NoRow
  <2>. QED
    BY <2>1, <2>2, <2>3 DEF Entered, Values, Data
<1>. QED
  BY <1>1, <1>2, <1>3

LEMMA Kept == ASSUME FormsInv, NEW c \in Columns, ColumnKept(c) PROVE FormsInv'
<1>1. /\ ShapeOK /\ Step /\ Now = c /\ form.kind \in {"edit", "add"} /\ form.at = "busy"
      /\ ~Malformed(c) /\ ~Wanted(c) /\ c # "prof"
  BY DEF FormsInv, ColumnKept, Editing, Step, Wanted
<1>2. form' = [kind |-> form.kind, at |-> "busy", id |-> form.id, seen |-> form.seen,
               vals |-> form.vals, todo |-> Tail(form.todo)]
  BY <1>1 DEF ColumnKept, Advance, ShapeOK
<1>3. /\ ShapeOK' /\ Passed' = Passed \cup {c}
      /\ form'.kind = form.kind /\ form'.at = "busy" /\ form'.id = form.id /\ form'.seen = form.seen
      /\ form'.vals = form.vals
  BY <1>1, <1>2, Advanced DEF ColumnKept, ShapeOK, formHistory
<1>4. form.kind = "edit"
  BY <1>1, Order DEF Columns
<1>5. TrailOK'
  BY <1>1, <1>3 DEF FormsInv, TrailOK, ColumnKept, formHistory
<1>6. EditOK'
  <2>1. /\ form.vals \in EditTyped /\ EditTyped' = EditTyped
        /\ \A d : (Wanted(d)' <=> Wanted(d)) /\ Entered(d)' = Entered(d)
    BY <1>1, <1>3, <1>4 DEF FormsInv, EditOK, EditTyped, Wanted, Entered
  <2>2. c \in {"req", "lock"} \ before /\ c \notin foreign => users[form.id][c] = Entered(c)
    BY <1>1, <1>4 DEF FormsInv, EditOK, Wanted, Entered
  <2>. QED
    BY <1>1, <1>3, <1>4, <2>1, <2>2 DEF FormsInv, EditOK, ColumnKept, formHistory
<1>7. AddOK' /\ ParamsOK'
  BY <1>3, <1>4 DEF FormsInv, AddOK, ParamsOK, ColumnKept, formHistory
<1>. QED
  BY <1>3, <1>5, <1>6, <1>7 DEF FormsInv

LEMMA Written == ASSUME FormsInv, NEW c \in Columns, ColumnWritten(c) PROVE FormsInv'
<1>1. /\ ShapeOK /\ Step /\ Now = c /\ form.kind \in {"edit", "add"} /\ form.at = "busy"
      /\ Wanted(c) /\ Editing(c) /\ ~Malformed(c)
  BY DEF FormsInv, ColumnWritten, Editing, Step
<1>2. form' = [kind |-> form.kind, at |-> "busy", id |-> form.id, seen |-> form.seen,
               vals |-> form.vals, todo |-> Tail(form.todo)]
  BY <1>1 DEF ColumnWritten, Advance, ShapeOK
<1>3. form.id \in Ids /\ Entered(c) \in Values /\ (form.kind = "add" => c = "prof" /\ "insert" \in Passed)
  BY <1>1, EnteredTypes
<1>4. /\ users' \in [Ids -> UserRows] /\ users'[form.id][c] = Entered(c)
      /\ \A j \in Ids : users'[j].name = users[j].name
      /\ \A j \in Ids, d \in Columns : j # form.id \/ d # c => users'[j][d] = users[j][d]
  <2>1. PICK i \in Ids, v \in Values : i = form.id /\ v = Entered(c)
    BY <1>3
  <2>2. users \in [Ids -> UserRows] /\ users' = [users EXCEPT ![i][c] = v]
    BY <1>1, <2>1 DEF ColumnWritten, ShapeOK
  <2>3. OneColumn(users, users', i, c, v)
    BY <2>2, Column
  <2>. QED
    BY <2>1, <2>3 DEF OneColumn
<1>5. trail' \subseteq trail \cup {c} /\ lost' \in BOOLEAN /\ (lost => lost')
      /\ trail \subseteq trail' /\ (c \in {"secret", "lock"} => lost' \/ c \in trail')
  BY <1>1 DEF ColumnWritten, Log, NoLog, HasEvent, ShapeOK
<1>6. /\ ShapeOK' /\ Passed' = Passed \cup {c}
      /\ form'.kind = form.kind /\ form'.at = "busy" /\ form'.id = form.id /\ form'.seen = form.seen
      /\ form'.vals = form.vals
  BY <1>1, <1>2, <1>4, <1>5, Advanced DEF ColumnWritten, ShapeOK
<1>7. TrailOK'
  <2>1. done' = done \cup {c} /\ c \notin Params /\ c # "user"
    BY FormsAssumption DEF ColumnWritten, Columns, Params
  <2>. QED
    BY <1>1, <1>5, <1>6, <2>1 DEF FormsInv, TrailOK
<1>8. EditOK'
  <2>1. /\ EditTyped' = EditTyped
        /\ \A d : (Wanted(d)' <=> Wanted(d)) /\ Entered(d)' = Entered(d)
    BY <1>6 DEF EditTyped, Wanted, Entered
  <2>2. done' = done \cup {c} /\ before' = before /\ foreign' = foreign
    BY DEF ColumnWritten
  <2>. QED
    BY <1>1, <1>4, <1>6, <2>1, <2>2 DEF FormsInv, EditOK, Columns
<1>9. AddOK'
  <2>1. foreign' = foreign /\ AddTyped' = AddTyped
    BY DEF ColumnWritten, AddTyped
  <2>. QED
    BY <1>1, <1>3, <1>4, <1>6, <2>1 DEF FormsInv, AddOK, Columns, Entered
<1>10. ParamsOK'
  BY <1>1, <1>6 DEF FormsInv, ParamsOK, ColumnWritten
<1>. QED
  BY <1>6, <1>7, <1>8, <1>9, <1>10 DEF FormsInv

LEMMA Done == ASSUME FormsInv, Recorded PROVE FormsInv'
<1>1. /\ ShapeOK /\ Step /\ Now = "event" /\ form.kind \in {"edit", "add"} /\ form.at = "busy"
      /\ Tail(form.todo) = <<>>
  BY Order DEF FormsInv, Recorded, Step, ShapeOK
<1>2. form' = [kind |-> form.kind, at |-> "saved", id |-> form.id, seen |-> form.seen,
               vals |-> form.vals, todo |-> Tail(form.todo)]
  BY <1>1 DEF Recorded, ShapeOK
<1>3. trail \subseteq trail' /\ trail' \subseteq trail \cup {"user"} /\ lost' \in BOOLEAN /\ (lost => lost')
      /\ (lost' \/ "user" \in trail')
  BY <1>1 DEF Recorded, Log, ShapeOK
<1>4. /\ ShapeOK' /\ Passed' = Passed \cup {"event"}
      /\ form'.kind = form.kind /\ form'.at = "saved" /\ form'.id = form.id /\ form'.seen = form.seen
      /\ form'.vals = form.vals
  BY <1>1, <1>2, <1>3, Advanced DEF Recorded, ShapeOK
<1>5. TrailOK'
  BY <1>1, <1>3, <1>4 DEF FormsInv, TrailOK, Recorded
<1>6. EditOK'
  <2>1. /\ EditTyped' = EditTyped
        /\ \A d : (Wanted(d)' <=> Wanted(d)) /\ Entered(d)' = Entered(d)
    BY <1>4 DEF EditTyped, Wanted, Entered
  <2>2. "event" \notin Columns
    BY DEF Columns
  <2>. QED
    BY <1>1, <1>4, <2>1, <2>2 DEF FormsInv, EditOK, Recorded
<1>7. AddOK' /\ ParamsOK'
  BY <1>1, <1>4 DEF FormsInv, AddOK, ParamsOK, Recorded, AddTyped, Taken
<1>. QED
  BY <1>4, <1>5, <1>6, <1>7 DEF FormsInv

LEMMA Checked == ASSUME FormsInv, CheckFree PROVE FormsInv'
<1>1. ShapeOK /\ Step /\ Now = "free" /\ form.kind = "add" /\ form.at = "busy" /\ Passed = {}
  BY Order DEF FormsInv, CheckFree, Step, ShapeOK, Columns
<1>2. CASE Refuse
  BY <1>1, <1>2, Refused DEF CheckFree
<1>3. CASE Taken(form.vals.name) = {} /\ Advance(form)
  <2>1. form' = [kind |-> form.kind, at |-> "busy", id |-> form.id, seen |-> form.seen,
                 vals |-> form.vals, todo |-> Tail(form.todo)]
    BY <1>1, <1>3 DEF Advance, ShapeOK
  <2>2. /\ ShapeOK' /\ Passed' = {"free"}
        /\ form'.kind = "add" /\ form'.at = "busy" /\ form'.vals = form.vals
    BY <1>1, <2>1, Advanced DEF CheckFree, ShapeOK, formHistory
  <2>3. TrailOK' /\ EditOK' /\ ParamsOK'
    BY <1>1, <2>2 DEF FormsInv, TrailOK, EditOK, ParamsOK, CheckFree, formHistory
  <2>4. AddOK'
    BY <1>1, <1>3, <2>2 DEF FormsInv, AddOK, AddTyped, Taken, CheckFree, formHistory
  <2>. QED
    BY <2>2, <2>3, <2>4 DEF FormsInv
<1>. QED
  BY <1>2, <1>3 DEF CheckFree

LEMMA Inserted == ASSUME FormsInv, Insert PROVE FormsInv'
<1>1. /\ ShapeOK /\ Step /\ Now = "insert" /\ form.kind = "add" /\ form.at = "busy"
      /\ Passed = {"free"}
  BY Order DEF FormsInv, Insert, Step, ShapeOK, Columns
<1>2. /\ form.vals \in AddTyped /\ form.vals.name \in Names /\ form.vals.pw = "mine"
      /\ foreign \cap Columns = {} => Taken(form.vals.name) = {}
  <2>1. form.vals \in AddTyped /\ (foreign \cap Columns = {} => Taken(form.vals.name) = {})
    BY <1>1 DEF FormsInv, AddOK
  <2>. QED
    BY <2>1 DEF AddTyped, NewRow, NoRow
<1>3. ASSUME NEW i \in Ids, Advance([form EXCEPT !.id = i]), users' \in [Ids -> UserRows],
             done' \in {done, done \cup {"pw"}},
             foreign \cap Columns = {} => users'[i].name = form.vals.name /\ users'[i].pw = form.vals.pw
      PROVE  FormsInv'
  <2>1. [form EXCEPT !.id = i] = [kind |-> form.kind, at |-> form.at, id |-> i, seen |-> form.seen,
                                  vals |-> form.vals, todo |-> form.todo]
    BY <1>1 DEF ShapeOK
  <2>2. form' = [kind |-> form.kind, at |-> "busy", id |-> i, seen |-> form.seen,
                 vals |-> form.vals, todo |-> Tail(form.todo)]
    BY <1>1, <1>3, <2>1 DEF Advance
  <2>3. /\ ShapeOK' /\ Passed' = {"free", "insert"}
        /\ form'.kind = "add" /\ form'.at = "busy" /\ form'.vals = form.vals /\ form'.id = i
    BY <1>1, <1>3, <2>2, Advanced DEF Insert, ShapeOK
  <2>4. TrailOK'
    <3>1. "pw" \in Columns /\ "pw" \notin Params
      BY FormsAssumption DEF Columns, Params
    <3>. QED
      BY <1>1, <1>3, <2>3, <3>1 DEF FormsInv, TrailOK, Insert
  <2>5. EditOK' /\ ParamsOK'
    BY <1>1, <2>3 DEF FormsInv, EditOK, ParamsOK, Insert
  <2>6. AddOK'
    BY <1>1, <1>2, <1>3, <2>3 DEF FormsInv, AddOK, AddTyped, Insert
  <2>. QED
    BY <2>3, <2>4, <2>5, <2>6 DEF FormsInv
<1>4. CASE /\ NextId \in Ids
           /\ users' = [users EXCEPT ![NextId] = NewRow(form.vals.name, form.vals.pw)]
           /\ Advance([form EXCEPT !.id = NextId])
           /\ done' = done \cup {"pw"}
  <2>1. /\ NewRow(form.vals.name, form.vals.pw) \in UserRows
        /\ NewRow(form.vals.name, form.vals.pw).name = form.vals.name
        /\ NewRow(form.vals.name, form.vals.pw).pw = form.vals.pw
    BY <1>2, RowTypes DEF Data
  <2>2. users' \in [Ids -> UserRows] /\ users'[NextId] = NewRow(form.vals.name, form.vals.pw)
    BY <1>1, <1>4, <2>1 DEF ShapeOK
  <2>. QED
    BY <1>3, <1>4, <2>1, <2>2
<1>5. ASSUME NEW i \in Taken(form.vals.name), Advance([form EXCEPT !.id = i]), UNCHANGED <<users, done>>
      PROVE  FormsInv'
  <2>1. i \in Ids /\ users' \in [Ids -> UserRows] /\ foreign \cap Columns # {}
    BY <1>1, <1>2, <1>5 DEF Taken, ShapeOK
  <2>. QED
    BY <1>3, <1>5, <2>1
<1>6. CASE Refuse /\ UNCHANGED <<users, done>>
  BY <1>1, <1>6, Refused DEF Insert, formHistory
<1>. QED
  BY <1>4, <1>5, <1>6 DEF Insert

(* A parameter whose turn it is *)
LEMMA ParamStep ==
  ASSUME FormsInv, NEW k \in Params,
         ParamKept(k) \/ ParamWritten(k) \/ ParamRefused(k)
  PROVE  FormsInv'
<1>1. ShapeOK /\ Step /\ Now = k /\ form.kind = "params" /\ form.at = "busy"
  BY DEF FormsInv, ParamKept, ParamWritten, ParamRefused, Setting, Step
<1>2. \A j \in Params : form.vals[j] # "BAD"
  BY <1>1 DEF FormsInv, ParamsOK
<1>3. CASE ParamRefused(k)
  BY <1>1, <1>3, Refused DEF ParamRefused
<1>. DEFINE a == IF Len(form.todo) = 1 THEN "saved" ELSE "busy"
<1>4. a \in {"busy", "saved"} /\ (a = "saved" => Tail(form.todo) = <<>>)
  <2>1. form.todo \in Seq(Marks) /\ form.todo # <<>>
    BY <1>1, Steps
  <2>2. Len(form.todo) = 1 => Tail(form.todo) \in Seq(Marks) /\ Len(Tail(form.todo)) = 0
    BY <2>1
  <2>3. \A t \in Seq(Marks) : Len(t) = 0 => t = <<>>
    OBVIOUS
  <2>. QED
    BY <2>2, <2>3
<1>5. CASE ParamKept(k)
  <2>1. form' = [kind |-> form.kind, at |-> a, id |-> form.id, seen |-> form.seen,
                 vals |-> form.vals, todo |-> Tail(form.todo)]
    BY <1>1, <1>5 DEF ParamKept, Finished, ShapeOK
  <2>. HIDE DEF a
  <2>2. /\ ShapeOK' /\ Passed' = Passed \cup {k}
        /\ form'.kind = "params" /\ form'.at = a /\ form'.seen = form.seen /\ form'.vals = form.vals
    BY <1>1, <1>4, <1>5, <2>1, Advanced DEF ParamKept, ShapeOK, formHistory
  <2>3. TrailOK' /\ EditOK' /\ AddOK'
    BY <1>1, <1>5, <2>2 DEF FormsInv, TrailOK, EditOK, AddOK, ParamKept, formHistory
  <2>4. ParamsOK'
    BY <1>1, <1>5, <2>2 DEF FormsInv, ParamsOK, ParamKept, formHistory
  <2>. QED
    BY <2>2, <2>3, <2>4 DEF FormsInv
<1>6. CASE ParamWritten(k)
  <2>. DEFINE s == [form.seen EXCEPT ![k] = form.vals[k]]
  <2>1. /\ form.seen = [j \in Params |-> form.seen[j]] /\ params = [j \in Params |-> params[j]]
        /\ \A j \in Params \ foreign : params[j] = form.seen[j]
        /\ \A j \in Passed : form.seen[j] = form.vals[j]
    BY <1>1 DEF FormsInv, ParamsOK
  <2>2. /\ s = [j \in Params |-> s[j]] /\ s[k] = form.vals[k] /\ \A j \in Params \ {k} : s[j] = form.seen[j]
    BY <2>1
  <2>3. /\ params' = [j \in Params |-> params'[j]] /\ params'[k] = form.vals[k]
        /\ \A j \in Params \ {k} : params'[j] = params[j]
    BY <1>6, <2>1 DEF ParamWritten
  <2>4. [form EXCEPT !.seen[k] = form.vals[k]] =
          [kind |-> form.kind, at |-> form.at, id |-> form.id, seen |-> s, vals |-> form.vals, todo |-> form.todo]
    BY <1>1 DEF ShapeOK
  <2>. HIDE DEF s
  <2>5. form' = [kind |-> form.kind, at |-> a, id |-> form.id, seen |-> s,
                 vals |-> form.vals, todo |-> Tail(form.todo)]
    BY <1>1, <1>6, <2>4 DEF ParamWritten, Finished
  <2>6. lost' \in BOOLEAN /\ trail \subseteq trail' /\ trail' \subseteq trail \cup {k}
        /\ (lost => lost') /\ (lost' \/ k \in trail') /\ done' = done \cup {k} /\ k # "user"
    <3>1. k # "user"
      BY <1>1, Order
    <3>2. Log(k) /\ done' = done \cup {k} /\ lost \in BOOLEAN
      BY <1>1, <1>6 DEF ParamWritten, ShapeOK
    <3>3. CASE trail' = trail \cup {k} /\ UNCHANGED lost
      BY <3>1, <3>2, <3>3
    <3>4. CASE lost' = TRUE /\ UNCHANGED trail
      BY <3>1, <3>2, <3>4
    <3>. QED
      BY <3>2, <3>3, <3>4 DEF Log
  <2>. HIDE DEF a
  <2>7. /\ ShapeOK' /\ Passed' = Passed \cup {k}
        /\ form'.kind = "params" /\ form'.at = a /\ form'.seen = s /\ form'.vals = form.vals
    BY <1>1, <1>4, <1>6, <2>5, <2>6, Advanced DEF ParamWritten, ShapeOK
  <2>8. TrailOK' /\ EditOK' /\ AddOK'
    BY <1>1, <2>6, <2>7 DEF FormsInv, TrailOK, EditOK, AddOK
  <2>9. ParamsOK'
    <3>1. Passed \subseteq Params /\ foreign' = foreign \ {k}
      BY <1>1, <1>6, Plans, FormsAssumption DEF ParamWritten, Passed, Params
    <3>. QED
      BY <1>1, <1>2, <2>1, <2>2, <2>3, <2>7, <3>1 DEF FormsInv, ParamsOK
  <2>. QED
    BY <2>7, <2>8, <2>9 DEF FormsInv
<1>. QED
  BY <1>3, <1>5, <1>6

-----------------------------------------------------------------------------
(* Others write while the form is open *)

(* The form itself stays as it is.                                         *)
LEMMA Unmoved ==
  ASSUME form' = form
  PROVE  /\ Plan' = Plan /\ Passed' = Passed /\ EditTyped' = EditTyped /\ AddTyped' = AddTyped
         /\ \A c : (Wanted(c)' <=> Wanted(c)) /\ Entered(c)' = Entered(c)
  BY DEF Plan, Passed, EditTyped, AddTyped, Wanted, Entered

(* A row is changed: at most these columns if the form concerns it.        *)
Touched(i, n, cols) ==
  /\ form.kind \in {"edit", "add"}
  /\ cols \in SUBSET Columns
  /\ Meddle(i, n, cols)
  /\ users' \in [Ids -> UserRows] /\ moves' \in Nat
  /\ \A j \in Ids \ {i} : users'[j] = users[j]
  /\ form.kind = "edit" /\ i = form.id => \A d \in Columns \ cols : users'[i][d] = users[i][d]
  /\ form.kind = "add" /\ form.at # "prompt" =>
       \/ n = form.vals.name /\ cols # {}
       \/ users[i].name # form.vals.name /\ users'[i].name # form.vals.name

LEMMA Meddled == ASSUME FormsInv, NEW i \in Ids, NEW n, NEW cols, Touched(i, n, cols) PROVE FormsInv'
<1>1. form' = form /\ UNCHANGED <<params, trail, done, before, lost>> /\ foreign \subseteq foreign'
  BY DEF Touched, Meddle
<1>2. /\ Plan' = Plan /\ Passed' = Passed /\ EditTyped' = EditTyped /\ AddTyped' = AddTyped
      /\ \A c : (Wanted(c)' <=> Wanted(c)) /\ Entered(c)' = Entered(c)
  BY <1>1, Unmoved
<1>3. ShapeOK'
  BY <1>1, <1>2 DEF Touched, FormsInv, ShapeOK, Marks, Columns, Params
<1>4. TrailOK' /\ ParamsOK'
  BY <1>1, <1>2 DEF FormsInv, TrailOK, ParamsOK
<1>5. EditOK'
  <2>. SUFFICES ASSUME form.kind = "edit" PROVE EditOK'
    BY <1>1 DEF EditOK
  <2>1. EditOK /\ form.id \in Ids
    BY DEF FormsInv, EditOK
  <2>2. \A d \in Columns \ foreign' : users'[form.id][d] = users[form.id][d]
    BY <2>1 DEF Touched, Meddle, Concerns
  <2>3. {"req", "lock"} \subseteq Columns
    BY DEF Columns
  <2>. QED
    BY <1>1, <1>2, <2>1, <2>2, <2>3 DEF EditOK
<1>6. AddOK'
  <2>. SUFFICES ASSUME form.kind = "add", form.at # "prompt" PROVE AddOK'
    BY <1>1 DEF AddOK
  <2>1. AddOK /\ form.vals \in AddTyped
    BY DEF FormsInv, AddOK
  <2>2. CASE n = form.vals.name /\ cols # {}
    <3>1. foreign' \cap Columns # {}
      BY <2>2 DEF Touched, Meddle, Concerns
    <3>. QED
      BY <1>1, <1>2, <2>1, <3>1 DEF AddOK
  <2>3. CASE users[i].name # form.vals.name /\ users'[i].name # form.vals.name
    <3>1. Taken(form.vals.name)' = Taken(form.vals.name)
      BY <1>1, <2>3 DEF Touched, Taken
    <3>2. ASSUME "insert" \in Passed, foreign' \cap Columns = {} PROVE users'[form.id] = users[form.id]
      <4>1. form.id \in Ids /\ users[form.id].name = form.vals.name
        BY <1>1, <2>1, <3>2 DEF AddOK
      <4>. QED
        BY <2>3, <4>1 DEF Touched
    <3>. QED
      BY <1>1, <1>2, <2>1, <3>1, <3>2 DEF AddOK
  <2>. QED
    BY <2>2, <2>3 DEF Touched
<1>. QED
  BY <1>3, <1>4, <1>5, <1>6 DEF FormsInv

LEMMA Moved == ASSUME FormsInv, OthersMove PROVE FormsInv'
<1>1. ShapeOK /\ moves' \in Nat /\ form.kind # "none" /\ users \in [Ids -> UserRows]
  BY DEF FormsInv, ShapeOK, OthersMove
<1>2. form.kind = "add" /\ form.at # "prompt" => form.vals \in AddTyped /\ form.vals.name \in Names
  <2>1. form.kind = "add" /\ form.at # "prompt" => form.vals \in AddTyped
    BY DEF FormsInv, AddOK
  <2>. QED
    BY <2>1 DEF AddTyped, NewRow, NoRow
<1>3. ASSUME form.kind # "params", NEW i \in Ids, OthersWrite(i) PROVE FormsInv'
  <2>1. PICK c \in Columns :
          /\ users' = [users EXCEPT ![i][c] = IF c \in {"pw", "prof"} THEN "theirs" ELSE IF @ = "Y" THEN "N" ELSE "Y"]
          /\ Meddle(i, users[i].name, {c})
    BY <1>3 DEF OthersWrite
  <2>2. PICK v \in Values : users' = [users EXCEPT ![i][c] = v]
    <3>1. users' = [users EXCEPT ![i][c] = IF c \in {"pw", "prof"} THEN "theirs" ELSE IF users[i][c] = "Y" THEN "N" ELSE "Y"]
      BY <2>1
    <3>2. (IF c \in {"pw", "prof"} THEN "theirs" ELSE IF users[i][c] = "Y" THEN "N" ELSE "Y") \in Values
      BY DEF Values, Data
    <3>. QED
      BY <3>1, <3>2
  <2>3. OneColumn(users, users', i, c, v)
    BY <1>1, <2>2, Column
  <2>4. users' \in [Ids -> UserRows] /\ \A j \in Ids \ {i} : users'[j] = users[j]
    BY <1>1, <2>2, <2>3 DEF OneColumn
  <2>5. /\ {c} \in SUBSET Columns /\ {c} # {}
        /\ \A d \in Columns \ {c} : users'[i][d] = users[i][d]
        /\ form.kind = "add" => users[i].name = form.vals.name
    BY <1>3, <2>3 DEF OneColumn, OthersWrite, Concerns
  <2>6. Touched(i, users[i].name, {c})
    BY <1>1, <1>3, <2>1, <2>4, <2>5 DEF Touched, ShapeOK
  <2>. QED
    BY <2>6, Meddled
<1>4. ASSUME form.kind # "params", NEW i \in Ids, OthersDelete(i) PROVE FormsInv'
  <2>1. users' = [users EXCEPT ![i] = NoRow] /\ Meddle(i, users[i].name, Columns)
    BY <1>4 DEF OthersDelete
  <2>2. /\ users' \in [Ids -> UserRows] /\ users'[i] = NoRow /\ \A j \in Ids \ {i} : users'[j] = users[j]
    BY <1>1, <2>1, RowTypes
  <2>3. users'[i].name \notin Names /\ Columns # {} /\ Columns \ Columns = {}
    BY <2>2, FormsAssumption DEF NoRow, Columns
  <2>4. Touched(i, users[i].name, Columns)
    BY <1>1, <1>2, <1>4, <2>1, <2>2, <2>3 DEF Touched, ShapeOK
  <2>. QED
    BY <2>4, Meddled
<1>5. ASSUME form.kind # "params", NEW n \in Names, OthersCreate(n) PROVE FormsInv'
  <2>1. /\ NextId \in Ids /\ users' = [users EXCEPT ![NextId] = NewRow(n, "theirs")]
        /\ Meddle(NextId, n, Columns)
    BY <1>5 DEF OthersCreate
  <2>2. PICK i \in Ids : i = NextId /\ users[i].name = BlankField
    BY <2>1, NextIsFree
  <2>3. NewRow(n, "theirs") \in UserRows /\ NewRow(n, "theirs").name = n
    BY RowTypes DEF Data
  <2>4. users' \in [Ids -> UserRows] /\ users'[i].name = n /\ \A j \in Ids \ {i} : users'[j] = users[j]
    BY <1>1, <2>1, <2>2, <2>3
  <2>5. users[i].name \notin Names /\ Columns # {} /\ Columns \ Columns = {}
    BY <2>2, FormsAssumption DEF Columns
  <2>6. Touched(i, n, Columns)
    BY <1>1, <1>2, <1>5, <2>1, <2>2, <2>4, <2>5 DEF Touched, ShapeOK
  <2>. QED
    BY <2>6, Meddled
<1>6. ASSUME form.kind = "params", NEW k \in Params, OthersSet(k) PROVE FormsInv'
  <2>1. /\ form' = form /\ UNCHANGED <<users, trail, done, before, lost>>
        /\ foreign' = foreign \cup {k} /\ params' = [params EXCEPT ![k] = "theirs"]
    BY <1>6 DEF OthersSet
  <2>2. /\ Plan' = Plan /\ Passed' = Passed /\ EditTyped' = EditTyped /\ AddTyped' = AddTyped
        /\ \A c : (Wanted(c)' <=> Wanted(c)) /\ Entered(c)' = Entered(c)
    BY <2>1, Unmoved
  <2>3. ShapeOK'
    BY <1>1, <2>1, <2>2 DEF ShapeOK, Marks, Columns, Params
  <2>4. TrailOK' /\ EditOK' /\ AddOK'
    BY <1>6, <2>1, <2>2 DEF FormsInv, TrailOK, EditOK, AddOK
  <2>5. ParamsOK'
    BY <1>6, <2>1, <2>2 DEF FormsInv, ParamsOK
  <2>. QED
    BY <2>3, <2>4, <2>5 DEF FormsInv
<1>. QED
  BY <1>3, <1>4, <1>5, <1>6 DEF OthersMove

-----------------------------------------------------------------------------
LEMMA NextForms == FormsInv /\ [FormsNext]_formVars => FormsInv'
<1>. SUFFICES ASSUME FormsInv, [FormsNext]_formVars PROVE FormsInv'
  OBVIOUS
<1>1. CASE (\E i \in Ids : OpenEdit(i)) \/ OpenAdd \/ OpenParams
  BY <1>1, Opened
<1>2. CASE CloseForm
  BY <1>2, Closed
<1>3. CASE Stay
  BY <1>3, Stayed
<1>4. CASE SubmitEdit \/ SubmitAdd \/ SubmitParams \/ SubmitRejected
  BY <1>4, Submitted
<1>5. ASSUME NEW c \in Columns, ColumnKept(c) \/ ColumnRefused(c) \/ ColumnWritten(c) PROVE FormsInv'
  <2>1. CASE ColumnRefused(c)
    <3>1. form.kind # "none" /\ form.at # "saved"
      BY <2>1 DEF ColumnRefused, Editing, Step
    <3>. QED
      BY <2>1, <3>1, Refused DEF ColumnRefused
  <2>. QED
    BY <1>5, <2>1, Kept, Written
<1>6. CASE Recorded \/ CheckFree \/ Insert
  BY <1>6, Done, Checked, Inserted
<1>7. ASSUME NEW k \in Params, ParamKept(k) \/ ParamWritten(k) \/ ParamRefused(k) PROVE FormsInv'
  BY <1>7, ParamStep
<1>8. CASE OthersMove
  BY <1>8, Moved
<1>9. CASE UNCHANGED formVars
  <2>1. UNCHANGED formHistory /\ form' = form /\ users' = users /\ params' = params
    BY <1>9 DEF formVars, formHistory
  <2>2. /\ Plan' = Plan /\ Passed' = Passed /\ EditTyped' = EditTyped /\ AddTyped' = AddTyped
        /\ \A c : (Wanted(c)' <=> Wanted(c)) /\ Entered(c)' = Entered(c)
    BY <2>1, Unmoved
  <2>3. ShapeOK' /\ TrailOK'
    BY <2>1, <2>2 DEF FormsInv, ShapeOK, TrailOK, Marks, Columns, Params, formHistory
  <2>4. EditOK' /\ AddOK' /\ ParamsOK'
    BY <2>1, <2>2 DEF FormsInv, EditOK, AddOK, ParamsOK, Taken, formHistory
  <2>. QED
    BY <2>3, <2>4 DEF FormsInv
<1>. QED
  BY <1>1, <1>2, <1>3, <1>4, <1>5, <1>6, <1>7, <1>8, <1>9 DEF FormsNext

LEMMA FormsHolds == FormsSpec => []FormsInv
  BY InitForms, NextForms, PTL DEF FormsSpec

(* What a form that is over has gone through                               *)
LEMMA AllPassed ==
  ASSUME FormsInv, form.at = "saved"
  PROVE  /\ form.kind = "edit" => Columns \subseteq Passed
         /\ form.kind = "add" => {"insert", "prof"} \subseteq Passed
         /\ form.kind = "params" => Params \subseteq Passed
         /\ form.kind \in {"edit", "add"} => "prof" \in Passed
<1>1. form.todo = <<>> /\ Len(Plan) \in Nat
  BY Plans DEF FormsInv, ShapeOK
<1>2. Passed = {Plan[i] : i \in 1 .. Len(Plan)}
  <2>1. Len(Plan) - Len(<<>>) = Len(Plan)
    BY <1>1
  <2>. QED
    BY <1>1, <2>1 DEF Passed
<1>3. form.kind = "edit" => Columns \subseteq Passed
  <2>. SUFFICES ASSUME form.kind = "edit" PROVE Columns \subseteq Passed
    OBVIOUS
  <2>1. Plan = EditPlan /\ Len(Plan) = 6
    BY Plans
  <2>2. Plan[1] = "pw" /\ Plan[2] = "prof" /\ Plan[3] = "req" /\ Plan[4] = "secret" /\ Plan[5] = "lock"
    BY <2>1 DEF EditPlan
  <2>. QED
    BY <1>2, <2>1, <2>2 DEF Columns
<1>4. form.kind = "add" => {"insert", "prof"} \subseteq Passed
  <2>. SUFFICES ASSUME form.kind = "add" PROVE {"insert", "prof"} \subseteq Passed
    OBVIOUS
  <2>1. Plan = AddPlan /\ Len(Plan) = 4
    BY Plans
  <2>2. Plan[2] = "insert" /\ Plan[3] = "prof"
    BY <2>1 DEF AddPlan
  <2>. QED
    BY <1>2, <2>1, <2>2
<1>5. form.kind = "params" => Params \subseteq Passed
  <2>. SUFFICES ASSUME form.kind = "params" PROVE Params \subseteq Passed
    OBVIOUS
  <2>1. Plan = Keys /\ DOMAIN Keys = 1 .. Len(Keys)
    BY Plans, FormsAssumption
  <2>. QED
    BY <1>2, <2>1 DEF Params
<1>. QED
  BY <1>3, <1>4, <1>5 DEF Columns

(* SavedAsSubmitted: a form that reports success has stored what was       *)
(* submitted (userSaveEdit, userCreate and systemParams).                  *)
THEOREM Saved == FormsSpec => []SavedAsSubmitted
<1>1. FormsInv => SavedAsSubmitted
  <2>. SUFFICES ASSUME FormsInv PROVE SavedAsSubmitted
    OBVIOUS
  <2>1. ShownIsStored
    BY DEF FormsInv, ParamsOK, ShownIsStored
  <2>2. ASSUME form.at = "saved", form.kind = "edit", NEW c \in Columns \ foreign,
               Wanted(c) \/ c \in {"req", "lock"} \ before
        PROVE  users[form.id][c] = Entered(c)
    BY <2>2, AllPassed DEF FormsInv, EditOK
  <2>3. ASSUME form.at = "saved", form.kind = "add", Columns \cap foreign = {}
        PROVE  form.id \in Taken(form.vals.name) /\ users[form.id].pw = form.vals.pw
               /\ users[form.id].prof = form.vals.prof
    BY <2>3, AllPassed DEF FormsInv, AddOK, Taken
  <2>4. ASSUME form.at = "saved", form.kind = "params", NEW k \in Params \ foreign
        PROVE  params[k] = form.vals[k]
    BY <2>4, AllPassed DEF FormsInv, ParamsOK
  <2>. QED
    BY <2>1, <2>2, <2>3, <2>4 DEF SavedAsSubmitted
<1>. QED
  BY <1>1, FormsHolds, PTL

(* AuditExact: the trail tells of the changes that were made, and of no    *)
(* other (recordAdmin, "so the trail reflects reality").                   *)
THEOREM Audited == FormsSpec => []AuditExact
<1>1. FormsInv => AuditExact
  <2>. SUFFICES ASSUME FormsInv PROVE AuditExact
    OBVIOUS
  <2>1. "user" \notin Columns \cup Params
    BY FormsAssumption DEF Columns, Params
  <2>2. "user" \in trail => form.at = "saved" /\ "prof" \in done
    BY AllPassed DEF FormsInv, TrailOK
  <2>. QED
    BY <2>1, <2>2 DEF FormsInv, TrailOK, AuditExact
<1>. QED
  BY <1>1, FormsHolds, PTL

(* OthersKept: what others changed under the form is overwritten only by   *)
(* an administrator who entered another value than the form showed         *)
(* (the comparisons of applyMFAEdit, applyLockEdit and systemParams).      *)
THEOREM Spared == FormsSpec => OthersKept
<1>. DEFINE Overwritten ==
       moves' = moves /\ form'.kind # "none" =>
         /\ \A i \in Ids, c \in foreign \cap {"pw", "req", "lock"} :
              users[i].name # BlankField /\ users'[i][c] # users[i][c] =>
                form.kind = "edit" /\ form.vals[c] # IF c = "pw" THEN BlankField ELSE form.seen[c]
         /\ \A k \in foreign \cap Params :
              params'[k] # params[k] => form.vals[k] # form.seen[k]
<1>1. FormsInv /\ [FormsNext]_formVars => [Overwritten]_formVars
  <2>. SUFFICES ASSUME FormsInv, FormsNext, moves' = moves, form'.kind # "none" PROVE Overwritten
    OBVIOUS
  <2>1. ShapeOK
    BY DEF FormsInv
  <2>2. ASSUME NEW c \in Columns, ColumnWritten(c) PROVE Overwritten
    <3>1. ShapeOK /\ Step /\ Now = c /\ form.kind \in {"edit", "add"} /\ Wanted(c) /\ Editing(c)
          /\ ~Malformed(c) /\ params' = params
      BY <2>1, <2>2 DEF ColumnWritten, Editing
    <3>2. form.id \in Ids /\ Entered(c) \in Values /\ (form.kind = "add" => c = "prof")
      BY <3>1, EnteredTypes
    <3>3. PICK i \in Ids, v \in Values : users' = [users EXCEPT ![i][c] = v]
      BY <2>2, <3>2 DEF ColumnWritten
    <3>4. OneColumn(users, users', i, c, v)
      BY <2>1, <3>3, Column DEF ShapeOK
    <3>5. ASSUME NEW j \in Ids, NEW d \in foreign \cap {"pw", "req", "lock"}, users'[j][d] # users[j][d]
          PROVE  form.kind = "edit" /\ form.vals[d] # IF d = "pw" THEN BlankField ELSE form.seen[d]
      <4>1. d = c
        BY <3>4, <3>5 DEF OneColumn, Columns
      <4>. QED
        BY <3>1, <3>2, <3>5, <4>1 DEF Wanted
    <3>. QED
      BY <3>1, <3>5
  <2>3. CASE Insert
    <3>1. params' = params
      BY <2>3 DEF Insert
    <3>2. CASE users' = users
      BY <3>1, <3>2
    <3>3. CASE NextId \in Ids /\ users' = [users EXCEPT ![NextId] = NewRow(form.vals.name, form.vals.pw)]
      <4>1. PICK i \in Ids : i = NextId /\ users[i].name = BlankField
        BY <3>3, NextIsFree
      <4>2. \A j \in Ids \ {i} : users'[j] = users[j]
        BY <2>1, <3>3, <4>1 DEF ShapeOK
      <4>. QED
        BY <3>1, <4>1, <4>2
    <3>. QED
      BY <2>3, <3>2, <3>3 DEF Insert
  <2>4. ASSUME NEW k \in Params, ParamWritten(k) PROVE Overwritten
    <3>1. users' = users /\ form.vals[k] # form.seen[k] /\ params' = [params EXCEPT ![k] = form.vals[k]]
      BY <2>4 DEF ParamWritten
    <3>2. \A j \in Params \ {k} : params'[j] = params[j]
      BY <3>1 DEF FormsInv, ParamsOK
    <3>. QED
      BY <3>1, <3>2
  <2>5. ~CloseForm
    BY DEF CloseForm, NoForm
  <2>6. ~OthersMove
    BY <2>1 DEF OthersMove, ShapeOK
  <2>7. CASE users' = users /\ params' = params
    BY <2>7
  <2>. HIDE DEF Overwritten
  <2>8. ASSUME (\E i \in Ids : OpenEdit(i)) \/ OpenAdd \/ OpenParams \/ Stay \/ SubmitEdit \/ SubmitAdd
               \/ SubmitParams \/ SubmitRejected \/ Recorded \/ CheckFree
        PROVE  Overwritten
    BY <2>7, <2>8 DEF OpenEdit, OpenAdd, OpenParams, OpenForm, Stay, SubmitEdit, SubmitAdd, SubmitParams,
                     SubmitRejected, Recorded, CheckFree, Begin
  <2>9. ASSUME NEW c \in Columns, ColumnKept(c) \/ ColumnRefused(c) PROVE Overwritten
    BY <2>7, <2>9 DEF ColumnKept, ColumnRefused
  <2>10. ASSUME NEW k \in Params, ParamKept(k) \/ ParamRefused(k) PROVE Overwritten
    BY <2>7, <2>10 DEF ParamKept, ParamRefused
  <2>. QED
    BY <2>2, <2>3, <2>4, <2>5, <2>6, <2>8, <2>9, <2>10 DEF FormsNext
<1>. QED
  BY <1>1, FormsHolds, PTL DEF FormsSpec, OthersKept
=============================================================================
