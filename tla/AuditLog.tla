------------------------------ MODULE AuditLog ------------------------------
(***************************************************************************)
(* The audit table and those who read it: RecordAudit, ListAudit and       *)
(* PruneAudit (internal/store/audit.go), the Recent Activity panel         *)
(* (internal/server/admin_audit.go) and the commands `audit list` and      *)
(* `audit prune` (cmd/tn3270proxy/audit.go), beside sessions that record.  *)
(*                                                                         *)
(* Time runs in half seconds and is stored, and compared, in whole ones;   *)
(* an event is stamped before it is inserted, so stamps and ids need not   *)
(* agree in their order.                                                   *)
(*                                                                         *)
(* Abstractions.  Of the columns the subject and the actor are kept; the   *)
(* kind is filtered as they are.  A read that fails lists nothing and is   *)
(* left out.  The panel reads its cap when it is opened and uses it on     *)
(* every Enter; here each list may have any.                               *)
(***************************************************************************)
EXTENDS Sorted, SequencesExt

CONSTANTS
  Recorders,            \* sessions and commands that record
  Accounts, NoAccount,  \* NoAccount is ""
  Entries,              \* what is recorded: <<subject, actor>>
  auditWindow,          \* 72 hours, in half seconds
  Ages,                 \* durations an operator may type, in half seconds
  Garbled,              \* a value that does not parse
  RowsValues,           \* what AUDIT_MAX_ROWS may hold
  TopAuditRows, DefaultAuditMaxRows,  \* its upper bound, its default
  Limits,               \* values of -limit
  defaultLimit,         \* 100, for those that are not positive
  MaxTime, MaxEvents    \* bounds on the clock and on the events of a behaviour

ASSUME AuditLogAssumption ==
  /\ Entries \subseteq (Accounts \cup {NoAccount}) \X (Accounts \cup {NoAccount})
  /\ auditWindow \in Nat /\ Ages \subseteq Nat /\ Garbled \notin Ages
  /\ TopAuditRows \in Nat /\ DefaultAuditMaxRows \in 1 .. TopAuditRows
  /\ Limits \subseteq Int /\ defaultLimit \in Nat \ {0}
  /\ MaxTime \in Nat /\ MaxEvents \in Nat

VARIABLES
  time,       \* the clock
  stamped,    \* the event each recorder is about to insert, if any
  events,     \* the audit table
  lastID,     \* its AUTOINCREMENT sequence
  shown       \* the list the last step wrote, if it did: whose, its filter and rows, and whether
              \* it says NEWEST

auditVars == <<time, stamped, events, lastID, shown>>

Nothing == [subject |-> NoAccount, actor |-> NoAccount, happened |-> -1]
NoList == [panel |-> FALSE, subject |-> NoAccount, actor |-> NoAccount, since |-> -1, limit |-> -1,
           rows |-> <<>>, newest |-> FALSE]

(* Format(time.RFC3339) drops the fraction of a second. *)
InSeconds(t) == t \div 2

AuditInit ==
  /\ time = 0
  /\ stamped = [r \in Recorders |-> Nothing]
  /\ events = {}
  /\ lastID = 0
  /\ shown = NoList

Tick ==
  /\ time < MaxTime
  /\ time' = time + 1
  /\ shown' = NoList
  /\ UNCHANGED <<stamped, events, lastID>>

-----------------------------------------------------------------------------
(* storeAuditor.Record takes the time ... *)
Stamp(r) ==
  /\ stamped[r] = Nothing /\ lastID < MaxEvents
  /\ \E entry \in Entries :
       stamped' = [stamped EXCEPT ![r] = [subject |-> entry[1], actor |-> entry[2], happened |-> time]]
  /\ shown' = NoList
  /\ UNCHANGED <<time, events, lastID>>

(* ... and inserts; an insert that fails is logged and dropped. *)
RecordAudit(r) ==
  /\ stamped[r] # Nothing /\ lastID < MaxEvents
  /\ \/ /\ lastID' = lastID + 1
        /\ events' = events \cup {[id |-> lastID + 1, at |-> InSeconds(stamped[r].happened),
                                   subject |-> stamped[r].subject, actor |-> stamped[r].actor,
                                   happened |-> stamped[r].happened]}
     \/ UNCHANGED <<lastID, events>>
  /\ stamped' = [stamped EXCEPT ![r] = Nothing]
  /\ shown' = NoList
  /\ UNCHANGED time

-----------------------------------------------------------------------------
(* Lists *)

(* The WHERE clause; no name and no time are no constraint. *)
Selected(subject, actor, since) ==
  {e \in events : /\ subject # NoAccount => e.subject = subject
                  /\ actor # NoAccount => e.actor = actor
                  /\ since >= 0 => e.at >= InSeconds(since)}

(* Limit <= 0 means the default. *)
Capped(limit) == IF limit <= 0 THEN defaultLimit ELSE limit

(* ListAudit: newest first, at most as many as the limit says              *)
ListAudit(subject, actor, since, limit) ==
  LET selected == Selected(subject, actor, since)
      ordered == SortedBy(selected, [e \in selected |-> -e.id])
      n == Capped(limit)
  IN SubSeq(ordered, 1, IF n < Len(ordered) THEN n ELSE Len(ordered))

auditCap(v) == IF v = Garbled \/ v \notin 1 .. TopAuditRows THEN DefaultAuditMaxRows ELSE v

(* Times before the clock began are the time it began. *)
Ago(d) == IF d > time THEN 0 ELSE time - d

(* Mutation of RecentActivity: one row more is not asked for. *)
RecentActivityExactLimit ==
  \E v \in RowsValues :
    LET evs == ListAudit(NoAccount, NoAccount, Ago(auditWindow), auditCap(v))
    IN /\ shown' = [panel |-> TRUE, subject |-> NoAccount, actor |-> NoAccount, since |-> Ago(auditWindow),
                    limit |-> auditCap(v), rows |-> evs, newest |-> Len(evs) > auditCap(v)]
       /\ UNCHANGED <<time, stamped, events, lastID>>

(* auditLog's Fetch, on Enter: one row more than the cap shows whether     *)
(* there are more.                                                         *)
RecentActivity ==
  \E v \in RowsValues :
    LET evs == ListAudit(NoAccount, NoAccount, Ago(auditWindow), auditCap(v) + 1)
        over == Len(evs) > auditCap(v)
    IN /\ shown' = [panel |-> TRUE, subject |-> NoAccount, actor |-> NoAccount, since |-> Ago(auditWindow),
                    limit |-> auditCap(v),
                    rows |-> IF over THEN SubSeq(evs, 1, auditCap(v)) ELSE evs, newest |-> over]
       /\ UNCHANGED <<time, stamped, events, lastID>>

(* runAuditList: a -since that does not parse is refused, none is no bound. *)
AuditList ==
  \E subject, actor \in Accounts \cup {NoAccount}, d \in Ages \cup {Garbled, -1}, limit \in Limits :
    /\ d # Garbled
    /\ LET since == IF d = -1 THEN -1 ELSE Ago(d)
       IN shown' = [panel |-> FALSE, subject |-> subject, actor |-> actor, since |-> since, limit |-> limit,
                    rows |-> ListAudit(subject, actor, since, limit), newest |-> FALSE]
    /\ UNCHANGED <<time, stamped, events, lastID>>

-----------------------------------------------------------------------------
(* Retention *)

(* PruneAudit's WHERE clause *)
Expired(before) == {e \in events : e.at < InSeconds(before)}

(* runAuditPrune: an age is required, must parse and be positive. *)
AuditPrune ==
  \E d \in Ages \cup {Garbled} :
    /\ d # Garbled /\ d # 0
    /\ events' = events \ Expired(Ago(d))
    /\ shown' = NoList
    /\ UNCHANGED <<time, stamped, lastID>>

AuditNext ==
  \/ Tick \/ RecentActivity \/ AuditList \/ AuditPrune
  \/ \E r \in Recorders : Stamp(r) \/ RecordAudit(r)

AuditSpec == AuditInit /\ [][AuditNext]_auditVars

-----------------------------------------------------------------------------
(* Properties *)

(* The events of a list's filter that happened in its time *)
Due(subject, actor, since) ==
  {e \in events : subject \in {NoAccount, e.subject} /\ actor \in {NoAccount, e.actor} /\ e.happened >= since}

(* The list L is in order, and leaves out what is due only when it is full *)
(* of later inserts.                                                       *)
Complete(L, due, n) ==
  /\ \A i, j \in DOMAIN L : i < j => L[i].id > L[j].id
  /\ due \ ToSet(L) # {} => Len(L) = n /\ \A e \in due \ ToSet(L), f \in ToSet(L) : e.id < f.id

(* So is the list l that was written, and a panel's title tells of it.     *)
Told(l) ==
  LET missed == Due(l.subject, l.actor, l.since) \ ToSet(l.rows)
  IN /\ Complete(l.rows, Due(l.subject, l.actor, l.since), Capped(l.limit))
     /\ l.panel => /\ missed # {} => l.newest
                   /\ l.newest => \E e \in events \ ToSet(l.rows) : e.at >= InSeconds(l.since)

(* No event goes missing: a list holds every event of its filter that      *)
(* happened in its time, half seconds counted, unless it is full of later  *)
(* inserts, of which the panel's title tells (and never without cause);    *)
(* and a prune spares every event younger than the shortest age that could *)
(* have been asked for (auditLog, runAuditList, runAuditPrune).            *)
AuditLogExact ==
  [][/\ shown' # NoList => Told(shown')
     /\ \A e \in events \ events' : \E d \in Ages \ {0} : time - e.happened > d]_auditVars
=============================================================================
