------------------------------- MODULE Forms -------------------------------
(***************************************************************************)
(* The forms an administrator fills in (internal/ui3270/form.go): editing  *)
(* and adding a user (userEdit, userCreate, userSaveEdit, applyMFAEdit,    *)
(* applyLockEdit of internal/server/admin_users.go) and the system         *)
(* parameters (admin_system.go).  A submit is a sequence of statements     *)
(* against the store, each of which may fail, with an audit event written  *)
(* best effort; other administrators and the users themselves write the    *)
(* same rows between any two of them.                                      *)
(*                                                                         *)
(* Abstractions.  One administrator is followed; of all others only the    *)
(* writes are seen, one column at a time, at most MaxMoves of them while   *)
(* a form is open.  A password, the profile (full name and mail address)   *)
(* and a parameter have the value they had when the form was opened (old), *)
(* the administrator's (mine) or somebody else's (theirs).  Opening a form *)
(* is the fetch of the row it shows.                                       *)
(* What is refused before anything is written (passwords that do not       *)
(* match, a bad mail address, an unconfirmed wipe) is SubmitRejected.      *)
(***************************************************************************)
EXTENDS Integers, Sequences, FiniteSets

CONSTANTS
  MaxId,      \* bound on the row ids of the users table
  Names,      \* user names
  Keys,       \* the order of the parameters in sysconfig.Catalog
  Canonical,  \* parameters with a Normalize
  MaxMoves    \* bound on the writes of others while a form is open

BlankField == ""

ASSUME FormsAssumption ==
  /\ MaxId \in Nat \ {0} /\ MaxMoves \in Nat
  /\ Names # {} /\ BlankField \notin Names
  /\ Keys \in Seq(STRING) /\ \A i, j \in DOMAIN Keys : Keys[i] = Keys[j] => i = j
  /\ \A i \in DOMAIN Keys :  \* none is called like a column, a step or an event
       Keys[i] \notin {"pw", "prof", "req", "secret", "lock", "free", "insert", "event", "user"}

VARIABLES
  users,    \* the users table: id |-> row
  params,   \* the system_config table
  form,     \* the form on the terminal
  trail,    \* events this form has put into the audit log
  done,     \* history: columns this form has written
  before,   \* history: those that earlier submits of this form had written
  foreign,  \* history: columns and keys that others changed under the form
  lost,     \* history: an audit event of this form could not be stored
  moves     \* writes of others since the form was opened

formVars == <<users, params, form, trail, done, before, foreign, lost, moves>>
formHistory == <<trail, done, before, foreign, lost, moves>>

Ids == 1 .. MaxId
Params == {Keys[i] : i \in DOMAIN Keys}
Columns == {"pw", "prof", "req", "secret", "lock"}
Data == {"old", "mine", "theirs"}

(* A row; with no name it is none.  Flags are Y or N, and secret is Y when *)
(* the user is enrolled.                                                   *)
NoRow == [name |-> BlankField, pw |-> "old", prof |-> "old", req |-> "N", secret |-> "N", lock |-> "N"]
NewRow(n, p) == [NoRow EXCEPT !.name = n, !.pw = p]

(* The form: seen is the row it was opened with, or the parameters it      *)
(* shows; vals is what was submitted; todo is what the submit has left.    *)
NoForm == [kind |-> "none", at |-> "prompt", id |-> 0, seen |-> NoRow, vals |-> NoRow, todo |-> <<>>]

(* The databases a form may be opened on: one user, each flag Y or N, or   *)
(* two of them.  What happens between two forms is not followed.           *)
First == CHOOSE n \in Names : TRUE

Flags == {<<"N", "N", "N">>, <<"Y", "N", "N">>, <<"N", "Y", "N">>, <<"Y", "Y", "Y">>}

Databases ==
  {[i \in Ids |-> IF i = 1 THEN [NewRow(First, "old") EXCEPT !.req = f[1], !.secret = f[2], !.lock = f[3]]
                  ELSE NoRow] : f \in Flags}
  \cup {[i \in Ids |-> IF i = 1 THEN NewRow(First, "old") ELSE IF i = 2 THEN NewRow(n, "old") ELSE NoRow] :
         n \in Names \ {First}}

FormsInit ==
  /\ users \in Databases
  /\ params = [k \in Params |-> "old"]
  /\ form = NoForm
  /\ trail = {} /\ done = {} /\ before = {} /\ foreign = {} /\ lost = FALSE /\ moves = 0

Taken(n) == {i \in Ids : users[i].name = n}

(* The rowid SQLite gives the next row: one above the highest *)
NextId == IF \E i \in Ids : users[i].name # BlankField
          THEN 1 + CHOOSE i \in Ids : users[i].name # BlankField /\ \A j \in Ids : users[j].name # BlankField => j <= i
          ELSE 1

-----------------------------------------------------------------------------
(* Opening and leaving *)

OpenForm(f, unread) ==
  /\ form.kind = "none"
  /\ form' = f
  /\ foreign' = unread
  /\ UNCHANGED <<users, params, trail, done, before, lost, moves>>

(* userEdit on a row of the list *)
OpenEdit(i) ==
  /\ users[i].name # BlankField
  /\ OpenForm([NoForm EXCEPT !.kind = "edit", !.id = i, !.seen = users[i], !.vals = users[i]], {})

(* userEdit without a row *)
OpenAdd == OpenForm([NoForm EXCEPT !.kind = "add"], {})

(* systemParams: a parameter that cannot be read shows its default. *)
OpenParams ==
  \E unread \in SUBSET Params :
    OpenForm([NoForm EXCEPT !.kind = "params",
                        !.seen = [k \in Params |-> IF k \in unread THEN "default" ELSE params[k]],
                        !.vals = [k \in Params |-> "old"]],
         unread)

(* PF3, the terminal going away, or the end of a saved form *)
CloseForm ==
  /\ form.kind # "none"
  /\ form.at = "prompt" \/ (form.at = "saved" /\ form.kind # "params")
  /\ form' = NoForm
  /\ users' \in Databases
  /\ params' = [k \in Params |-> "old"]
  /\ trail' = {} /\ done' = {} /\ before' = {} /\ foreign' = {} /\ lost' = FALSE /\ moves' = 0

(* The parameters form stays after a save (StayOnSave). *)
Stay ==
  /\ form.kind = "params" /\ form.at = "saved"
  /\ form' = [form EXCEPT !.at = "prompt", !.vals = form.seen]
  /\ UNCHANGED <<users, params, formHistory>>

-----------------------------------------------------------------------------
(* Submitting *)

EditTyped ==
  [name : {form.seen.name}, pw : {BlankField, "mine"}, prof : {"mine"},
   req : {"Y", "N", "Q"}, secret : {BlankField, "Y"}, lock : {"Y", "N", "Q"}]

AddTyped == {[NewRow(n, "mine") EXCEPT !.prof = "mine"] : n \in Names}

(* MINE is the administrator's value, not in canonical form; BAD is one    *)
(* that Validate refuses.                                                  *)
ParamTyped == {v \in [Params -> {"old", "default", "mine", "MINE", "BAD"}] :
                 \A k \in Params : v[k] \in {form.seen[k], "mine", "MINE", "BAD"}}

Normalize(k, v) == IF v = "MINE" /\ k \in Canonical THEN "mine" ELSE v

Begin(v, steps) ==
  /\ form' = [form EXCEPT !.at = "busy", !.vals = v, !.todo = steps]
  /\ before' = done
  /\ UNCHANGED <<users, params, trail, done, foreign, lost, moves>>

(* A parameter is normalized, and all of them validated, before the first  *)
(* is stored.                                                              *)
SubmitParams ==
  /\ form.kind = "params" /\ form.at = "prompt"
  /\ \E v \in ParamTyped :
       /\ \A k \in Params : v[k] # "BAD"
       /\ Begin([k \in Params |-> Normalize(k, v[k])], Keys)

SubmitEdit ==
  /\ form.kind = "edit" /\ form.at = "prompt"
  /\ \E v \in EditTyped : Begin(v, <<"pw", "prof", "req", "secret", "lock", "event">>)

SubmitAdd ==
  /\ form.kind = "add" /\ form.at = "prompt"
  /\ \E v \in AddTyped : Begin(v, <<"free", "insert", "prof", "event">>)

(* The screen again, with a message: nothing more of the submit is done.   *)
Refuse == form' = [form EXCEPT !.at = "prompt", !.todo = <<>>, !.vals = form.seen]

SubmitRejected ==
  /\ form.kind # "none" /\ form.at = "prompt"
  /\ Refuse
  /\ UNCHANGED <<users, params, formHistory>>

Step == form.at = "busy" /\ form.todo # <<>>
Now == Head(form.todo)
Advance(f) == form' = [f EXCEPT !.todo = Tail(@)]

(* An audit event, best effort *)
Log(e) == \/ trail' = trail \cup {e} /\ UNCHANGED lost
          \/ lost' = TRUE /\ UNCHANGED trail

NoLog == UNCHANGED <<trail, lost>>

-----------------------------------------------------------------------------
(* userSaveEdit, column by column *)

Editing(c) == Step /\ form.kind \in {"edit", "add"} /\ Now = c /\ c \in Columns

(* applyMFAEdit and applyLockEdit look at their field when their turn      *)
(* comes, after the columns before it have been written.                   *)
Malformed(c) == c \in {"req", "lock"} /\ form.vals[c] = "Q"

(* Mutant: the settings lock is written whether or not it was changed. *)
Wanted_LockAlways(c) ==
  \/ c = "pw" /\ form.vals.pw # BlankField
  \/ c = "prof"
  \/ c = "req" /\ form.vals.req # form.seen.req
  \/ c = "secret" /\ form.vals.secret = "Y"
  \/ c = "lock"

(* The flags are compared with the row the form was opened with, not with  *)
(* what an earlier submit has stored.                                      *)
Wanted(c) ==
  \/ c = "pw" /\ form.vals.pw # BlankField
  \/ c = "prof"
  \/ c = "req" /\ form.vals.req # form.seen.req
  \/ c = "secret" /\ form.vals.secret = "Y"
  \/ c = "lock" /\ form.vals.lock # form.seen.lock

Entered(c) == IF c = "secret" THEN "N" ELSE form.vals[c]

(* The event of its own that a change of a column has *)
HasEvent(c, v) == (c = "req" /\ v = "Y") \/ c \in {"secret", "lock"}

ColumnKept(c) ==
  /\ Editing(c) /\ ~Malformed(c) /\ ~Wanted(c)
  /\ Advance(form)
  /\ UNCHANGED <<users, params, formHistory>>

(* Mutant: the event is logged before the statement that may fail. *)
ColumnRefused_Logged(c) ==
  /\ Editing(c) /\ (Malformed(c) \/ Wanted(c))
  /\ Refuse
  /\ IF HasEvent(c, Entered(c)) THEN Log(c) ELSE NoLog
  /\ UNCHANGED <<users, params, done, before, foreign, moves>>

(* A bad flag, or a statement that fails *)
ColumnRefused(c) ==
  /\ Editing(c) /\ (Malformed(c) \/ Wanted(c))
  /\ Refuse
  /\ UNCHANGED <<users, params, formHistory>>

ColumnWritten(c) ==
  /\ Editing(c) /\ ~Malformed(c) /\ Wanted(c)
  /\ users[form.id].name # BlankField
  /\ users' = [users EXCEPT ![form.id][c] = Entered(c)]
  /\ done' = done \cup {c}
  /\ IF HasEvent(c, Entered(c)) THEN Log(c) ELSE NoLog
  /\ Advance(form)
  /\ UNCHANGED <<params, before, foreign, moves>>

(* recordAdmin, and the form is done *)
Recorded ==
  /\ Step /\ Now = "event"
  /\ Log("user")
  /\ form' = [form EXCEPT !.at = "saved", !.todo = <<>>]
  /\ UNCHANGED <<users, params, done, before, foreign, moves>>

-----------------------------------------------------------------------------
(* userCreate *)

(* Mutant: the name is not looked up, as CreateUser is idempotent. *)
CheckFree_Skipped ==
  /\ Step /\ Now = "free"
  /\ Advance(form)
  /\ UNCHANGED <<users, params, formHistory>>

CheckFree ==
  /\ Step /\ Now = "free"
  /\ \/ Taken(form.vals.name) = {} /\ Advance(form)
     \/ Refuse
  /\ UNCHANGED <<users, params, formHistory>>

(* CreateUser inserts or ignores: a name that was taken meanwhile keeps    *)
(* its row and its password, and yields that row's id.                     *)
Insert ==
  /\ Step /\ Now = "insert"
  /\ \/ /\ Taken(form.vals.name) = {} /\ NextId \in Ids
        /\ users' = [users EXCEPT ![NextId] = NewRow(form.vals.name, form.vals.pw)]
        /\ Advance([form EXCEPT !.id = NextId])
        /\ done' = done \cup {"pw"}
     \/ \E i \in Taken(form.vals.name) : Advance([form EXCEPT !.id = i]) /\ UNCHANGED <<users, done>>
     \/ Refuse /\ UNCHANGED <<users, done>>
  /\ UNCHANGED <<params, trail, before, foreign, lost, moves>>

-----------------------------------------------------------------------------
(* systemParams *)

Setting(k) == Step /\ form.kind = "params" /\ Now = k

Finished(f) == [f EXCEPT !.todo = Tail(@), !.at = IF Len(f.todo) = 1 THEN "saved" ELSE "busy"]

ParamKept(k) ==
  /\ Setting(k) /\ form.vals[k] = form.seen[k]
  /\ form' = Finished(form)
  /\ UNCHANGED <<users, params, formHistory>>

(* The value is stored and audited, and becomes the one the form shows. *)
ParamWritten(k) ==
  /\ Setting(k) /\ form.vals[k] # form.seen[k]
  /\ params' = [params EXCEPT ![k] = form.vals[k]]
  /\ done' = done \cup {k}
  /\ Log(k)
  /\ form' = Finished([form EXCEPT !.seen[k] = form.vals[k]])
  /\ foreign' = foreign \ {k}
  /\ UNCHANGED <<users, before, moves>>

ParamRefused(k) ==
  /\ Setting(k) /\ form.vals[k] # form.seen[k]
  /\ Refuse
  /\ UNCHANGED <<users, params, formHistory>>

-----------------------------------------------------------------------------
(* Others, while a form is open *)

(* The form is on this row, or about to be. *)
Concerns(i, n) == (form.kind = "edit" /\ i = form.id) \/ (form.kind = "add" /\ n = form.vals.name)

Meddle(i, n, columns) ==
  /\ foreign' = IF Concerns(i, n) THEN foreign \cup columns ELSE foreign
  /\ UNCHANGED <<params, form, trail, done, before, lost>>

OthersWrite(i) ==
  /\ users[i].name # BlankField /\ Concerns(i, users[i].name)
  /\ \E c \in Columns :
       /\ users' = [users EXCEPT ![i][c] = IF c \in {"pw", "prof"} THEN "theirs" ELSE IF @ = "Y" THEN "N" ELSE "Y"]
       /\ Meddle(i, users[i].name, {c})

OthersDelete(i) ==
  /\ users[i].name # BlankField
  /\ users' = [users EXCEPT ![i] = NoRow]
  /\ Meddle(i, users[i].name, Columns)

OthersCreate(n) ==
  /\ Taken(n) = {} /\ NextId \in Ids
  /\ users' = [users EXCEPT ![NextId] = NewRow(n, "theirs")]
  /\ Meddle(NextId, n, Columns)

OthersSet(k) ==
  /\ params' = [params EXCEPT ![k] = "theirs"]
  /\ foreign' = foreign \cup {k}
  /\ UNCHANGED <<users, form, trail, done, before, lost>>

OthersMove ==
  /\ form.kind # "none" /\ form.at # "saved"
  /\ moves < MaxMoves /\ moves' = moves + 1
  /\ \/ form.kind # "params" /\ \E i \in Ids : OthersWrite(i) \/ OthersDelete(i)
     \/ form.kind # "params" /\ \E n \in Names : OthersCreate(n)
     \/ form.kind = "params" /\ \E k \in Params : OthersSet(k)

-----------------------------------------------------------------------------
FormsNext ==
  \/ \E i \in Ids : OpenEdit(i)
  \/ OpenAdd \/ OpenParams \/ CloseForm \/ Stay
  \/ SubmitEdit \/ SubmitAdd \/ SubmitParams \/ SubmitRejected
  \/ \E c \in Columns : ColumnKept(c) \/ ColumnRefused(c) \/ ColumnWritten(c)
  \/ Recorded \/ CheckFree \/ Insert
  \/ \E k \in Params : ParamKept(k) \/ ParamWritten(k) \/ ParamRefused(k)
  \/ OthersMove

FormsSpec == FormsInit /\ [][FormsNext]_formVars

-----------------------------------------------------------------------------
(* Properties *)

(* The parameters form shows what is stored, after a save cut short by a   *)
(* failing statement too, but for what others changed or could not be      *)
(* read; and no submit with a malformed parameter is stored in part.       *)
ShownIsStored ==
  form.kind = "params" =>
    /\ form.at = "prompt" => \A k \in Params \ foreign : params[k] = form.seen[k]
    /\ \A k \in Params : params[k] # "BAD"

(* SavedAsSubmitted: when a form reports success the store holds what was  *)
(* submitted, but for what others changed under it, and the parameters     *)
(* form shows what is stored.  A flag of the user form is excepted once an *)
(* earlier submit, refused after its write, had stored it: the comparison  *)
(* in Wanted is then with the wrong value (userSaveEdit, userCreate, and   *)
(* "all-or-nothing" and "keep in-slice value current" of systemParams).    *)
SavedAsSubmitted ==
  /\ ShownIsStored
  /\ form.at = "saved" /\ form.kind = "edit" =>
       \A c \in Columns \ foreign :
         Wanted(c) \/ c \in {"req", "lock"} \ before => users[form.id][c] = Entered(c)
  /\ form.at = "saved" /\ form.kind = "add" /\ Columns \cap foreign = {} =>
       \E i \in Taken(form.vals.name) :
         users[i].pw = form.vals.pw /\ users[i].prof = form.vals.prof
  /\ form.at = "saved" /\ form.kind = "params" =>
       \A k \in Params \ foreign : params[k] = form.vals[k]

(* OthersKept: a password, a flag or a parameter that others changed while *)
(* the form was open is overwritten only by an administrator who entered   *)
(* another value than the form showed.  The profile is always written.  An *)
(* account found in place of the one to add keeps what it has but for the  *)
(* profile (INSERT OR IGNORE in CreateUser).                               *)
OthersKept ==
  [][ moves' = moves /\ form'.kind # "none" =>
        /\ \A i \in Ids, c \in foreign \cap {"pw", "req", "lock"} :
             users[i].name # BlankField /\ users'[i][c] # users[i][c] =>
               form.kind = "edit" /\ form.vals[c] # IF c = "pw" THEN BlankField ELSE form.seen[c]
        /\ \A k \in foreign \cap Params :
             params'[k] # params[k] => form.vals[k] # form.seen[k] ]_formVars

(* AuditExact: the trail never tells of a change that was not made, and    *)
(* unless an insert failed it tells of every change that has an event of   *)
(* its own, of every parameter, and of every user form that was saved      *)
(* (recordAdmin: "so the trail reflects reality").  Passwords and profiles *)
(* stored by a submit that was then refused and abandoned are not told.    *)
AuditExact ==
  /\ \A e \in trail \cap (Columns \cup Params) : e \in done
  /\ "user" \in trail => form.at = "saved" /\ "prof" \in done
  /\ ~lost =>
       /\ done \cap (Params \cup {"secret", "lock"}) \subseteq trail
       /\ form.at = "saved" /\ form.kind \in {"edit", "add"} => "user" \in trail
=============================================================================
