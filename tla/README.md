# tn3270proxy: specifications, model checking and proofs

tn3270proxy is a gateway for 3270 terminals. A user connects (plain or TLS),
logs in, perhaps shows a TOTP code, picks a service from a menu, and is bridged
to a mainframe until the backend closes or the user presses the escape key.
Administrators manage accounts, groups, services, trusted networks, documents
and live sessions from admin screens inside the same sessions. State is one
SQLite database.

These are the TLA+ modules kept beside the code. Every module is written from
the sources under `src/`; `PROJECT.json` maps each definition to its lines.

    cd tla
    tlasany Server.tla                        # parse
    tlc -workers 2 -config MCServer.cfg MCServer
    tlapm ServerProofs.tla

## 1. The system

| Part (sources) | State | Operations | Interacts with | What makes it correct |
|---|---|---|---|---|
| Listeners and limiter (`server/server.go`, `limiter.go`) | semaphore, per-address counts, error Once | accept, admit, refuse, release, first error closes all | trusted networks at accept; a goroutine per session | slots and counts balance on every path; the error reported is the root cause; ServeAll returns; a waiting connection is served |
| Trusted networks (`server/trust.go`, `store/trusted_networks.go`) | rows, read at every check | lookup, edit | limiter, session | a failing read trusts nobody; whoever asks twice copes with two answers |
| Session (`server/session.go`, `idleconn.go`) | phase, regime, user, rights | login, gates, menu, bridge, logoff, timeouts | registry, audit, store, bridge | regime fits the phase; a closed connection ends its session; unauthenticated connections do not stay |
| Registry (`server/registry.go`, `admin_sessions.go`) | id to live session | register, update, snapshot, disconnect | all sessions, administrators | the list is true; a disconnect hits the session shown |
| Audit (`server/auditor.go`, `store/audit.go`, `admin_audit.go`, `cmd/tn3270proxy/audit.go`) | events | stamp, insert, list, prune | sessions, forms, the Recent Activity panel, two commands | events bracket logins and bridges and name the right user; no list drops an event silently; a prune spares what is young |
| Bridge (`bridge/bridge.go`) | two relays, result channel, deadlines | dial, copy, interrupt, hand back | session's connection, Telnet filter | teardown completes; the client comes back clean; the cause is the root cause; neither relay splits what the other writes |
| Telnet filter (`bridge/telnet.go`) | parser state per direction | process a chunk | bridge | data exact however chunks are cut; the escape never reaches the backend; answers exact |
| Throttle (`server/auththrottle.go`) | failure counts, last sweep | fail, reset, sweep | every login and code prompt | counts are streaks; the delay is never lost to overflow |
| Password, MFA (`auth`, `mfa/totp.go`, `session.go`) | users row: secret, floor, required, locked | login, gate, enrol, verify, self-service, reset | throttle, administrators | no menu without the code; a code works once; nobody is shut out for longer than the skew |
| Admin screens (`server/admin*.go`) and store tables (`store/store.go`, `admin.go`) | users, groups, services, memberships, grants | list, create, rename, delete, grant, revoke | each other, through stale screens | no dangling grants, reserved groups fixed, an administrator left |
| Forms (`ui3270/form.go`, `admin_users.go`, `admin_system.go`) and system parameters (`sysconfig`, `store`) | a form, the row it was opened with, the columns written so far | submit column by column, refuse, retry, log | other administrators, users, the audit trail | success means stored; the trail tells of what was done; other people's changes survive |
| Panel library (`ui3270`), documents (`store/documents.go`) | page, pending confirm, working copy | page, prompt, commit, edit, save | rows and documents others change | only the prompted row is committed; every row reachable; edits mean what they say |
| Menu, presenters and screens (`screens`, `server/presenter.go`, `server/services.go`) | services as drawn, page, document being read | pick, page, read MOTD and help, draw on any terminal | grants that administrators change | the number typed is the service beside it; every line of a screen has a row of its own; no line of the MOTD is lost |
| Configuration and sockets (`config`, `listen`, `cmd/tn3270proxy/main.go`) | settings from four places, listeners | load, validate, bind, clean up | other programs on the ports, the store | what is up listens exactly as configured; what fails holds nothing |
| Startup and commands (`cmd/tn3270proxy`, `store/migrate.go`, `seed`, `quickstart`) | schema version, defaults, sentinel, files | open and migrate, serve, bootstrap, seed, quickstart, reset-all | one database, several processes | snapshot before upgrade; what is up can open its secrets; no half-provisioned directory passes for a whole one |
| Logging, version, dummy host | none of interest | output | | not modelled |

Hard behaviours. *Concurrency*: accept loops and sessions share the limiter;
sessions share the registry, the throttle and rows of the store; a bridge has
two goroutines on two connections. *Staleness*: every admin screen, MFA gate,
menu and settings screen acts on a row read before a human answered. *Failure*:
listeners fail, peers drop or stop reading, sessions panic, one statement of
several fails, commands are killed between two writes. *Time*: pre-auth
ceiling, idle windows, deadlines set in the past on purpose, throttle windows,
TOTP steps, events stamped before they are stored. `PROJECT.json` lists the
forty hazards, each at the line where it bites, with the properties that would
catch it.

## 2. The modules

State and actions carry the names of the code where they can.

**Admission, Server.** `Admission` is what a connection limit promises: a set
of connections being served, entered only below both caps. `Server` is the
code: one loop per listener (`lpc`, `held`, `lerr`), the semaphore `slots`,
`perIP`, the connections and the `sync.Once` of `record`. `Acquire` precedes
`Accept`; `Admit`, `Reject`/`RejectRelease` and `AcceptError` are the three
continuations; `RecordFirst`, `CloseListener`, `CloseAllDone`, `RecordLater`
are the failure path; `SessionEnds`, `HandleReleaseIP`, `HandleReleaseGlobal`
are the deferred calls of `handle` (a panic runs them too). The trust verdict
is any value at any accept: each check reads the rows, which are edited
meanwhile, and a read that fails trusts nobody.

**Session.** Connection goroutines over their whole life, from `Connect`
(trust, register, regime, connect event) through negotiation, login, the MFA
and news gates, menu, admin and settings screens and bridge, to `End`,
`Deregister` and `CloseConn`. `reg` is the registry, `trail` what the audit log
has open for the connection, `view` an administrator's SESSION DETAIL screen:
`SelectSession`, `ArmDisconnect`, `DisconnectLookup` and `DisconnectClose` are
separate steps, since sessions come and go between them. What the store answers
(rights, MFA state, MOTD) is free each time it is asked.

**Bridge.** `main` walks `Bridge` (dial, wait, cut both, drain, restore),
each `relay` walks arm, read, reply, forward. A chunk is the set of its effects
(reply, forward, escape); `dl` is the deadline of a connection, armed by
`idleConn` unless an explicit one is in force. Peers send, close and stop
reading; the window runs out.

**Telnet, Relay.** `Telnet` is `process` byte by byte, so that all chunkings
are covered at once. The peer sends whole commands (`Wire`): data, escaped
IACs, EOR, negotiations, terminal-type requests below, at and above the cap,
broken subnegotiations. What arrives is compared, at command boundaries, with
what each command means. `Relay` puts two such processors on the two
connections of a bridge: each connection is written by both goroutines, answers
by the one that reads it and forwarded data by the other, in any order, each
`Write` whole unless the connection is cut.

**Throttle, Auth.** `Throttle` has the entries with their lazy decay and sweep
and, as history, the times of all failures. `Auth` extends it with the users
row of one account, sessions that log in, pass or fail the gate, enrol and use
self-service, and administrators who edit, delete and recreate the row. A
session keeps the row as it last loaded it (`u`), as the code does.

**Admin.** Administrators on one database: each step is one store call or one
answer of the operator, on a row kept from the list as it was fetched. Ids are
reused the way SQLite does (highest id plus one). Guards (`Guard`: self,
last administrator) and removals (`Act`) are separate, as they are in the code.

**Forms.** The user form and the parameters form: a submit is the list of
statements it has left (`todo`), each of which may fail or be refused, with its
event; `seen` is the row the form was opened with, which is what flags are
compared with. Between any two statements others write the same rows.

**Panels.** `RunList`, `RunSnapshotList` and `RunEditor` driven by one terminal
(`Press`), with other administrators changing the rows (`Others`) and importing
documents (`Import`). A list's page, pending confirm and message, and the
editor's working copy, are variables because the drivers keep them.

**Screens, Menu.** `Screens` is the row arithmetic: for each builder, the set of
lines it puts on a terminal of a given size. `Menu` is the dialogue from login
to logoff that shows them: the MOTD page by page with its gate on the last, the
service menu with its paging and help, picking a number, and the screens behind
`0` and `A`, while administrators change the grants.

**Startup, Deployment.** `Startup` is the commands over one database: `Open` is
split into version check, snapshot, one migration with its stamp, reference
check and default rows; then the key check and sentinel of `serve`, the two
writes of `reset-all`, the steps of `bootstrap`, `seed` and `quickstart`. `Kill`
cuts any of them anywhere, and they are run again by either build and with any
key. `Deployment` is what comes before and after `Open` in `serve`: defaults,
file, flags and environment merged into a configuration (`mergeFile`,
`Configured`), its validation, and `Build`, which binds one port, loads the
certificate, binds the other and closes what it has when it fails.

**AuditLog.** Recorders that stamp and then insert (or fail to), the two lists
with their filters, window and cap, and `audit prune`. The clock runs in half
seconds, the table in whole ones.

**Sorted.** `ORDER BY`, as the statements of the store use it, said by ranks
rather than by sorting, so that it can be reasoned about.

Composition. `Auth` composes the throttle with logins and is proved to
implement it; `Session` composes sessions with registry, audit and the admin's
close; `Bridge` includes the idle regime; `Relay` composes two Telnet
processors with the connections between them; `Menu` uses the layout of
`Screens`; `Server` refines `Admission`. The seams are abstract: `Server`'s
"serving" is `Session`'s life, `Session`'s "bridge" phase is `Bridge`, a chunk
of `Bridge` is what `Telnet` makes of bytes, the gate of `Session` is `Auth`,
the open step of `Deployment` is `Startup`.

Four runs hold modules that share no variable: `session` (`Session`, `Menu`),
`terminal` (`Telnet`, `Relay`, `Panels`), `forms` (`Forms`, `AuditLog`) and
`startup` (`Startup`, `Deployment`, `Throttle`). A variable of the MC module
(`subject`), fixed at the start, says which one a behaviour follows while the
others rest, so the state spaces add up instead of multiplying.

The proofs are in `ServerProofs`, `SessionProofs`, `BridgeProofs` (with Telnet
and Relay), `AuthProofs` (with Throttle), `AdminProofs`, `StartupProofs` (with
Deployment) and `TerminalProofs` (AuditLog, Panels, Menu, Screens, Forms);
`Recursion` has the lemmas on recursive functions and flattened sequences.

## 3. The runs

| Run | Instance | Shows |
|---|---|---|
| `server` | 2 listeners, 2 connections, 1 attributable address and the unattributable one, 2 slots, per-address cap 1 | `TypeOK`, `SlotAccounting`, `PerIPAccounting`, `RootCauseReported`, `ImplementsAdmission`; with sessions that end, `BacklogServed` and `ServeAllReturns` |
| `server_shutdown` | the same, sessions may stay | `ServeAllReturns` fails (section 6) |
| `session` | 2 concurrent sessions, 3 connections, 2 users, 1 service, bridges exempt from the window. Menu: terminals of 24, 43 and 20 rows, 2 groups with up to 17, 18 and 39 services | `RegimeMatchesPhase`, `RegistryTruthful`, `AuditTruthful`, `DisconnectHitsTarget`; `ScreenFits`, `PickExact`, `NewsRead` |
| `session_liveness` | the same with 1 user, and fairness | `ClosedSessionEnds`, `PreAuthBounded` |
| `bridge` | 1 chunk per peer per bridge, either peer may stop reading, unlimited re-bridging | `CleanHandback`, `CauseIsRootCause`, `TeardownCompletes`, `ClientGoneEndsBridge` |
| `terminal` | processor: 4 commands, data bytes that equal an AID and a command code, cap 3. Relays: every stream of up to 2 of 7 commands from each end. Panels: 5 rows, pages of 2, documents of up to 3 marks and 3 lines | `EscapeContained`, `PayloadExact`, `AnswersExact`; `HeardExact`; `PromptedCommit`, `ListPaging`, `EditExact` |
| `auth` | 1 session, 2 accounts in succession, 2 secrets, administrators | `MfaEnforced`, `FloorNotAhead`, `FloorIsHighest` |
| `auth_replay` | 2 sessions of one user | `FloorIsHighest` fails (section 6) |
| `admin` | 2 administrators, 3 user names for 2 ids, 2 reserved and 1 plain group, 1 service | `NoDanglingGrants`, `LastAdminUnlessCrossed` |
| `forms` | 2 rows, 2 names, 2 parameters, 2 writes of others. Audit: 2 recorders, 2 events, 1½ seconds, lists of 1 or 2 rows and one asked for with limit 0, which means the default | `SavedAsSubmitted`, `AuditExact`, `OthersKept`; `AuditLogExact` |
| `panels_paging` | the panels of `terminal` | `SnapshotPaging` fails (section 6) |
| `startup` | database: 2 keys, 1 user, builds 2 and 3, every earlier database. Deployment: 2 ports, files with at most one setting changed from 4 base files, at most one flag, 3 environments. Throttle: 2 names, window 2, four windows of time, 3 failures per streak | `SecretsOpen`, `InstallationSound`; `ServesAsConfigured`; `ThrottleExact` |

Types are part of what a run checks where the properties rely on them
(`RegistryTruthful`, `CleanHandback`, `NoDanglingGrants` and
`InstallationSound` begin with their module's `TypeOK`). Every property has a
mutant in `PROJECT.json`: a one-line change of a mapped definition that TLC
finds to break it; the mutants stand in the modules beside what they change.

What the less obvious properties say. `HeardExact`: each end reads the other's
data and its own answers, in their orders and never one inside the other, until
a write is cut. `ScreenFits`: no line of a screen is written over another or
below the terminal, and no field of a form is left out. `PickExact`: a number
leads to the service that stood beside it, which the user's groups had when the
menu was drawn. `EditExact`: prefix commands given at once do to every line what
each says of it, and what is saved reads back as the lines on the screen.
`SavedAsSubmitted`: when a form reports success, the store has what was typed,
save for columns others changed. `OthersKept`: what others changed under a form
is overwritten only by a value that was typed. `AuditExact`: no event without
its change, and no change with an event of its own without that event unless an
insert failed. `ServesAsConfigured`: a `serve` that is up holds exactly the
sockets called for, one that is down holds none. `AuditLogExact`: a list leaves
out an event that is due only when it is full of later inserts, and then the
panel says so; a prune removes nothing younger than asked.

Bounds and why they are enough. Two actors of a kind are what a race needs;
three connections over two goroutines are what the reuse of a goroutine while
an administrator looks at the earlier connection needs; two ids for three names
make ids come back; five rows on pages of two give a first, a middle and a
short last page; the cap of three bytes stands for 1024, with payloads below,
at and above it; one chunk per peer lets the other end be found before, in and
after each read and write, and bridges repeat without limit. A menu page of a
24-row terminal has 18 services for users and 17 for administrators, so 17, 18
and 39 fill a page less one, exactly and more than twice; documents end in a
blank page or exactly at a page's end; 20 rows is a terminal too small to be
believed. The two writes of others in `Forms` are what deleting and recreating
a row takes. Two commands per end put an answer and a piece of data on each
connection at once. In `Deployment` each setting is right, wrong and missing
against every kind of base file and beside every flag; settings interact in
pairs (a file's value and a flag, two addresses that may be equal). The clock of
`AuditLog` passes the window by half a second, so that events leave it on either
side of a whole second.

Connections in `Server` are reused, so its behaviours are unbounded. Counters
with a bound (`MaxConnects`, `MaxChunks`, `MaxCommands`, `MaxTraffic`,
`MaxFails`, `MaxClock`, `MaxIds`, `MaxId`, `MaxUsers`, `MaxGroups`,
`MaxServices`, `MaxSecrets`, `MaxDoc`, `MaxLines`, `MaxMoves`, `MaxTime`,
`MaxEvents`) are named constants in guards. Symmetry is used only in safety
runs (administrators and all names but the first administrator's in `admin`,
goroutines, users and groups with services in `session`, keys in `startup`); no
run with symmetry checks liveness. Deadlock is checked in
every run but `admin`: there, once the last administrator is removed and
everyone has logged out, nobody can do anything, and so it is in the code.
Where a system may rest, resting is an explicit step, so any other stop is
reported.

The `auth` instance has one session because two sessions of one user falsify
`FloorIsHighest`; the races it keeps are those with administrators. That the
other two hold for any number of sessions is proved (section 4), and so is
`FloorIsHighest` for one session, with any number of secrets and accounts.

Fairness. `Server`: running goroutines go on (weak), and a place in a Go
channel or a kernel's accept queue is handed out in order, so `Acquire` and
`Accept` are strongly fair; `FairSpec` adds that sessions end, `OpenEndedSpec`
does not. `Session`: a goroutine that does not wait for its client runs on, I/O
on a closed connection returns, the pre-auth ceiling is a deadline that nothing
moves; a user never has to press a key. A bridge whose client is gone returns,
*provided the backend takes what is written to it*: this is an assumption about
backends, justified in `Bridge` (`ClientGoneEndsBridge`) and false without it.
`Bridge`: relays and `Bridge` itself run on, dials end within `dialTimeout`,
time passes. Nothing makes a peer send, close or read. The other modules state
no liveness and no fairness.

## 4. The proofs

`tlapm` checks the following for every value of the constants that satisfies
the module's named assumption.

`ServerProofs` (assumption: finite sets, disjoint names, `MaxConns` positive).
`TypeCorrect`, `SlotsBalanced`, `PerIPBalanced`, `RootCause`, `Refinement`.
`TypeOK` alone is not inductive: that `releaseGlobal` does not go below zero
needs the accounting, and the accounting needs to know that a loop about to
dispatch holds an accepted connection that no other loop holds (`HeldOK`), and
that before the Once fires no listener is closed (`FailOK`).
`IndInv == TypeOK /\ HeldOK /\ FailOK /\ SlotAccounting /\ PerIPAccounting`;
one lemma per conjunct walks the actions, with two lemmas on cardinalities for
the sets of holders. Refinement uses `IndInv` to turn the test of a counter
into the cardinality `Admission` asks about.

`SessionProofs` (any number of goroutines, connections, users, services).
`RegimesMatch`, `RegistryTells`, `AuditTells`, `TargetHit`. The four properties
hold of each session by itself once it is said what its record, its trail, its
registry entry and the administrator's view have to do with one another
(`SlotOK`). What ties sessions together is their ids (`Numbered`): an id is
given out once, a live entry belongs to a session that has it, so an id an
administrator read long ago names that connection or nothing.

`BridgeProofs` (any number of chunks and of bridges, any peers that stall).
`Handback` and `FirstCause`. That nothing is left in the channel needs the
balance of reports sent, taken and outstanding (`ReportsInv`); that idle
enforcement is on again needs to know when it was suspended (`DeadlineInv`);
that the cause is the root cause needs every report made before the interrupt
to be one (`CauseInv`), a timeout (`IdleInv`) and an escape (`EscapeInv`)
included.

Its last part is about `Telnet` (assumption: bytes are bytes, a payload's wire
is its text with every IAC doubled, `Doubles`). `ProcessorTyped` and
`EscapeSafe`: no stream of commands lets an escape record through. Needs
`RecordStart`: `atRecStart` is true exactly when the forwarded stream is empty
or ends a record. `PayloadKept` (`PayloadExact`) and `AnswersMatch`
(`AnswersExact`), for any options, payloads of any length, any cap and any
number of commands: the two properties speak of command boundaries, so
`FilterInv` says what is true between them. `InPlace` follows the parser through
the command it is in: how many bytes of it are done, and inside a
subnegotiation how many bytes of its text have been collected, or were too many
(`Collected`). `ForwardedUpTo` and `AnsweredUpTo` hold the output to the
commands already done, one more each time a command ends (`Settles`).
`OnlyClientOffers` says why the user's leg never sends a terminal type: a peer
asks for one only once it has been offered.

`RelaysHeard` (`HeardExact`, any streams of commands, any chunks) puts two
processors on one pair of connections. What an endpoint hears is a recursive
function of all bytes on its wire, so `HearNext` and what follows from it say
first what one more byte, then one whole command, then a run of whole commands
adds to what has been heard (`Gains`): a run that begins where no command is
open ends where none is, and adds its data or its commands and nothing else.
The invariant then balances, for each end that no deadline has cut, what has
been heard against what is due: the data heard and the payload still in the
other relay's hands are the other end's data up to its first escape
(`DataBalance`), the answers heard and those still to be written are those it
asked for (`AnswerBalance`), and every `Write` begins at a command boundary
(`Whole`). The property follows: what is heard is a prefix of what is due, and
all of it when nothing is in hand.

`AuthProofs` has four parts. (1) The throttle. `DelayExact`: the clamped
product of `throttleDelay` is the mathematical product capped at an hour, for
all naturals, so the clamps cost nothing. `BackoffExact` (`ThrottleExact`): an
entry is the name's current streak, or gone with its window over (`EntryOK`),
by two lemmas on how a failure extends or starts the longest run of failures
closer than the window (`IsStreak`). `AuthThrottles`: every flow that checks a
password or a code implements `ThrottleSpec`; hence `BackoffHolds`.
(2) `FloorBounded`: for any number of sessions with stale rows the replay floor
is at most one step ahead of the clock. (3) `GateHolds`: nobody passes the MFA
gate without the code. `MfaEnforced` says nothing of sessions that have not
reached the menu yet, so `GateInv` adds what each session may rely on at the
gate and at the prompts behind it (`Passing`). The danger is a session
overtaken by another one that enrols: after that, the row would hold a secret
the first one never showed. It cannot come about because a secret is stored
only while it is fresh (`FreshOK`): it is not in the row, no session has logged
in under it, and no other session is enrolling it. There is one lemma for each
way a step changes a session and the row, and the actions are instances.
(4) `FloorKept`: with at most one session (`Alone`, the only hypothesis) the
floor is the highest step accepted. The code is checked against the copy loaded
at the gate, so `FloorInv` adds that at the prompt this copy has the secret and
floor of the row, or the row has no secret left (`CopyOK`): an administrator
can clear or delete in the meantime, but only another session could store a
step. Two sessions break it, which is the finding of `auth_replay`.

`AdminProofs` (any number of administrators, names and rows). `GrantsSound` and
`AdminRemains`. The screens act on rows read long before, so the invariant is
about what they kept: `FlowOK` says what each step may rely on of its row,
mainly that id 1 is ZZADMIN and that no other group is reserved (`TableInv`);
`GrantInv` that grants are between rows that exist; `GuardInv` carries the
last-admin guard over to the removal it allows.

`StartupProofs` (assumption: builds are positive and one of them is newest; any
number of users, keys, builds and kills). `SecretsStayOpen` and `Sound`. Every
secret opens with the sentinel's key, and a server on its way up has seen the
sentinel it relies on, unless a reset crossed it (`KeysOK`); the tables are
those of the version and of what each command has done so far, and nobody
migrates before the snapshot (`SchemaOK`); quickstart's files come in order
(`FilesOK`); a password about to be printed is bootstrap's (`AdminOK`).

Its last part is about `Deployment` (any set of addresses, any file, flags and
environment). `Serves`: `ServesAsConfigured` speaks of the ends of a start
only; `BindOK` says what is open at each step of `Build` in between, and the
lemmas on `Layers` and `Sources` what the configuration has of each place it
was set in.

`TerminalProofs` (assumption: tables, catalogues and pages are finite,
documents are sequences of lines, and the forms and details of the code have
room on 24 rows). Every list people read is a table in order, so it begins with
`Sorting`: sorting a finite set by keys that differ gives each element one
place, in the order of the keys, and the i-th is the one with i elements up to
it. `LogExact` (`AuditLogExact`): a list is a first piece of what is selected,
newest first, so what it leaves out is older than all it has; the attempt
showed the property as it stood before to be false for `audit list -limit 0`
with more than a hundred events, and it now has the limit the store falls back
on. `PromptsMeant` and `PagesFollow`: `PanelInv` says that a pending confirm is
on the row the prompt names and that the page shown has rows; what the next
page is rests on four lemmas about dividing rows into pages, which the menu
uses as well. `EditsExact` (`EditExact`, any number of lines, any commands):
`PrefixApplied` says that after the commands on the last `n` lines the text is
the lines before them, untouched, and then the images of those `n` put
together; going down is what makes this true, since an index not yet reached
still names its line. `SplitJoined` adds lines one by one to a saved content
and splits it again, and `ReadBack` says what the newline trimmed at the end
costs: one blank line. `EditInv` says that the editor always has lines and is
sent texts and commands. `NewsSeen`: the lines shown are those up to the page
on the terminal (`NewsInv`). `Picks` (`PickExact`): the list is what the groups
had, in order, and stays so while help is read (`PickInv`); the page with a
number is found by division. `ScreensFit`: for each screen, each line is a
function of its place, or the parts lie in rows that do not meet; the rows of a
compact form grow from field to field (`RowsGrow`); `PictureInv` says that what
is on the terminal has the measures that the lemmas ask for.

Its last part is about `Forms` (assumption: parameter names are distinct and
none is called like a column; any number of rows, names, parameters and writes
of others). `Saved`, `Audited` and `Spared`. The properties speak of a submit
that is over, the invariant of the steps it has gone through (`Passed`): what
they have stored is still there unless others changed it (`EditOK`, `AddOK`,
`ParamsOK`), and what they have logged is what they have stored (`TrailOK`).
`Order` says which steps precede which; `NextIsFree` that the row id SQLite
gives is unused (the largest of a finite set of numbers, by well-foundedness),
so an insert overwrites nobody; `Meddled` what a write of others may do to a
form that is open.

`Recursion` is what makes `RelaysHeard` and `EditsExact` possible. The theorems
of the library on induction and on recursive functions take an operator as a
parameter, which the provers cannot instantiate; here the same is said of sets
and functions. `Upward` is induction on a set of numbers, by well-foundedness;
`Recurs` gives the function a recurrence defines and `Agree` says that there is
one only; from them follow the facts on flattened sequences (`FlatAppend`,
`JoinedSplit`) that `HeardExact` and `EditExact` need.

Only model-checked. All liveness (fairness and ENABLED are out of the prover's
reach): `BacklogServed`, `ServeAllReturns`, `ClosedSessionEnds`,
`PreAuthBounded`, `TeardownCompletes`, `ClientGoneEndsBridge`. Every safety
invariant and action property of a passing run is proved; `FloorIsHighest` under
the hypothesis of one session, without which it is false.

## 5. What is not modelled

Logging, the version and the dummy host: output, or not part of the proxy. TLS
itself. Columns, attributes and wording of screens. Validation of names and
mail addresses, parsing and matching of CIDR blocks. Password hashing, sealing
and HMAC are primitives (a code is a secret and a step; a sealed secret is the
key that sealed it). The profile fields of users are one value, and so are the
fields of a service. `RunSnapshotList`'s `ActCmd`, which no panel sets. The
`doc` command's files and the size limit of a document. The detail view of an
audit event and its reverse DNS lookup. Two opens of one database do interleave
in `Startup`, but the audit rows that migration 2 rewrites and the rows that
the reference check would find are left out. Of the settings of a file, one
limit stands for the four that must be positive.

## 6. Where the code and its documentation part

Found while modelling; the first three are runs.

- `panels_paging`: `RunSnapshotList` shadows `page` inside its loop
  (`ui3270/snapshotlist.go:92`), so PF7/PF8 are lost and only the first page of
  the audit log or the session list can be shown. The counterexample is a
  snapshot of more rows than a page and one PF8.
- `auth_replay`: two sessions of one user wait at the code prompt with the same
  floor; the later, lower step is accepted and written over the higher one
  (`session.go:704`), so `mfa_last_step` is not the "highest accepted TOTP
  step" (`store/store.go:82`).
- `server_shutdown`: a loop blocked in `acquire` is not woken by the closing of
  its listener, so after the first error ServeAll waits until some session ends
  (comment at `server.go:223-225`).
- `bridge`: writes to the backend have no deadline (`bridge.go:130`); while one
  blocks, nobody reads the client. `ClientGoneEndsBridge` has to except a
  stalled backend, `docs/admin/10-limits.md:39-40` does not.
- The escape ends a bridge wherever the backend stands (`bridge.go:134`): half
  a record may have been forwarded when the menu is drawn. Nothing is claimed
  of it.
- PF3 at the code prompt (`session.go:685`, `657`) returns to the login screen
  without a `logout` event; `docs/admin/12-audit.md:39` promises one.
  `AuditTruthful` is stated so as to allow it.
- A user form compares its flags with the row it was opened with, also after a
  submit that stored some and was then refused: a flag changed to Y by it and
  back to N in the corrected submit stays Y, and the form reports success
  (`admin_users.go:298`; the parameters form does it right,
  `admin_system.go:85`). `SavedAsSubmitted` excepts exactly this (`before`).
- A password or profile stored by a submit that was then refused and abandoned
  is not audited, nor is a user inserted by a create that failed after it, which
  ALREADY EXISTS at the next try ("Every security-relevant event is recorded",
  `docs/admin/12-audit.md`). `AuditExact` does not ask for them.
- Two administrators creating one name: the later one reports success with the
  password of the earlier and its own profile (`admin_users.go:259`). The
  profile is written by every save, changed or not; `OthersKept` leaves it out.
- Self-service disable promises that a user who must have MFA "can never
  self-disable" (`session.go:981-983`); it asks the row it read before the
  screen, and an administrator may have set the flag meanwhile. `Auth` has the
  step and claims nothing of it.
- Two administrators removing each other can leave none: `guardLastAdmin` and
  the removal are separate statements. `LastAdminUnlessCrossed` shows this
  crossing to be the only way.
- `bootstrap` killed between the membership and the printing leaves an
  administrator whose password nobody has seen; a rerun refuses.
  `InstallationSound` excepts exactly that cut. In the same way `reset-all`
  beside a server with another key is the one exception of `SecretsOpen`.
- `quickstart`: `os.WriteFile` of the config file is not atomic; an empty one
  counts as provisioned.

## 7. Plan

Order so far: what every connection meets first. Server with its abstract
specification and proofs; Session; Bridge and Telnet; Throttle and Auth; Admin;
Panels; Startup; then Relay, Forms, Screens and Menu, Deployment, AuditLog, and
the proofs of Session, Bridge, Admin, Throttle, Startup, Deployment, Forms,
AuditLog, Panels, Menu, Telnet and Relay.

Left to model: the `doc` command; the rows of trusted networks with the
question asked twice about one connection (`server.go:97` and `149`), composed
with `Server` and `Session`; an abstract specification of a bridged session for
`Session` to use and `Bridge` to implement.
