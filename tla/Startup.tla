------------------------------- MODULE Startup -------------------------------
(***************************************************************************)
(* What the commands of cmd/tn3270proxy do to one database and its data    *)
(* directory: the migrations of store.Open (internal/store/migrate.go),    *)
(* the master key check of serve, `mfa reset-all`, `bootstrap`, `seed` and *)
(* `quickstart` (internal/seed, internal/quickstart).  Any of them can be  *)
(* killed between two writes and run again, with an older or newer build   *)
(* and another key.                                                        *)
(*                                                                         *)
(* Abstractions.  A step is one transaction or one file.  Of the schema    *)
(* only the migrations it reflects are kept, of the accounts the secret of *)
(* each user (Enroll stands for the sessions of Auth.tla) and what the     *)
(* first-run commands do to the administrator, of seed the two halves of   *)
(* its writes.  Only one server listens; bootstrap, seed and quickstart    *)
(* are first-run commands and do not run beside it.                        *)
(***************************************************************************)
EXTENDS Naturals

CONSTANTS
  Users, Keys,
  NoKey,         \* no master key, no secret, no sentinel
  Builds         \* the newest migration each build in use knows

ASSUME StartupAssumption ==
  /\ Builds \subseteq Nat \ {0} /\ \E b \in Builds : \A c \in Builds : c <= b
  /\ NoKey \notin Keys

Newest == CHOOSE b \in Builds : \A c \in Builds : c <= b

VARIABLES
  ver,        \* PRAGMA user_version
  shape,      \* the migrations whose tables and columns are there; 0: the
              \* tables of the time before versions
  defaults,   \* how many of the three kinds of default rows are there
  secret,     \* the key each user's mfa_secret is sealed with
  sentinel,   \* the key the sentinel is sealed with
  seeded,     \* which halves of the seed data are there
  admin,      \* the ADMIN account
  backups,    \* versions of the database in the snapshots
  dir,        \* the database file, and how many files of quickstart
  proc,       \* the server and a command beside it
  origin,     \* history: version and shape of the database at first
  crossed,    \* history: reset-all met enrollments under another key
  cut         \* history: bootstrap was killed before it printed

vars == <<ver, shape, defaults, secret, sentinel, seeded, admin, backups, dir, proc, origin, crossed, cut>>
db == <<ver, shape, defaults, secret, sentinel, seeded, admin>>
history == <<origin, crossed, cut>>

FirstRun == {"bootstrap", "seed", "quickstart"}

Idle == [cmd |-> "none", at |-> "idle", build |-> Newest, key |-> NoKey, cur |-> 0]

At(p, a) == proc[p].at = a
Goto(p, a) == proc' = [proc EXCEPT ![p] = [@ EXCEPT !.at = a]]
End(p) == proc' = [proc EXCEPT ![p] = Idle]

(* The databases the commands may find: none, one from before versions, or *)
(* one of each version, with the tables of its migrations.                 *)
Init ==
  /\ ver \in 0 .. Newest
  /\ shape \in {{}, 0 .. ver} /\ (shape = {} => ver = 0)
  /\ defaults = 0
  /\ secret = [u \in Users |-> NoKey] /\ sentinel = NoKey
  /\ seeded = {}
  /\ admin = [user |-> "absent", member |-> FALSE]
  /\ backups = {}
  /\ dir = [db |-> shape # {}, files |-> 0, config |-> "none"]
  /\ proc = [p \in {"server", "cli"} |-> Idle]
  /\ origin = [ver |-> ver, shape |-> shape]
  /\ crossed = FALSE /\ cut = FALSE

-----------------------------------------------------------------------------
(* Commands start, and are killed *)

Launch(p, c, keys) ==
  /\ At(p, "idle")
  /\ \E b \in Builds, k \in keys :
       proc' = [proc EXCEPT ![p] = [cmd |-> c, at |-> "version", build |-> b, key |-> k, cur |-> 0]]
  /\ UNCHANGED <<db, backups, dir, history>>

Serve == proc["cli"].cmd \notin FirstRun /\ Launch("server", "serve", Keys \cup {NoKey})

(* reset-all refuses to run without a key. *)
ResetAll == Launch("cli", "reset", Keys)

Bootstrap == At("server", "idle") /\ Launch("cli", "bootstrap", {NoKey})
Seed == At("server", "idle") /\ Launch("cli", "seed", {NoKey})

(* Provision: a config file means that all is done, a database without one *)
(* that an earlier run was cut short or the directory is not empty.        *)
Quickstart ==
  /\ At("server", "idle")
  /\ dir.config = "none" /\ ~dir.db
  /\ Launch("cli", "quickstart", {NoKey})

(* Killed, or ended by an error of the disk, the database or a listener *)
Kill(p) ==
  /\ ~At(p, "idle")
  /\ End(p)
  /\ cut' = (cut \/ At(p, "print"))
  /\ admin' = IF proc[p].cmd = "bootstrap" /\ admin.user = "printing" THEN [admin EXCEPT !.user = "lost"] ELSE admin
  /\ UNCHANGED <<ver, shape, defaults, secret, sentinel, seeded, backups, dir, origin, crossed>>

-----------------------------------------------------------------------------
(* store.Open *)

(* Mutant: a database of version 0 is taken for a new one. *)
Fresh_Version0 == ver = 0

(* isFresh: no tables *)
Fresh == shape = {}

(* runMigrations: a newer database is refused, one of the build's own      *)
(* version is left as it is.  The first query creates the file.            *)
Version(p) ==
  /\ At(p, "version")
  /\ IF ver > proc[p].build THEN End(p)
     ELSE proc' = [proc EXCEPT ![p] = [@ EXCEPT
            !.at = IF ver = proc[p].build THEN "defaults" ELSE IF Fresh THEN "steps" ELSE "backup",
            !.cur = ver]]
  /\ dir' = [dir EXCEPT !.db = TRUE]
  /\ UNCHANGED <<db, backups, history>>

(* VACUUM INTO a new file: no snapshot, no migration *)
Backup(p) ==
  /\ At(p, "backup")
  /\ backups' = backups \cup {ver}
  /\ Goto(p, "steps")
  /\ UNCHANGED <<db, dir, history>>

Pending(p) == proc[p].cur < proc[p].build

(* What a migration leaves: the first one also makes the oldest tables. *)
Migrated(m) == shape \cup {m} \cup (IF m = 1 THEN {0} ELSE {})

(* runOne: the migration and its version in one transaction *)
Step(p) ==
  /\ At(p, "steps") /\ Pending(p)
  /\ LET m == proc[p].cur + 1
     IN /\ ver' = m
        /\ shape' = Migrated(m)
        /\ proc' = [proc EXCEPT ![p] = [@ EXCEPT !.cur = m]]
  /\ UNCHANGED <<defaults, secret, sentinel, seeded, admin, backups, dir, history>>

(* foreignKeyCheck after the last step; the versions stay when it fails *)
ForeignKeyCheck(p) ==
  /\ At(p, "steps") /\ ~Pending(p)
  /\ Goto(p, "defaults") \/ End(p)
  /\ UNCHANGED <<db, backups, dir, history>>

(* The kinds of default rows a build knows: the admin group, the system    *)
(* parameters and, with migration 3, the documents                         *)
Known(b) == IF b < 3 THEN 2 ELSE 3

(* reconcileDefaults, on every Open: INSERT OR IGNORE, kind after kind *)
Reconcile(p) ==
  /\ At(p, "defaults")
  /\ \/ defaults < Known(proc[p].build) /\ defaults' = defaults + 1 /\ UNCHANGED proc
     \/ defaults >= Known(proc[p].build) /\ UNCHANGED defaults /\ Goto(p, "open")
  /\ UNCHANGED <<ver, shape, secret, sentinel, seeded, admin, backups, dir, history>>

Open(p) == Version(p) \/ Backup(p) \/ Step(p) \/ ForeignKeyCheck(p) \/ Reconcile(p)

-----------------------------------------------------------------------------
(* serve *)

Enrolled == {u \in Users : secret[u] # NoKey}

(* mfaStartup without a key: refuse when users are enrolled *)
StartUnkeyed ==
  /\ At("server", "open") /\ proc["server"].key = NoKey
  /\ IF Enrolled # {} THEN End("server") ELSE Goto("server", "up")
  /\ UNCHANGED <<db, backups, dir, history>>

(* Mutant: a sentinel that does not open is no reason to refuse. *)
SentinelOpens_Always(k) == sentinel # NoKey

SentinelOpens(k) == sentinel = k

(* mfaStartup with a key: the sentinel must open, if there is one. *)
StartKeyed ==
  /\ At("server", "open") /\ proc["server"].key # NoKey
  /\ IF sentinel = NoKey THEN Goto("server", "seal")
     ELSE IF SentinelOpens(proc["server"].key) THEN Goto("server", "up") ELSE End("server")
  /\ UNCHANGED <<db, backups, dir, history>>

(* The first run with a key writes it. *)
SealSentinel ==
  /\ At("server", "seal")
  /\ sentinel' = proc["server"].key
  /\ Goto("server", "up")
  /\ UNCHANGED <<ver, shape, defaults, secret, seeded, admin, backups, dir, history>>

(* Sessions of the server enroll users, administrators clear them. *)
Enroll(u) ==
  /\ At("server", "up") /\ proc["server"].key # NoKey
  /\ secret' \in {[secret EXCEPT ![u] = k] : k \in {proc["server"].key, NoKey}}
  /\ UNCHANGED <<ver, shape, defaults, sentinel, seeded, admin, backups, dir, proc, history>>

-----------------------------------------------------------------------------
(* mfa reset-all *)

ResetSecrets ==
  /\ At("cli", "open") /\ proc["cli"].cmd = "reset"
  /\ secret' = [u \in Users |-> NoKey]
  /\ Goto("cli", "stamp")
  /\ UNCHANGED <<ver, shape, defaults, sentinel, seeded, admin, backups, dir, history>>

(* The second write: a server with another key may have enrolled users     *)
(* since the first, or still be running.                                   *)
ResetSentinel ==
  /\ At("cli", "stamp")
  /\ sentinel' = proc["cli"].key
  /\ crossed' = (crossed \/ proc["server"].key \notin {NoKey, proc["cli"].key}
                   \/ \E u \in Users : secret[u] \notin {NoKey, proc["cli"].key})
  /\ End("cli")
  /\ UNCHANGED <<ver, shape, defaults, secret, seeded, admin, backups, dir, origin, cut>>

-----------------------------------------------------------------------------
(* bootstrap *)

BootAt(a) == proc["cli"].cmd = "bootstrap" /\ At("cli", a)
Unbooted == UNCHANGED <<ver, shape, defaults, secret, sentinel, seeded, backups, dir, history>>

(* CountAdminMembers: refuse when there is an administrator *)
BootCount ==
  /\ BootAt("open")
  /\ IF admin.member THEN End("cli") ELSE Goto("cli", "user")
  /\ Unbooted /\ UNCHANGED admin

(* CreateUser with the new password; an account that exists keeps its own. *)
BootUser ==
  /\ BootAt("user")
  /\ admin' = IF admin.user = "absent" THEN [admin EXCEPT !.user = "printing"] ELSE admin
  /\ Goto("cli", "password")
  /\ Unbooted

(* SetPassword, for an account that was there *)
BootPassword ==
  /\ BootAt("password")
  /\ admin' = [admin EXCEPT !.user = "printing"]
  /\ Goto("cli", "member")
  /\ Unbooted

BootMember ==
  /\ BootAt("member")
  /\ admin' = [admin EXCEPT !.member = TRUE]
  /\ Goto("cli", "print")
  /\ Unbooted

BootPrint ==
  /\ BootAt("print")
  /\ admin' = IF admin.user = "printing" THEN [admin EXCEPT !.user = "known"] ELSE admin
  /\ End("cli")
  /\ Unbooted

RunBootstrap == BootCount \/ BootUser \/ BootPassword \/ BootMember \/ BootPrint

-----------------------------------------------------------------------------
(* seed and quickstart *)

SeedAt(a) == proc["cli"].cmd \in {"seed", "quickstart"} /\ At("cli", a)
Unseeded == UNCHANGED <<ver, shape, defaults, secret, sentinel, admin, backups, history>>

(* seed.Apply: every conflict and bad password is found before the first   *)
(* write.                                                                  *)
SeedCheck ==
  /\ SeedAt("open")
  /\ IF seeded # {} THEN End("cli") ELSE Goto("cli", "users") \/ End("cli")
  /\ Unseeded /\ UNCHANGED <<seeded, dir>>

SeedUsers ==
  /\ SeedAt("users")
  /\ seeded' = seeded \cup {"users"}
  /\ Goto("cli", "services")
  /\ Unseeded /\ UNCHANGED dir

SeedServices ==
  /\ SeedAt("services")
  /\ seeded' = seeded \cup {"services"}
  /\ IF proc["cli"].cmd = "seed" THEN End("cli") ELSE Goto("cli", "files")
  /\ Unseeded /\ UNCHANGED dir

RunSeed == SeedCheck \/ SeedUsers \/ SeedServices

Files == <<"mfa.key", "cert.pem", "key.pem", "motd.txt", "branding.txt", "documents", "SETUP-DEFAULTS.TXT">>
AllFiles == DOMAIN Files

(* Provision writes one file, or both documents, after the other ... *)
WriteFile ==
  /\ SeedAt("files") /\ dir.files + 1 \in AllFiles
  /\ dir' = [dir EXCEPT !.files = @ + 1]
  /\ Unseeded /\ UNCHANGED <<seeded, proc>>

(* ... and the config file last; os.WriteFile creates it, then fills it. *)
WriteConfig ==
  /\ SeedAt("files") /\ dir.files + 1 \notin AllFiles
  /\ \/ dir.config = "none" /\ dir' = [dir EXCEPT !.config = "empty"] /\ UNCHANGED proc
     \/ dir.config = "empty" /\ dir' = [dir EXCEPT !.config = "full"] /\ End("cli")
  /\ Unseeded /\ UNCHANGED seeded

-----------------------------------------------------------------------------

Next ==
  \/ Serve \/ ResetAll \/ Bootstrap \/ Seed \/ Quickstart
  \/ \E p \in {"server", "cli"} : Kill(p) \/ Open(p)
  \/ StartUnkeyed \/ StartKeyed \/ SealSentinel \/ \E u \in Users : Enroll(u)
  \/ ResetSecrets \/ ResetSentinel
  \/ RunBootstrap \/ RunSeed \/ WriteFile \/ WriteConfig

Spec == Init /\ [][Next]_vars

-----------------------------------------------------------------------------
(* Properties *)

Places == {"idle", "version", "backup", "steps", "defaults", "open", "seal", "up", "stamp",
           "user", "password", "member", "print", "users", "services", "files"}

(* The variables have their types; a migration never takes the database past  *)
(* what the build knows (runMigrations).                                   *)
TypeOK ==
  /\ ver \in 0 .. Newest /\ shape \subseteq 0 .. Newest /\ defaults \in 0 .. 3
  /\ secret \in [Users -> Keys \cup {NoKey}] /\ sentinel \in Keys \cup {NoKey}
  /\ seeded \subseteq {"users", "services"}
  /\ admin \in [user : {"absent", "printing", "lost", "known"}, member : BOOLEAN]
  /\ backups \subseteq 0 .. Newest
  /\ dir \in [db : BOOLEAN, files : {0} \cup AllFiles, config : {"none", "empty", "full"}]
  /\ \A p \in DOMAIN proc :
       /\ proc[p].cmd \in {"none", "serve", "reset"} \cup FirstRun /\ proc[p].at \in Places
       /\ proc[p].build \in Builds /\ proc[p].key \in Keys \cup {NoKey}
       /\ proc[p].cur \in 0 .. proc[p].build

(* A server that is up can open every secret in the database, whatever     *)
(* keys it was started with and wherever reset-all was killed, unless      *)
(* reset-all ran across a server that holds another key (mfaStartup,       *)
(* runMFAResetAll).                                                        *)
SecretsOpen ==
  At("server", "up") /\ ~crossed =>
    \A u \in Users : secret[u] \in {NoKey, proc["server"].key}

Opened(p) == proc[p].at \notin {"idle", "version", "backup", "steps", "defaults"}

(* What an installation can count on after any cut and any rerun: a        *)
(* database with tables is never altered before a snapshot of it as it was *)
(* exists; past Open, every migration and default of the build is there; a *)
(* config file of quickstart means that all the rest was written; and an   *)
(* administrator made by bootstrap has a password somebody has seen or is  *)
(* about to, unless the command was killed before it printed               *)
(* (runMigrations, Provision, runBootstrap).                               *)
InstallationSound ==
  /\ TypeOK
  /\ origin.shape # {} /\ shape # origin.shape => origin.ver \in backups
  /\ \A p \in DOMAIN proc : Opened(p) =>
       1 .. proc[p].build \subseteq shape /\ defaults >= Known(proc[p].build)
  /\ dir.config # "none" => dir.files + 1 \notin AllFiles /\ seeded = {"users", "services"}
  /\ admin.member /\ admin.user = "lost" => cut
=============================================================================
