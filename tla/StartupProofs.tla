---------------------------- MODULE StartupProofs ----------------------------
(***************************************************************************)
(* What an installation can count on after any cut and any rerun, proved   *)
(* for any number of users, keys and builds; and what a start of the       *)
(* gateway listens on, for every set of addresses and every configuration  *)
(* file, flags and environment.                                            *)
(***************************************************************************)
EXTENDS Startup, Deployment, TLAPS

Procs == {"server", "cli"}
Proc == [cmd : {"none", "serve", "reset"} \cup FirstRun, at : Places, build : Builds,
         key : Keys \cup {NoKey}, cur : Nat]

ProcOK ==
  /\ proc \in [Procs -> Proc]
  /\ proc["server"].cmd \in {"none", "serve"}
  /\ \A p \in Procs : proc[p].cur <= proc[p].build

(* The variables other than proc have their types.                         *)
DataOK ==
  /\ ver \in 0 .. Newest /\ shape \subseteq 0 .. Newest /\ defaults \in 0 .. 3
  /\ secret \in [Users -> Keys \cup {NoKey}] /\ sentinel \in Keys \cup {NoKey}
  /\ seeded \subseteq {"users", "services"}
  /\ admin \in [user : {"absent", "printing", "lost", "known"}, member : BOOLEAN]
  /\ backups \subseteq 0 .. Newest
  /\ dir \in [db : BOOLEAN, files : {0} \cup AllFiles, config : {"none", "empty", "full"}]

(* Every secret opens with the sentinel's key; a server on its way up has  *)
(* seen the sentinel it relies on.                                         *)
KeysOK ==
  crossed \/
    /\ \A u \in Users : secret[u] \in {NoKey, sentinel}
    /\ At("server", "up") =>
         IF proc["server"].key = NoKey THEN \A u \in Users : secret[u] = NoKey
                                       ELSE sentinel = proc["server"].key
    /\ At("server", "seal") =>
         proc["server"].key # NoKey /\ sentinel \in {NoKey, proc["server"].key}

(* The tables are those of the version and of what each command has done;  *)
(* nobody migrates a database that had tables before its snapshot.         *)
SchemaOK ==
  /\ 1 .. ver \subseteq shape
  /\ \A p \in Procs :
       /\ proc[p].at \in {"backup", "steps"} => 1 .. proc[p].cur \subseteq shape
       /\ proc[p].at = "defaults" \/ Opened(p) => 1 .. proc[p].build \subseteq shape
       /\ Opened(p) => defaults >= Known(proc[p].build)
  /\ origin.shape # {} =>
       /\ origin.shape \subseteq shape
       /\ origin.ver \notin backups =>
            shape = origin.shape /\ ver = origin.ver /\ \A p \in Procs : ~At(p, "steps")

(* Quickstart's files come in their order.                                 *)
FilesOK ==
  /\ SeedAt("services") => "users" \in seeded
  /\ SeedAt("files") => seeded = {"users", "services"}
  /\ dir.config # "none" => dir.files + 1 \notin AllFiles /\ seeded = {"users", "services"}

(* A password that is about to be printed is bootstrap's, which does not   *)
(* begin when there is an administrator.                                   *)
AdminOK ==
  /\ admin.user = "printing" => BootAt("password") \/ BootAt("member") \/ BootAt("print")
  /\ BootAt("user") \/ BootAt("password") \/ BootAt("member") => ~admin.member
  /\ BootAt("member") \/ BootAt("print") => admin.user = "printing"
  /\ admin.member /\ admin.user = "lost" => cut

StartupInv == DataOK /\ ProcOK /\ KeysOK /\ SchemaOK /\ FilesOK /\ AdminOK

-----------------------------------------------------------------------------
(* The newest build is one of the builds.                                  *)
LEMMA NewestBuild == Newest \in Builds /\ Builds \subseteq Nat \ {0} /\ \A b \in Builds : b <= Newest
  BY StartupAssumption DEF Newest

LEMMA FileNumbers == AllFiles = 1 .. 7
  BY DEF AllFiles, Files

(* A command that has ended has nothing to rely on.                        *)
LEMMA IdleProc == Idle \in Proc /\ Idle.at = "idle" /\ Idle.cmd = "none" /\ Idle.cur <= Idle.build
<1>1. Newest \in Nat /\ 0 <= Newest
  BY NewestBuild
<1>. QED
  BY <1>1, NewestBuild DEF Idle, Proc, Places, FirstRun

(* Together, DataOK and ProcOK are what Startup calls TypeOK.              *)
LEMMA Typed == DataOK /\ ProcOK => TypeOK
<1>. SUFFICES ASSUME DataOK, ProcOK PROVE TypeOK
  OBVIOUS
<1>1. DOMAIN proc = Procs
  BY DEF ProcOK
<1>2. ASSUME NEW p \in Procs
      PROVE  /\ proc[p].cmd \in {"none", "serve", "reset"} \cup FirstRun /\ proc[p].at \in Places
             /\ proc[p].build \in Builds /\ proc[p].key \in Keys \cup {NoKey}
             /\ proc[p].cur \in 0 .. proc[p].build
  <2>1. proc[p] \in Proc /\ proc[p].cur <= proc[p].build
    BY DEF ProcOK
  <2>2. proc[p].build \in Nat
    BY <2>1, NewestBuild DEF Proc
  <2>. QED
    BY <2>1, <2>2 DEF Proc
<1>. QED
  BY <1>1, <1>2 DEF DataOK, TypeOK

LEMMA InitStartup == Init => StartupInv
<1>. SUFFICES ASSUME Init PROVE StartupInv
  OBVIOUS
<1>1. ver \in 0 .. Newest /\ Newest \in Nat /\ shape \in {{}, 0 .. ver}
  BY NewestBuild DEF Init
<1>2. ProcOK /\ \A p \in Procs : proc[p] = Idle
  BY IdleProc DEF Init, ProcOK, Procs
<1>3. DataOK
  <2>1. shape \subseteq 0 .. Newest
    BY <1>1
  <2>2. dir \in [db : BOOLEAN, files : {0} \cup AllFiles, config : {"none", "empty", "full"}]
    BY DEF Init
  <2>. QED
    BY <1>1, <2>1, <2>2 DEF Init, DataOK
<1>4. KeysOK
  BY <1>2, IdleProc DEF Init, KeysOK, At, Procs
<1>5. SchemaOK
  BY <1>1, <1>2, IdleProc DEF Init, SchemaOK, At, Procs, Opened
<1>6. FilesOK /\ AdminOK
  BY <1>2, IdleProc DEF Init, FilesOK, AdminOK, SeedAt, BootAt, At, Procs
<1>. QED
  BY <1>2, <1>3, <1>4, <1>5, <1>6 DEF StartupInv

(* What a command changes of itself                                        *)
LEMMA Moves ==
  ASSUME ProcOK, NEW p \in Procs, NEW q \in Proc, q.cur <= q.build,
         p = "server" => q.cmd \in {"none", "serve"},
         proc' = [proc EXCEPT ![p] = q]
  PROVE  /\ ProcOK' /\ proc'[p] = q
         /\ \A r \in Procs \ {p} : proc'[r] = proc[r]
  BY DEF ProcOK

LEMMA GotoMoves ==
  ASSUME ProcOK, NEW p \in Procs, NEW a \in Places, Goto(p, a)
  PROVE  /\ ProcOK' /\ proc'[p].at = a /\ proc'[p].cmd = proc[p].cmd
         /\ proc'[p].build = proc[p].build /\ proc'[p].key = proc[p].key /\ proc'[p].cur = proc[p].cur
         /\ \A r \in Procs \ {p} : proc'[r] = proc[r]
<1>. DEFINE q == [proc[p] EXCEPT !.at = a]
<1>1. proc[p] \in Proc /\ proc[p].cur <= proc[p].build
      /\ (p = "server" => proc[p].cmd \in {"none", "serve"}) /\ proc' = [proc EXCEPT ![p] = q]
  BY DEF ProcOK, Goto
<1>2. q \in Proc /\ q.at = a /\ q.cmd = proc[p].cmd /\ q.build = proc[p].build
      /\ q.key = proc[p].key /\ q.cur = proc[p].cur
  BY <1>1 DEF Proc
<1>. HIDE DEF q
<1>. QED
  BY <1>1, <1>2, Moves

LEMMA EndMoves ==
  ASSUME ProcOK, NEW p \in Procs, End(p)
  PROVE  ProcOK' /\ proc'[p] = Idle /\ \A r \in Procs \ {p} : proc'[r] = proc[r]
<1>. QED
  BY IdleProc, Moves DEF End

-----------------------------------------------------------------------------
(* The steps *)

(* A command that starts or ends, and had no password to print, takes      *)
(* nothing away from the others.                                           *)
LEMMA MoveKeeps ==
  ASSUME StartupInv, NEW p \in Procs, ProcOK', DataOK',
         \A r \in Procs \ {p} : proc'[r] = proc[r],
         UNCHANGED <<ver, shape, defaults, secret, sentinel, seeded, admin, backups, history>>,
         dir'.files = dir.files, dir'.config = dir.config,
         proc[p].at \notin {"password", "member", "print"},
         proc'[p].at \in {"idle", "version"}
  PROVE  StartupInv'
<1>1. KeysOK'
  BY DEF StartupInv, KeysOK, At, Procs, history
<1>2. SchemaOK'
  <2>1. ASSUME NEW r \in Procs
        PROVE  /\ proc'[r].at \in {"backup", "steps"} => 1 .. proc'[r].cur \subseteq shape'
               /\ proc'[r].at = "defaults" \/ Opened(r)' => 1 .. proc'[r].build \subseteq shape'
               /\ Opened(r)' => defaults' >= Known(proc'[r].build)
               /\ At(r, "steps")' => At(r, "steps")
    <3>1. CASE r = p
      BY <3>1 DEF Opened, At
    <3>2. CASE r # p
      BY <3>2 DEF StartupInv, SchemaOK, Opened, At
    <3>. QED
      BY <3>1, <3>2
  <2>. QED
    BY <2>1 DEF StartupInv, SchemaOK, history
<1>3. FilesOK'
  BY DEF StartupInv, FilesOK, SeedAt, At, Procs
<1>4. AdminOK'
  BY DEF StartupInv, AdminOK, BootAt, At, Procs, history
<1>. QED
  BY <1>1, <1>2, <1>3, <1>4 DEF StartupInv

LEMMA LaunchStep ==
  ASSUME StartupInv, Serve \/ ResetAll \/ Bootstrap \/ Seed \/ Quickstart
  PROVE  StartupInv'
<1>1. PICK p \in Procs : \E c \in {"serve", "reset"} \cup FirstRun, keys \in SUBSET (Keys \cup {NoKey}) :
                           Launch(p, c, keys) /\ (p = "server" => c = "serve")
  BY DEF Serve, ResetAll, Bootstrap, Seed, Quickstart, Procs, FirstRun
<1>2. PICK c \in {"serve", "reset"} \cup FirstRun :
        \E keys \in SUBSET (Keys \cup {NoKey}) : Launch(p, c, keys) /\ (p = "server" => c = "serve")
  BY <1>1
<1>3. PICK b \in Builds : \E k \in Keys \cup {NoKey} :
        proc' = [proc EXCEPT ![p] = [cmd |-> c, at |-> "version", build |-> b, key |-> k, cur |-> 0]]
  BY <1>2 DEF Launch
<1>4. PICK k \in Keys \cup {NoKey} :
        proc' = [proc EXCEPT ![p] = [cmd |-> c, at |-> "version", build |-> b, key |-> k, cur |-> 0]]
  BY <1>3
<1>. DEFINE q == [cmd |-> c, at |-> "version", build |-> b, key |-> k, cur |-> 0]
<1>5. q \in Proc /\ q.cur <= q.build /\ q.at = "version" /\ q.cmd = c
  <2>1. b \in Nat
    BY NewestBuild
  <2>. QED
    BY <2>1 DEF Proc, Places
<1>6. /\ proc[p].at = "idle" /\ (p = "server" => c = "serve")
      /\ UNCHANGED <<ver, shape, defaults, secret, sentinel, seeded, admin, backups, dir, history>>
  BY <1>2 DEF Launch, At, db
<1>7. proc' = [proc EXCEPT ![p] = q]
  BY <1>4
<1>. HIDE DEF q
<1>8. ProcOK' /\ proc'[p] = q /\ \A r \in Procs \ {p} : proc'[r] = proc[r]
  BY <1>5, <1>6, <1>7, Moves DEF StartupInv
<1>9. DataOK'
  BY <1>6 DEF StartupInv, DataOK
<1>. QED
  BY <1>5, <1>6, <1>8, <1>9, MoveKeeps

LEMMA KillStep ==
  ASSUME StartupInv, NEW p \in Procs, Kill(p)
  PROVE  StartupInv'
<1>1. /\ proc[p].at # "idle" /\ cut' = (cut \/ At(p, "print"))
      /\ admin' = IF proc[p].cmd = "bootstrap" /\ admin.user = "printing" THEN [admin EXCEPT !.user = "lost"] ELSE admin
      /\ UNCHANGED <<ver, shape, defaults, secret, sentinel, seeded, backups, dir, origin, crossed>>
  BY DEF Kill, At
<1>2. ProcOK' /\ proc'[p] = Idle /\ \A r \in Procs \ {p} : proc'[r] = proc[r]
  BY EndMoves DEF Kill, StartupInv
<1>3. Idle.at = "idle" /\ Idle.cmd = "none"
  BY IdleProc
<1>4. DataOK'
  BY <1>1 DEF StartupInv, DataOK
<1>5. KeysOK'
  BY <1>1, <1>2, <1>3 DEF StartupInv, KeysOK, At, Procs
<1>6. SchemaOK'
  <2>1. ASSUME NEW r \in Procs
        PROVE  /\ proc'[r].at \in {"backup", "steps"} => 1 .. proc'[r].cur \subseteq shape'
               /\ proc'[r].at = "defaults" \/ Opened(r)' => 1 .. proc'[r].build \subseteq shape'
               /\ Opened(r)' => defaults' >= Known(proc'[r].build)
               /\ At(r, "steps")' => At(r, "steps")
    <3>1. CASE r = p
      BY <1>2, <1>3, <3>1 DEF Opened, At
    <3>2. CASE r # p
      BY <1>1, <1>2, <3>2 DEF StartupInv, SchemaOK, Opened, At
    <3>. QED
      BY <3>1, <3>2
  <2>. QED
    BY <1>1, <2>1 DEF StartupInv, SchemaOK
<1>7. FilesOK'
  BY <1>1, <1>2, <1>3 DEF StartupInv, FilesOK, SeedAt, At, Procs
<1>8. AdminOK'
  <2>1. CASE p = "cli"
    <3>1. admin \in [user : {"absent", "printing", "lost", "known"}, member : BOOLEAN]
      BY DEF StartupInv, DataOK
    <3>. QED
      BY <1>1, <1>2, <1>3, <2>1, <3>1 DEF StartupInv, AdminOK, BootAt, At, Procs
  <2>2. CASE p = "server"
    <3>1. admin' = admin /\ proc'["cli"] = proc["cli"]
      BY <1>1, <1>2, <2>2 DEF StartupInv, ProcOK, Procs
    <3>. QED
      BY <1>1, <3>1 DEF StartupInv, AdminOK, BootAt, At
  <2>. QED
    BY <2>1, <2>2 DEF Procs
<1>. QED
  BY <1>2, <1>4, <1>5, <1>6, <1>7, <1>8 DEF StartupInv

(* While a command opens the store, only the schema can be disturbed.      *)
LEMMA OpenRest ==
  ASSUME StartupInv, NEW p \in Procs, ProcOK',
         \A r \in Procs \ {p} : proc'[r] = proc[r],
         UNCHANGED <<secret, sentinel, seeded, admin, history>>,
         dir'.files = dir.files, dir'.config = dir.config,
         proc[p].at \in {"version", "backup", "steps", "defaults"},
         proc'[p].at \in {"idle", "backup", "steps", "defaults", "open"}
  PROVE  KeysOK' /\ FilesOK' /\ AdminOK'
<1>1. KeysOK'
  BY DEF StartupInv, KeysOK, At, Procs, history
<1>2. FilesOK'
  BY DEF StartupInv, FilesOK, SeedAt, At, Procs
<1>3. AdminOK'
  BY DEF StartupInv, AdminOK, BootAt, At, Procs, history
<1>. QED
  BY <1>1, <1>2, <1>3

LEMMA VersionStep ==
  ASSUME StartupInv, NEW p \in Procs, Version(p)
  PROVE  StartupInv'
<1>. DEFINE a == IF ver = proc[p].build THEN "defaults" ELSE IF Fresh THEN "steps" ELSE "backup"
            q == [proc[p] EXCEPT !.at = a, !.cur = ver]
<1>1. /\ proc[p].at = "version"
      /\ IF ver > proc[p].build THEN End(p) ELSE proc' = [proc EXCEPT ![p] = q]
      /\ dir' = [dir EXCEPT !.db = TRUE]
      /\ UNCHANGED <<ver, shape, defaults, secret, sentinel, seeded, admin, backups, history>>
  BY DEF Version, At, db
<1>2. DataOK' /\ dir'.files = dir.files /\ dir'.config = dir.config
  BY <1>1 DEF StartupInv, DataOK
<1>3. CASE ver > proc[p].build
  <2>1. ProcOK' /\ proc'[p] = Idle /\ \A r \in Procs \ {p} : proc'[r] = proc[r]
    BY <1>1, <1>3, EndMoves DEF StartupInv
  <2>. QED
    BY <1>1, <1>2, <2>1, IdleProc, MoveKeeps
<1>4. CASE ~(ver > proc[p].build)
  <2>1. /\ proc[p] \in Proc /\ proc[p].build \in Nat /\ ver \in Nat
        /\ (p = "server" => proc[p].cmd \in {"none", "serve"})
    <3>1. Newest \in Nat /\ ver \in 0 .. Newest
      BY NewestBuild DEF StartupInv, DataOK
    <3>2. proc[p] \in Proc /\ (p = "server" => proc[p].cmd \in {"none", "serve"})
      BY DEF StartupInv, ProcOK
    <3>3. proc[p].build \in Nat
      BY <3>2, NewestBuild DEF Proc
    <3>4. ver \in Nat
      BY <3>1
    <3>. QED
      BY <3>2, <3>3, <3>4
  <2>2. a \in {"defaults", "steps", "backup"} /\ {"defaults", "steps", "backup"} \subseteq Places
    BY DEF Places
  <2>3. q \in Proc /\ q.at = a /\ q.cur = ver /\ q.build = proc[p].build /\ q.cmd = proc[p].cmd
    BY <2>1, <2>2 DEF Proc
  <2>4. q.cur <= q.build
    BY <1>4, <2>1, <2>3
  <2>5. proc' = [proc EXCEPT ![p] = q]
    BY <1>1, <1>4
  <2>6. a = "defaults" => 1 .. proc[p].build \subseteq shape
    BY DEF StartupInv, SchemaOK
  <2>7. a = "steps" => shape = {}
    BY DEF Fresh
  <2>. HIDE DEF q, a
  <2>8. ProcOK' /\ proc'[p] = q /\ \A r \in Procs \ {p} : proc'[r] = proc[r]
    BY <2>1, <2>3, <2>4, <2>5, Moves DEF StartupInv
  <2>9. KeysOK' /\ FilesOK' /\ AdminOK'
    BY <1>1, <1>2, <2>2, <2>3, <2>8, OpenRest
  <2>10. SchemaOK'
    <3>1. 1 .. ver \subseteq shape
      BY DEF StartupInv, SchemaOK
    <3>2. ASSUME NEW r \in Procs
          PROVE  /\ proc'[r].at \in {"backup", "steps"} => 1 .. proc'[r].cur \subseteq shape'
                 /\ proc'[r].at = "defaults" \/ Opened(r)' => 1 .. proc'[r].build \subseteq shape'
                 /\ Opened(r)' => defaults' >= Known(proc'[r].build)
                 /\ At(r, "steps")' => At(r, "steps") \/ shape = {}
      <4>1. CASE r = p
        BY <1>1, <2>2, <2>3, <2>6, <2>7, <2>8, <3>1, <4>1 DEF Opened, At
      <4>2. CASE r # p
        BY <1>1, <2>8, <4>2 DEF StartupInv, SchemaOK, Opened, At
      <4>. QED
        BY <4>1, <4>2
    <3>3. origin' = origin
      BY <1>1 DEF history
    <3>. QED
      BY <1>1, <3>2, <3>3 DEF StartupInv, SchemaOK
  <2>. QED
    BY <1>2, <2>8, <2>9, <2>10 DEF StartupInv
<1>. QED
  BY <1>3, <1>4

LEMMA BackupStep ==
  ASSUME StartupInv, NEW p \in Procs, Backup(p)
  PROVE  StartupInv'
<1>1. /\ proc[p].at = "backup" /\ backups' = backups \cup {ver} /\ Goto(p, "steps")
      /\ UNCHANGED <<ver, shape, defaults, secret, sentinel, seeded, admin, dir, history>>
  BY DEF Backup, At, db
<1>2. "steps" \in Places
  BY DEF Places
<1>3. /\ ProcOK' /\ proc'[p].at = "steps" /\ proc'[p].cur = proc[p].cur
      /\ \A r \in Procs \ {p} : proc'[r] = proc[r]
  BY <1>1, <1>2, GotoMoves DEF StartupInv
<1>4. DataOK'
  BY <1>1 DEF StartupInv, DataOK
<1>5. KeysOK' /\ FilesOK' /\ AdminOK'
  BY <1>1, <1>3, OpenRest
<1>6. SchemaOK'
  <2>1. ASSUME NEW r \in Procs
        PROVE  /\ proc'[r].at \in {"backup", "steps"} => 1 .. proc'[r].cur \subseteq shape'
               /\ proc'[r].at = "defaults" \/ Opened(r)' => 1 .. proc'[r].build \subseteq shape'
               /\ Opened(r)' => defaults' >= Known(proc'[r].build)
    <3>1. CASE r = p
      BY <1>1, <1>3, <3>1 DEF StartupInv, SchemaOK, Opened
    <3>2. CASE r # p
      BY <1>1, <1>3, <3>2 DEF StartupInv, SchemaOK, Opened
    <3>. QED
      BY <3>1, <3>2
  <2>2. origin.shape # {} => origin.ver \in backups'
    BY <1>1 DEF StartupInv, SchemaOK
  <2>3. origin' = origin
    BY <1>1 DEF history
  <2>. QED
    BY <1>1, <2>1, <2>2, <2>3 DEF StartupInv, SchemaOK
<1>. QED
  BY <1>3, <1>4, <1>5, <1>6 DEF StartupInv

(* One migration: its process is past the snapshot, or found no tables.    *)
LEMMA MigrationStep ==
  ASSUME StartupInv, NEW p \in Procs, Step(p)
  PROVE  StartupInv'
<1>. DEFINE m == proc[p].cur + 1
            q == [proc[p] EXCEPT !.cur = m]
<1>1. /\ proc[p].at = "steps" /\ proc[p].cur < proc[p].build
      /\ ver' = m /\ shape' = Migrated(m) /\ proc' = [proc EXCEPT ![p] = q]
      /\ UNCHANGED <<defaults, secret, sentinel, seeded, admin, backups, dir, history>>
  BY DEF Step, At, Pending
<1>2. /\ proc[p] \in Proc /\ proc[p].cur \in Nat /\ proc[p].build \in Nat /\ proc[p].build <= Newest
      /\ Newest \in Nat /\ (p = "server" => proc[p].cmd \in {"none", "serve"})
  BY NewestBuild DEF StartupInv, ProcOK, Proc
<1>3. m \in Nat /\ m <= proc[p].build /\ m \in 0 .. Newest /\ 0 \in 0 .. Newest
  BY <1>1, <1>2
<1>4. q \in Proc /\ q.at = "steps" /\ q.cur = m /\ q.build = proc[p].build /\ q.cmd = proc[p].cmd
  BY <1>1, <1>2, <1>3 DEF Proc
<1>5. shape \subseteq shape' /\ m \in shape' /\ shape' \subseteq 0 .. Newest
  BY <1>1, <1>3 DEF Migrated, StartupInv, DataOK
<1>6. 1 .. m \subseteq shape'
  <2>1. 1 .. proc[p].cur \subseteq shape
    BY <1>1 DEF StartupInv, SchemaOK
  <2>2. 1 .. m \subseteq (1 .. proc[p].cur) \cup {m}
    BY <1>2
  <2>. QED
    BY <1>5, <2>1, <2>2
<1>. HIDE DEF m, q
<1>7. ProcOK' /\ proc'[p] = q /\ \A r \in Procs \ {p} : proc'[r] = proc[r]
  BY <1>1, <1>2, <1>3, <1>4, Moves DEF StartupInv
<1>8. DataOK'
  BY <1>1, <1>3, <1>5 DEF StartupInv, DataOK
<1>9. KeysOK' /\ FilesOK' /\ AdminOK'
  BY <1>1, <1>4, <1>7, OpenRest
<1>10. SchemaOK'
  <2>1. ASSUME NEW r \in Procs
        PROVE  /\ proc'[r].at \in {"backup", "steps"} => 1 .. proc'[r].cur \subseteq shape'
               /\ proc'[r].at = "defaults" \/ Opened(r)' => 1 .. proc'[r].build \subseteq shape'
               /\ Opened(r)' => defaults' >= Known(proc'[r].build)
    <3>1. CASE r = p
      BY <1>4, <1>6, <1>7, <3>1 DEF Opened
    <3>2. CASE r # p
      BY <1>1, <1>5, <1>7, <3>2 DEF StartupInv, SchemaOK, Opened
    <3>. QED
      BY <3>1, <3>2
  <2>2. origin.shape # {} => origin.shape \subseteq shape' /\ origin.ver \in backups
    BY <1>1, <1>5 DEF StartupInv, SchemaOK, At
  <2>3. origin' = origin
    BY <1>1 DEF history
  <2>. QED
    BY <1>1, <1>6, <2>1, <2>2, <2>3 DEF SchemaOK
<1>. QED
  BY <1>7, <1>8, <1>9, <1>10 DEF StartupInv

LEMMA CheckStep ==
  ASSUME StartupInv, NEW p \in Procs, ForeignKeyCheck(p)
  PROVE  StartupInv'
<1>1. /\ proc[p].at = "steps" /\ ~(proc[p].cur < proc[p].build)
      /\ Goto(p, "defaults") \/ End(p)
      /\ UNCHANGED <<ver, shape, defaults, secret, sentinel, seeded, admin, backups, dir, history>>
  BY DEF ForeignKeyCheck, At, Pending, db
<1>2. DataOK'
  BY <1>1 DEF StartupInv, DataOK
<1>3. CASE End(p)
  <2>1. ProcOK' /\ proc'[p] = Idle /\ \A r \in Procs \ {p} : proc'[r] = proc[r]
    BY <1>3, EndMoves DEF StartupInv
  <2>. QED
    BY <1>1, <1>2, <2>1, IdleProc, MoveKeeps
<1>4. CASE Goto(p, "defaults")
  <2>1. "defaults" \in Places
    BY DEF Places
  <2>2. /\ ProcOK' /\ proc'[p].at = "defaults" /\ proc'[p].build = proc[p].build
        /\ \A r \in Procs \ {p} : proc'[r] = proc[r]
    BY <1>4, <2>1, GotoMoves DEF StartupInv
  <2>3. KeysOK' /\ FilesOK' /\ AdminOK'
    BY <1>1, <2>2, OpenRest
  <2>4. 1 .. proc[p].build \subseteq shape
    <3>1. proc[p].cur \in Nat /\ proc[p].build \in Nat /\ proc[p].cur <= proc[p].build
      BY NewestBuild DEF StartupInv, ProcOK, Proc
    <3>2. proc[p].cur = proc[p].build
      BY <1>1, <3>1
    <3>. QED
      BY <1>1, <3>2 DEF StartupInv, SchemaOK
  <2>5. SchemaOK'
    <3>1. ASSUME NEW r \in Procs
          PROVE  /\ proc'[r].at \in {"backup", "steps"} => 1 .. proc'[r].cur \subseteq shape'
                 /\ proc'[r].at = "defaults" \/ Opened(r)' => 1 .. proc'[r].build \subseteq shape'
                 /\ Opened(r)' => defaults' >= Known(proc'[r].build)
                 /\ At(r, "steps")' => At(r, "steps")
      <4>1. CASE r = p
        BY <1>1, <2>2, <2>4, <4>1 DEF Opened, At
      <4>2. CASE r # p
        BY <1>1, <2>2, <4>2 DEF StartupInv, SchemaOK, Opened, At
      <4>. QED
        BY <4>1, <4>2
    <3>2. origin' = origin
      BY <1>1 DEF history
    <3>. QED
      BY <1>1, <3>1, <3>2 DEF StartupInv, SchemaOK
  <2>. QED
    BY <1>2, <2>2, <2>3, <2>5 DEF StartupInv
<1>. QED
  BY <1>1, <1>3, <1>4

LEMMA ReconcileStep ==
  ASSUME StartupInv, NEW p \in Procs, Reconcile(p)
  PROVE  StartupInv'
<1>1. /\ proc[p].at = "defaults"
      /\ UNCHANGED <<ver, shape, secret, sentinel, seeded, admin, backups, dir, history>>
  BY DEF Reconcile, At
<1>2. defaults \in 0 .. 3 /\ Known(proc[p].build) \in 2 .. 3
  BY DEF StartupInv, DataOK, Known
<1>3. /\ defaults' \in 0 .. 3 /\ defaults' >= defaults /\ ProcOK'
      /\ proc'[p].at \in {"defaults", "open"} /\ proc'[p].build = proc[p].build
      /\ proc'[p].at = "open" => defaults' >= Known(proc[p].build)
      /\ \A r \in Procs \ {p} : proc'[r] = proc[r]
  <2>1. CASE defaults < Known(proc[p].build) /\ defaults' = defaults + 1 /\ UNCHANGED proc
    BY <1>1, <1>2, <2>1 DEF StartupInv, ProcOK
  <2>2. CASE defaults >= Known(proc[p].build) /\ UNCHANGED defaults /\ Goto(p, "open")
    <3>1. "open" \in Places
      BY DEF Places
    <3>. QED
      BY <1>2, <2>2, <3>1, GotoMoves DEF StartupInv
  <2>. QED
    BY <2>1, <2>2 DEF Reconcile
<1>4. DataOK'
  BY <1>1, <1>3 DEF StartupInv, DataOK
<1>5. KeysOK' /\ FilesOK' /\ AdminOK'
  BY <1>1, <1>3, OpenRest
<1>6. SchemaOK'
  <2>1. ASSUME NEW r \in Procs
        PROVE  /\ proc'[r].at \in {"backup", "steps"} => 1 .. proc'[r].cur \subseteq shape'
               /\ proc'[r].at = "defaults" \/ Opened(r)' => 1 .. proc'[r].build \subseteq shape'
               /\ Opened(r)' => defaults' >= Known(proc'[r].build)
               /\ At(r, "steps")' => At(r, "steps")
    <3>1. CASE r = p
      BY <1>1, <1>3, <3>1 DEF StartupInv, SchemaOK, Opened, At
    <3>2. CASE r # p
      <4>1. Known(proc[r].build) \in 2 .. 3
        BY DEF Known
      <4>. QED
        BY <1>1, <1>2, <1>3, <3>2, <4>1 DEF StartupInv, SchemaOK, Opened, At
    <3>. QED
      BY <3>1, <3>2
  <2>2. origin' = origin
    BY <1>1 DEF history
  <2>. QED
    BY <1>1, <2>1, <2>2 DEF StartupInv, SchemaOK
<1>. QED
  BY <1>3, <1>4, <1>5, <1>6 DEF StartupInv

(* Past Open, the schema and its defaults are left alone.                  *)
LEMMA OpenedKeeps ==
  ASSUME StartupInv, NEW p \in Procs,
         \A r \in Procs \ {p} : proc'[r] = proc[r],
         proc'[p].at = "idle" \/ (Opened(p) /\ Opened(p)' /\ proc'[p].build = proc[p].build),
         UNCHANGED <<ver, shape, defaults, backups, origin>>
  PROVE  SchemaOK'
<1>1. ASSUME NEW r \in Procs
      PROVE  /\ proc'[r].at \in {"backup", "steps"} => 1 .. proc'[r].cur \subseteq shape'
             /\ proc'[r].at = "defaults" \/ Opened(r)' => 1 .. proc'[r].build \subseteq shape'
             /\ Opened(r)' => defaults' >= Known(proc'[r].build)
             /\ At(r, "steps")' => At(r, "steps")
  <2>1. CASE r = p
    BY <2>1 DEF StartupInv, SchemaOK, Opened, At
  <2>2. CASE r # p
    BY <2>2 DEF StartupInv, SchemaOK, Opened, At
  <2>. QED
    BY <2>1, <2>2
<1>. QED
  BY <1>1 DEF StartupInv, SchemaOK

(* Neither the server nor reset-all touches the files or the administrator. *)
LEMMA ElseKeeps ==
  ASSUME StartupInv, UNCHANGED <<seeded, admin, dir, cut>>,
         proc'["cli"] = proc["cli"] \/ proc'["cli"].at \in {"idle", "stamp"},
         proc["cli"].at \notin {"password", "member", "print"} \/ proc'["cli"] = proc["cli"]
  PROVE  FilesOK' /\ AdminOK'
<1>1. FilesOK'
  BY DEF StartupInv, FilesOK, SeedAt, At
<1>2. AdminOK'
  BY DEF StartupInv, AdminOK, BootAt, At
<1>. QED
  BY <1>1, <1>2

(* mfaStartup: refuse, come up, or write the sentinel first                *)
LEMMA StartStep ==
  ASSUME StartupInv, StartUnkeyed \/ StartKeyed
  PROVE  StartupInv'
<1>1. /\ proc["server"].at = "open" /\ "server" \in Procs /\ "cli" \in Procs \ {"server"}
      /\ UNCHANGED <<ver, shape, defaults, secret, sentinel, seeded, admin, backups, dir, history>>
  BY DEF StartUnkeyed, StartKeyed, At, db, Procs
<1>2. DataOK'
  BY <1>1 DEF StartupInv, DataOK
<1>3. CASE End("server")
  <2>1. ProcOK' /\ proc'["server"] = Idle /\ \A r \in Procs \ {"server"} : proc'[r] = proc[r]
    BY <1>1, <1>3, EndMoves DEF StartupInv
  <2>. QED
    BY <1>1, <1>2, <2>1, IdleProc, MoveKeeps
<1>4. ASSUME NEW a \in {"up", "seal"}, Goto("server", a),
             IF proc["server"].key = NoKey THEN a = "up" /\ Enrolled = {}
             ELSE IF a = "up" THEN sentinel = proc["server"].key ELSE sentinel = NoKey
      PROVE  StartupInv'
  <2>1. a \in Places
    BY DEF Places
  <2>2. /\ ProcOK' /\ proc'["server"].at = a /\ proc'["server"].key = proc["server"].key
        /\ proc'["server"].build = proc["server"].build
        /\ \A r \in Procs \ {"server"} : proc'[r] = proc[r]
    BY <1>1, <1>4, <2>1, GotoMoves DEF StartupInv
  <2>3. Opened("server") /\ Opened("server")'
    BY <1>1, <2>2 DEF Opened
  <2>4. SchemaOK'
    BY <1>1, <2>2, <2>3, OpenedKeeps DEF history
  <2>5. FilesOK' /\ AdminOK'
    BY <1>1, <2>2, ElseKeeps DEF history
  <2>6. KeysOK'
    BY <1>1, <1>4, <2>2 DEF StartupInv, KeysOK, At, Enrolled, history
  <2>. QED
    BY <1>2, <2>2, <2>4, <2>5, <2>6 DEF StartupInv
<1>5. CASE StartUnkeyed
  BY <1>3, <1>4, <1>5 DEF StartUnkeyed
<1>6. CASE StartKeyed
  BY <1>3, <1>4, <1>6 DEF StartKeyed, SentinelOpens
<1>. QED
  BY <1>5, <1>6

LEMMA SealStep ==
  ASSUME StartupInv, SealSentinel
  PROVE  StartupInv'
<1>1. /\ proc["server"].at = "seal" /\ "server" \in Procs /\ "cli" \in Procs \ {"server"}
      /\ sentinel' = proc["server"].key /\ Goto("server", "up")
      /\ UNCHANGED <<ver, shape, defaults, secret, seeded, admin, backups, dir, history>>
  BY DEF SealSentinel, At, Procs
<1>2. proc["server"].key \in Keys \cup {NoKey} /\ "up" \in Places
  BY <1>1 DEF StartupInv, ProcOK, Proc, Places
<1>3. DataOK'
  BY <1>1, <1>2 DEF StartupInv, DataOK
<1>4. /\ ProcOK' /\ proc'["server"].at = "up" /\ proc'["server"].key = proc["server"].key
      /\ proc'["server"].build = proc["server"].build
      /\ \A r \in Procs \ {"server"} : proc'[r] = proc[r]
  BY <1>1, <1>2, GotoMoves DEF StartupInv
<1>5. SchemaOK'
  BY <1>1, <1>4, OpenedKeeps DEF history, Opened
<1>6. FilesOK' /\ AdminOK'
  BY <1>1, <1>4, ElseKeeps DEF history
<1>7. KeysOK'
  BY <1>1, <1>4 DEF StartupInv, KeysOK, At, history
<1>. QED
  BY <1>3, <1>4, <1>5, <1>6, <1>7 DEF StartupInv

LEMMA EnrollStep ==
  ASSUME StartupInv, NEW u \in Users, Enroll(u)
  PROVE  StartupInv'
<1>1. /\ proc["server"].at = "up" /\ proc["server"].key # NoKey /\ "server" \in Procs
      /\ UNCHANGED <<ver, shape, defaults, sentinel, seeded, admin, backups, dir, proc, history>>
  BY DEF Enroll, At, Procs
<1>2. proc["server"].key \in Keys \cup {NoKey}
  BY <1>1 DEF StartupInv, ProcOK, Proc
<1>3. PICK k \in {proc["server"].key, NoKey} : secret' = [secret EXCEPT ![u] = k]
  BY DEF Enroll
<1>4. secret \in [Users -> Keys \cup {NoKey}]
  BY DEF StartupInv, DataOK
<1>5. DataOK'
  BY <1>1, <1>2, <1>3, <1>4 DEF StartupInv, DataOK
<1>6. ProcOK' /\ SchemaOK'
  BY <1>1 DEF StartupInv, ProcOK, SchemaOK, Opened, At, history
<1>7. FilesOK' /\ AdminOK'
  BY <1>1, ElseKeeps DEF history
<1>8. KeysOK'
  BY <1>1, <1>3, <1>4 DEF StartupInv, KeysOK, At, history
<1>. QED
  BY <1>5, <1>6, <1>7, <1>8 DEF StartupInv

LEMMA ResetStep ==
  ASSUME StartupInv, ResetSecrets \/ ResetSentinel
  PROVE  StartupInv'
<1>1. "cli" \in Procs /\ "server" \in Procs \ {"cli"} /\ "stamp" \in Places
      /\ UNCHANGED <<ver, shape, defaults, seeded, admin, backups, dir, origin, cut>>
  BY DEF ResetSecrets, ResetSentinel, Procs, Places, history
<1>2. CASE ResetSecrets
  <2>1. /\ proc["cli"].at = "open" /\ secret' = [u \in Users |-> NoKey] /\ Goto("cli", "stamp")
        /\ sentinel' = sentinel /\ crossed' = crossed
    BY <1>2 DEF ResetSecrets, At, history
  <2>2. DataOK'
    BY <1>1, <2>1 DEF StartupInv, DataOK
  <2>3. /\ ProcOK' /\ proc'["cli"].at = "stamp" /\ proc'["cli"].build = proc["cli"].build
        /\ \A r \in Procs \ {"cli"} : proc'[r] = proc[r]
    BY <1>1, <2>1, GotoMoves DEF StartupInv
  <2>4. SchemaOK'
    BY <1>1, <2>1, <2>3, OpenedKeeps DEF Opened
  <2>5. FilesOK' /\ AdminOK'
    BY <1>1, <2>1, <2>3, ElseKeeps
  <2>6. KeysOK'
    BY <1>1, <2>1, <2>3 DEF StartupInv, KeysOK, At
  <2>. QED
    BY <2>2, <2>3, <2>4, <2>5, <2>6 DEF StartupInv
<1>3. CASE ResetSentinel
  <2>1. /\ proc["cli"].at = "stamp" /\ sentinel' = proc["cli"].key /\ End("cli") /\ secret' = secret
        /\ crossed' = (crossed \/ proc["server"].key \notin {NoKey, proc["cli"].key}
                         \/ \E u \in Users : secret[u] \notin {NoKey, proc["cli"].key})
    BY <1>3 DEF ResetSentinel, At
  <2>2. proc["cli"].key \in Keys \cup {NoKey}
    BY <1>1 DEF StartupInv, ProcOK, Proc
  <2>3. DataOK'
    BY <1>1, <2>1, <2>2 DEF StartupInv, DataOK
  <2>4. /\ ProcOK' /\ proc'["cli"] = Idle /\ \A r \in Procs \ {"cli"} : proc'[r] = proc[r]
    BY <1>1, <2>1, EndMoves DEF StartupInv
  <2>5. SchemaOK'
    BY <1>1, <2>1, <2>4, IdleProc, OpenedKeeps
  <2>6. FilesOK' /\ AdminOK'
    BY <1>1, <2>1, <2>4, IdleProc, ElseKeeps
  <2>7. KeysOK'
    BY <1>1, <2>1, <2>4 DEF StartupInv, KeysOK, At
  <2>. QED
    BY <2>3, <2>4, <2>5, <2>6, <2>7 DEF StartupInv
<1>. QED
  BY <1>2, <1>3

(* What a first-run command does leaves the keys alone.                    *)
LEMMA FirstRunKeeps ==
  ASSUME StartupInv, proc'["server"] = proc["server"], UNCHANGED <<secret, sentinel, crossed>>
  PROVE  KeysOK'
  BY DEF StartupInv, KeysOK, At

LEMMA BootStep ==
  ASSUME StartupInv, RunBootstrap
  PROVE  StartupInv'
<1>1. /\ "cli" \in Procs /\ "server" \in Procs \ {"cli"} /\ proc["cli"].cmd = "bootstrap"
      /\ UNCHANGED <<ver, shape, defaults, secret, sentinel, seeded, backups, dir, history>>
  BY DEF RunBootstrap, BootCount, BootUser, BootPassword, BootMember, BootPrint, BootAt, Unbooted, Procs
<1>2. {"user", "password", "member", "print"} \subseteq Places
  BY DEF Places
<1>3. admin \in [user : {"absent", "printing", "lost", "known"}, member : BOOLEAN]
  BY DEF StartupInv, DataOK
<1>4. CASE BootCount /\ admin.member
  <2>1. proc["cli"].at = "open" /\ admin' = admin /\ End("cli")
    BY <1>4 DEF BootCount, BootAt, At
  <2>2. DataOK'
    BY <1>1, <2>1 DEF StartupInv, DataOK
  <2>3. ProcOK' /\ proc'["cli"] = Idle /\ \A r \in Procs \ {"cli"} : proc'[r] = proc[r]
    BY <1>1, <2>1, EndMoves DEF StartupInv
  <2>. QED
    BY <1>1, <2>1, <2>2, <2>3, IdleProc, MoveKeeps
<1>5. ASSUME NEW a \in {"user", "password", "member", "print"}, Goto("cli", a), Opened("cli"),
             admin' \in [user : {"absent", "printing", "lost", "known"}, member : BOOLEAN],
             a \in {"user", "password", "member"} => ~admin'.member,
             a \in {"member", "print"} => admin'.user = "printing",
             a = "user" => admin'.user # "printing",
             admin'.member /\ admin'.user = "lost" => cut
      PROVE  StartupInv'
  <2>1. /\ ProcOK' /\ proc'["cli"].at = a /\ proc'["cli"].cmd = "bootstrap"
        /\ proc'["cli"].build = proc["cli"].build
        /\ \A r \in Procs \ {"cli"} : proc'[r] = proc[r]
    BY <1>1, <1>2, <1>5, GotoMoves DEF StartupInv
  <2>2. DataOK'
    BY <1>1, <1>5 DEF StartupInv, DataOK
  <2>3. SchemaOK'
    BY <1>1, <1>5, <2>1, OpenedKeeps DEF Opened, history
  <2>4. KeysOK'
    BY <1>1, <2>1, FirstRunKeeps DEF history
  <2>5. FilesOK'
    BY <1>1, <1>5, <2>1 DEF StartupInv, FilesOK, SeedAt, At
  <2>6. AdminOK'
    BY <1>1, <1>5, <2>1 DEF AdminOK, BootAt, At, history
  <2>. QED
    BY <2>1, <2>2, <2>3, <2>4, <2>5, <2>6 DEF StartupInv
<1>6. CASE BootCount /\ ~admin.member
  <2>1. proc["cli"].at = "open" /\ admin' = admin /\ Goto("cli", "user")
    BY <1>6 DEF BootCount, BootAt, At
  <2>. QED
    BY <1>3, <1>5, <1>6, <2>1 DEF StartupInv, AdminOK, BootAt, At, Opened
<1>7. CASE BootUser
  <2>1. /\ proc["cli"].at = "user" /\ Goto("cli", "password")
        /\ admin' = IF admin.user = "absent" THEN [admin EXCEPT !.user = "printing"] ELSE admin
    BY <1>7 DEF BootUser, BootAt, At
  <2>2. ~admin.member
    BY <1>1, <2>1 DEF StartupInv, AdminOK, BootAt, At
  <2>. QED
    BY <1>3, <1>5, <2>1, <2>2 DEF Opened
<1>8. CASE BootPassword
  <2>1. /\ proc["cli"].at = "password" /\ Goto("cli", "member")
        /\ admin' = [admin EXCEPT !.user = "printing"]
    BY <1>8 DEF BootPassword, BootAt, At
  <2>2. ~admin.member
    BY <1>1, <2>1 DEF StartupInv, AdminOK, BootAt, At
  <2>. QED
    BY <1>3, <1>5, <2>1, <2>2 DEF Opened
<1>9. CASE BootMember
  <2>1. /\ proc["cli"].at = "member" /\ Goto("cli", "print")
        /\ admin' = [admin EXCEPT !.member = TRUE]
    BY <1>9 DEF BootMember, BootAt, At
  <2>2. admin.user = "printing"
    BY <1>1, <2>1 DEF StartupInv, AdminOK, BootAt, At
  <2>. QED
    BY <1>3, <1>5, <2>1, <2>2 DEF Opened
<1>10. CASE BootPrint
  <2>1. /\ proc["cli"].at = "print" /\ End("cli")
        /\ admin' = IF admin.user = "printing" THEN [admin EXCEPT !.user = "known"] ELSE admin
    BY <1>10 DEF BootPrint, BootAt, At
  <2>2. ProcOK' /\ proc'["cli"] = Idle /\ \A r \in Procs \ {"cli"} : proc'[r] = proc[r]
    BY <1>1, <2>1, EndMoves DEF StartupInv
  <2>3. admin.user = "printing" /\ admin' = [admin EXCEPT !.user = "known"]
    BY <1>1, <2>1 DEF StartupInv, AdminOK, BootAt, At
  <2>4. DataOK'
    BY <1>1, <1>3, <2>3 DEF StartupInv, DataOK
  <2>5. SchemaOK'
    BY <1>1, <2>2, IdleProc, OpenedKeeps DEF history
  <2>6. KeysOK'
    BY <1>1, <2>2, FirstRunKeeps DEF history
  <2>7. FilesOK'
    BY <1>1, <2>2, IdleProc DEF StartupInv, FilesOK, SeedAt, At
  <2>8. AdminOK'
    BY <1>3, <2>2, <2>3, IdleProc DEF AdminOK, BootAt, At
  <2>. QED
    BY <2>2, <2>4, <2>5, <2>6, <2>7, <2>8 DEF StartupInv
<1>. QED
  BY <1>4, <1>6, <1>7, <1>8, <1>9, <1>10 DEF RunBootstrap

LEMMA SeedStep ==
  ASSUME StartupInv, RunSeed \/ WriteFile \/ WriteConfig
  PROVE  StartupInv'
<1>1. /\ "cli" \in Procs /\ "server" \in Procs \ {"cli"} /\ proc["cli"].cmd \in {"seed", "quickstart"}
      /\ UNCHANGED <<ver, shape, defaults, secret, sentinel, admin, backups, history>>
  BY DEF RunSeed, SeedCheck, SeedUsers, SeedServices, WriteFile, WriteConfig, SeedAt, Unseeded, Procs
<1>2. {"users", "services", "files"} \subseteq Places
  BY DEF Places
<1>3. /\ seeded \subseteq {"users", "services"}
      /\ dir \in [db : BOOLEAN, files : {0} \cup AllFiles, config : {"none", "empty", "full"}]
  BY DEF StartupInv, DataOK
<1>4. ASSUME ProcOK', \A r \in Procs \ {"cli"} : proc'[r] = proc[r],
             seeded' \subseteq {"users", "services"},
             dir' \in [db : BOOLEAN, files : {0} \cup AllFiles, config : {"none", "empty", "full"}],
             proc["cli"].at \in {"open", "users", "services", "files"},
             \/ proc'["cli"].at = "idle" /\ proc'["cli"].cmd = "none"
             \/ /\ proc'["cli"].at \in {"users", "services", "files"}
                /\ proc'["cli"].cmd = proc["cli"].cmd /\ proc'["cli"].build = proc["cli"].build,
             FilesOK'
      PROVE  StartupInv'
  <2>1. DataOK'
    BY <1>1, <1>4 DEF StartupInv, DataOK
  <2>2. SchemaOK'
    BY <1>1, <1>4, OpenedKeeps DEF Opened, history
  <2>3. KeysOK'
    BY <1>1, <1>4, FirstRunKeeps DEF history
  <2>4. AdminOK'
    BY <1>1, <1>4 DEF StartupInv, AdminOK, BootAt, At, history
  <2>. QED
    BY <1>4, <2>1, <2>2, <2>3, <2>4 DEF StartupInv
<1>5. FilesOK
  BY DEF StartupInv
<1>6. ASSUME End("cli")
      PROVE  /\ ProcOK' /\ proc'["cli"].at = "idle" /\ proc'["cli"].cmd = "none"
             /\ \A r \in Procs \ {"cli"} : proc'[r] = proc[r]
  BY <1>1, <1>6, EndMoves, IdleProc DEF StartupInv
<1>7. ASSUME NEW a \in {"users", "services", "files"}, Goto("cli", a)
      PROVE  /\ ProcOK' /\ proc'["cli"].at = a /\ proc'["cli"].cmd = proc["cli"].cmd
             /\ proc'["cli"].build = proc["cli"].build
             /\ \A r \in Procs \ {"cli"} : proc'[r] = proc[r]
  BY <1>1, <1>2, <1>7, GotoMoves DEF StartupInv
<1>8. CASE SeedCheck
  <2>1. /\ proc["cli"].at = "open" /\ seeded' = seeded /\ dir' = dir
        /\ End("cli") \/ Goto("cli", "users")
    BY <1>8 DEF SeedCheck, SeedAt, At
  <2>2. proc'["cli"].at \in {"idle", "users"}
    BY <1>6, <1>7, <2>1
  <2>3. FilesOK'
    BY <1>5, <2>1, <2>2 DEF FilesOK, SeedAt, At
  <2>. QED
    BY <1>3, <1>4, <1>6, <1>7, <2>1, <2>3
<1>9. CASE SeedUsers
  <2>1. /\ proc["cli"].at = "users" /\ seeded' = seeded \cup {"users"} /\ dir' = dir
        /\ Goto("cli", "services")
    BY <1>9 DEF SeedUsers, SeedAt, At
  <2>2. proc'["cli"].at = "services"
    BY <1>7, <2>1
  <2>3. FilesOK'
    BY <1>3, <1>5, <2>1, <2>2 DEF FilesOK, SeedAt, At
  <2>. QED
    BY <1>3, <1>4, <1>7, <2>1, <2>3
<1>10. CASE SeedServices
  <2>1. /\ proc["cli"].at = "services" /\ seeded' = seeded \cup {"services"} /\ dir' = dir
        /\ End("cli") \/ Goto("cli", "files")
    BY <1>10 DEF SeedServices, SeedAt, At
  <2>2. proc'["cli"].at \in {"idle", "files"}
    BY <1>6, <1>7, <2>1
  <2>3. "users" \in seeded
    BY <1>1, <1>5, <2>1 DEF FilesOK, SeedAt, At
  <2>4. FilesOK'
    BY <1>3, <1>5, <2>1, <2>2, <2>3 DEF FilesOK, SeedAt, At
  <2>. QED
    BY <1>3, <1>4, <1>6, <1>7, <2>1, <2>4
<1>11. CASE WriteFile
  <2>1. /\ proc["cli"].at = "files" /\ seeded' = seeded /\ proc' = proc
        /\ dir.files + 1 \in AllFiles /\ dir' = [dir EXCEPT !.files = @ + 1]
    BY <1>11 DEF WriteFile, SeedAt, At
  <2>2. /\ dir' \in [db : BOOLEAN, files : {0} \cup AllFiles, config : {"none", "empty", "full"}]
        /\ dir'.config = dir.config
    BY <1>3, <2>1
  <2>3. dir.config = "none"
    BY <1>5, <2>1 DEF FilesOK
  <2>4. FilesOK'
    BY <1>5, <2>1, <2>2, <2>3 DEF FilesOK, SeedAt, At
  <2>5. ProcOK'
    BY <2>1 DEF StartupInv, ProcOK
  <2>. QED
    BY <1>3, <1>4, <2>1, <2>2, <2>4, <2>5
<1>12. CASE WriteConfig
  <2>1. /\ proc["cli"].at = "files" /\ seeded' = seeded /\ dir.files + 1 \notin AllFiles
        /\ \/ dir' = [dir EXCEPT !.config = "empty"] /\ proc' = proc
           \/ dir' = [dir EXCEPT !.config = "full"] /\ End("cli")
    BY <1>12 DEF WriteConfig, SeedAt, At
  <2>2. /\ dir' \in [db : BOOLEAN, files : {0} \cup AllFiles, config : {"none", "empty", "full"}]
        /\ dir'.files = dir.files
    BY <1>3, <2>1
  <2>3. seeded = {"users", "services"}
    BY <1>1, <1>5, <2>1 DEF FilesOK, SeedAt, At
  <2>4. /\ ProcOK' /\ \A r \in Procs \ {"cli"} : proc'[r] = proc[r]
        /\ proc'["cli"] = proc["cli"] \/ (proc'["cli"].at = "idle" /\ proc'["cli"].cmd = "none")
    BY <1>6, <2>1 DEF StartupInv, ProcOK
  <2>5. FilesOK'
    BY <2>1, <2>2, <2>3, <2>4 DEF FilesOK, SeedAt, At
  <2>. QED
    BY <1>3, <1>4, <2>1, <2>2, <2>4, <2>5
<1>. QED
  BY <1>8, <1>9, <1>10, <1>11, <1>12 DEF RunSeed

-----------------------------------------------------------------------------
(* Every write of every command keeps what the others rely on.             *)
LEMMA NextStartup == StartupInv /\ [Next]_vars => StartupInv'
<1>. SUFFICES ASSUME StartupInv, [Next]_vars PROVE StartupInv'
  OBVIOUS
<1>1. CASE UNCHANGED vars
  BY <1>1 DEF vars, StartupInv, DataOK, ProcOK, KeysOK, SchemaOK, FilesOK, AdminOK, SeedAt, BootAt,
              At, Opened
<1>2. CASE Serve \/ ResetAll \/ Bootstrap \/ Seed \/ Quickstart
  BY <1>2, LaunchStep
<1>3. ASSUME NEW p \in Procs, Kill(p) \/ Open(p) PROVE StartupInv'
  BY <1>3, KillStep, VersionStep, BackupStep, MigrationStep, CheckStep, ReconcileStep DEF Open
<1>4. CASE StartUnkeyed \/ StartKeyed
  BY <1>4, StartStep
<1>5. CASE SealSentinel \/ \E u \in Users : Enroll(u)
  BY <1>5, SealStep, EnrollStep
<1>6. CASE ResetSecrets \/ ResetSentinel
  BY <1>6, ResetStep
<1>7. CASE RunBootstrap
  BY <1>7, BootStep
<1>8. CASE RunSeed \/ WriteFile \/ WriteConfig
  BY <1>8, SeedStep
<1>. QED
  BY <1>1, <1>2, <1>3, <1>4, <1>5, <1>6, <1>7, <1>8 DEF Next, Procs

(* It holds after any sequence of commands, cuts and reruns.               *)
LEMMA StartupHolds == Spec => []StartupInv
<1>. QED
  BY InitStartup, NextStartup, PTL DEF Spec

(* mfaStartup and runMFAResetAll: what is up can open every secret, unless *)
(* reset-all ran across a server with another key.                         *)
THEOREM SecretsStayOpen == Spec => []SecretsOpen
<1>1. StartupInv => SecretsOpen
  BY DEF StartupInv, KeysOK, SecretsOpen
<1>. QED
  BY <1>1, StartupHolds, PTL

(* runMigrations, Provision and runBootstrap: no upgrade without its       *)
(* snapshot, no half-open store, no config file before the rest, and no    *)
(* administrator with an unseen password but by the one cut.               *)
THEOREM Sound == Spec => []InstallationSound
<1>1. ASSUME StartupInv PROVE InstallationSound
  <2>1. TypeOK /\ DOMAIN proc = Procs
    BY <1>1, Typed DEF StartupInv, ProcOK
  <2>. QED
    BY <1>1, <2>1 DEF StartupInv, SchemaOK, FilesOK, AdminOK, InstallationSound
<1>. QED
  BY <1>1, StartupHolds, PTL

-----------------------------------------------------------------------------
(* Deployment.  ServesAsConfigured speaks of the ends of a start only.     *)
(* What carries it from one to the other is what is open in between:       *)
(* BindOK says so for each step of Build, in terms of the configuration    *)
(* Load returned, and Sources says what that configuration has of each     *)
(* place it was set in.                                                    *)

Ours == {"plain", "tls"}
Up == {"store", "plain", "keypair", "tls", "serving"}

PlainAt(a) == cfg["plain.enabled"] /\ cfg["plain.addr"] = a
TLSAt(a) == cfg["tls.enabled"] /\ cfg["tls.addr"] = a

DeployTypeOK ==
  /\ step \in {"down", "load"} \cup Up
  /\ asked \in Deployments
  /\ port \in [Ports -> {"free", "other"} \cup Ours]

LoadOK == step \in Up => cfg = Configured(asked) /\ ~LoadFails(asked)

(* What is open at each step of Build *)
BindOK ==
  /\ step \in {"down", "load", "store", "plain"} =>
       lns = {} /\ \A a \in Ports : port[a] \notin Ours
  /\ step \in {"keypair", "tls"} =>
       /\ lns = {a \in Ports : port[a] \in Ours}
       /\ \A a \in Ports : (port[a] = "plain" <=> PlainAt(a)) /\ port[a] # "tls"
  /\ step = "tls" => cfg["tls.enabled"]
  /\ step = "serving" =>
       \A a \in Ports : (port[a] = "plain" <=> PlainAt(a)) /\ (port[a] = "tls" <=> TLSAt(a))

DeployInv == DeployTypeOK /\ LoadOK /\ BindOK

-----------------------------------------------------------------------------

(* A setting is the flag's if there is one, else the file's, else the      *)
(* default.                                                                *)
LEMMA Layers ==
  ASSUME NEW d \in Deployments, NEW s \in FileSettings \ {"mfa.key"}
  PROVE  /\ d.file = "read" =>
              Configured(d)[s] = IF Given(d.flags, s) THEN d.flags[s]
                                 ELSE IF Given(d.set, s) THEN d.set[s] ELSE configDefaults[s]
         /\ d.file # "read" =>
              Configured(d)[s] = IF Given(d.flags, s) THEN d.flags[s] ELSE configDefaults[s]
         /\ d.file = "read" => mergeFile(d)[s] = IF Given(d.set, s) THEN d.set[s] ELSE configDefaults[s]
         /\ d.file # "read" => mergeFile(d)[s] = configDefaults[s]
<1>. DEFINE over == Overlay(configDefaults, d.set)
            merged == Overlay(mergeFile(d), d.flags)
<1>1. DOMAIN over = FileSettings /\ over[s] = IF Given(d.set, s) THEN d.set[s] ELSE configDefaults[s]
  BY DEF Overlay
<1>2. DOMAIN configDefaults = FileSettings
  BY DEF configDefaults
<1>3. /\ d.file = "read" => mergeFile(d)[s] = over[s]
      /\ d.file # "read" => mergeFile(d)[s] = configDefaults[s]
  BY <1>1 DEF mergeFile
<1>4. DOMAIN merged = FileSettings /\ merged[s] = IF Given(d.flags, s) THEN d.flags[s] ELSE mergeFile(d)[s]
  BY DEF Overlay
<1>5. Configured(d)[s] = merged[s]
  BY <1>4 DEF Configured
<1>. QED
  BY <1>1, <1>3, <1>4, <1>5

(* The defaults of the listeners *)
LEMMA Defaults ==
  /\ configDefaults["plain.enabled"] = TRUE
  /\ configDefaults["plain.addr"] = defaultPlainAddr
  /\ configDefaults["tls.enabled"] = FALSE
  /\ configDefaults["tls.addr"] = ""
BY DEF configDefaults, FileSettings

(* Where a flag exists it may be given; the other settings have none. *)
LEMMA Flags ==
  ASSUME NEW d \in Deployments
  PROVE  /\ Given(d.flags, "plain.addr") <=> d.flags["plain.addr"] # Unset
         /\ ~Given(d.flags, "plain.enabled")
         /\ ~Given(d.flags, "tls.enabled")
         /\ ~Given(d.flags, "tls.addr")
         /\ \A s \in FileSettings : Given(d.set, s) <=> d.set[s] # Unset
<1>1. DOMAIN d.set = FileSettings /\ DOMAIN d.flags = FlagSettings
  BY DeploymentAssumption
<1>2. /\ "plain.addr" \in FlagSettings
      /\ "plain.enabled" \notin FlagSettings /\ "tls.enabled" \notin FlagSettings
      /\ "tls.addr" \notin FlagSettings
  BY DEF FlagSettings
<1>. QED
  BY <1>1, <1>2, Zenon DEF Given

(* What a configuration that Load returns has of each source *)
LEMMA Sources ==
  ASSUME NEW d \in Deployments, ~LoadFails(d)
  PROVE  LET c == Configured(d) IN
         /\ c["plain.enabled"] <=> ~(d.file = "read" /\ d.set["plain.enabled"] = FALSE)
         /\ c["tls.enabled"] <=> (d.file = "read" /\ d.set["tls.enabled"] = TRUE)
         /\ c["plain.enabled"] =>
              /\ c["plain.addr"] \in Ports
              /\ c["plain.addr"] = IF d.flags["plain.addr"] # Unset THEN d.flags["plain.addr"]
                                   ELSE IF d.file = "read" /\ d.set["plain.addr"] # Unset
                                   THEN d.set["plain.addr"] ELSE defaultPlainAddr
         /\ c["tls.enabled"] => c["tls.addr"] \in Ports /\ c["tls.addr"] = d.set["tls.addr"]
         /\ d.env # Unset => c["mfa.key"] = d.env
         /\ validate(c)
<1>. DEFINE c == Configured(d)
<1>1. validate(c)
  BY DEF LoadFails
<1>2. /\ "plain.enabled" \in FileSettings \ {"mfa.key"} /\ "tls.enabled" \in FileSettings \ {"mfa.key"}
      /\ "plain.addr" \in FileSettings \ {"mfa.key"} /\ "tls.addr" \in FileSettings \ {"mfa.key"}
      /\ "plain.addr" \in FlagSettings
      /\ \A s \in {"plain.enabled", "tls.enabled", "plain.addr", "tls.addr"} : s # "mfa.key_file"
  BY DEF FileSettings, FlagSettings
<1>3. /\ d.flags["plain.addr"] # Malformed
      /\ d.file = "read" => \A s \in {"plain.enabled", "tls.enabled", "plain.addr", "tls.addr"} :
                              d.set[s] # Malformed
  BY <1>2 DEF LoadFails, FileFails
<1>4. /\ {d.set["plain.enabled"], d.set["tls.enabled"]} \subseteq BOOLEAN \cup {Unset, Malformed}
      /\ {d.set["plain.addr"], d.set["tls.addr"], d.flags["plain.addr"]}
            \subseteq Ports \cup {"", Unset, Malformed}
      /\ defaultPlainAddr \in Ports /\ Unset # TRUE /\ Unset # FALSE
  BY DeploymentAssumption
<1>5. c["plain.enabled"] = IF d.file = "read" /\ d.set["plain.enabled"] # Unset
                           THEN d.set["plain.enabled"] ELSE TRUE
  BY <1>2, Layers, Flags, Defaults
<1>6. c["tls.enabled"] = IF d.file = "read" /\ d.set["tls.enabled"] # Unset
                         THEN d.set["tls.enabled"] ELSE FALSE
  BY <1>2, Layers, Flags, Defaults
<1>7. c["plain.enabled"] <=> ~(d.file = "read" /\ d.set["plain.enabled"] = FALSE)
  BY <1>3, <1>4, <1>5
<1>8. c["tls.enabled"] <=> (d.file = "read" /\ d.set["tls.enabled"] = TRUE)
  BY <1>3, <1>4, <1>6
<1>9. c["plain.addr"] = IF d.flags["plain.addr"] # Unset THEN d.flags["plain.addr"]
                        ELSE IF d.file = "read" /\ d.set["plain.addr"] # Unset
                        THEN d.set["plain.addr"] ELSE defaultPlainAddr
  BY <1>2, Layers, Flags, Defaults
<1>10. c["tls.addr"] = IF d.file = "read" /\ d.set["tls.addr"] # Unset THEN d.set["tls.addr"] ELSE ""
  BY <1>2, Layers, Flags, Defaults
<1>11. /\ c["plain.enabled"] => c["plain.addr"] # ""
       /\ c["tls.enabled"] => c["tls.addr"] # ""
  BY <1>1 DEF validate
<1>12. c["plain.enabled"] => c["plain.addr"] \in Ports
  BY <1>3, <1>4, <1>9, <1>11
<1>13. c["tls.enabled"] => c["tls.addr"] \in Ports /\ c["tls.addr"] = d.set["tls.addr"]
  BY <1>3, <1>4, <1>8, <1>10, <1>11
<1>14. d.env # Unset => c["mfa.key"] = d.env
  BY DEF Configured, Overlay, FileSettings
<1>. QED
  BY <1>1, <1>7, <1>8, <1>9, <1>12, <1>13, <1>14
-----------------------------------------------------------------------------

(* Nothing of ours is open at first. *)
LEMMA DeployInitInv == DeployInit => DeployInv
BY DEF DeployInit, DeployInv, DeployTypeOK, LoadOK, BindOK, Up, Ours

(* A closed listener's address is free again, and nothing else changes. *)
LEMMA CloseAllClears ==
  ASSUME CloseAll, port \in [Ports -> {"free", "other"} \cup Ours],
         lns = {a \in Ports : port[a] \in Ours}
  PROVE  /\ lns' = {}
         /\ port' \in [Ports -> {"free", "other"} \cup Ours]
         /\ \A a \in Ports : port'[a] \notin Ours
BY DEF CloseAll, Ours

(* The steps of runServe, one by one *)
LEMMA LoadInv ==
  ASSUME DeployInv, Load
  PROVE  DeployInv'
BY DEF Load, DeployInv, DeployTypeOK, LoadOK, BindOK, Up

(* The plaintext socket: opened, not wanted, or not to be had *)
LEMMA ListenPlainInv ==
  ASSUME DeployInv, ListenPlain
  PROVE  DeployInv'
<1>1. step = "plain" /\ UNCHANGED <<asked, cfg>> /\ lns = {}
      /\ \A a \in Ports : port[a] \notin Ours
  BY DEF DeployInv, BindOK, ListenPlain
<1>2. asked \in Deployments /\ port \in [Ports -> {"free", "other"} \cup Ours]
  BY DEF DeployInv, DeployTypeOK
<1>3. cfg = Configured(asked) /\ ~LoadFails(asked)
  BY <1>1 DEF DeployInv, LoadOK, Up
<1>4. cfg["plain.enabled"] => cfg["plain.addr"] \in Ports
  BY <1>2, <1>3, Sources
<1>5. CASE ~cfg["plain.enabled"]
  BY <1>1, <1>2, <1>3, <1>5 DEF ListenPlain, DeployInv, DeployTypeOK, LoadOK, BindOK, Up, Ours, PlainAt
<1>6. CASE cfg["plain.enabled"] /\ port[cfg["plain.addr"]] = "free"
  BY <1>1, <1>2, <1>3, <1>4, <1>6
  DEF ListenPlain, Bind, DeployInv, DeployTypeOK, LoadOK, BindOK, Up, Ours, PlainAt
<1>7. CASE cfg["plain.enabled"] /\ port[cfg["plain.addr"]] # "free"
  <2>1. CloseAll /\ step' = "down"
    BY <1>7 DEF ListenPlain, Bind
  <2>. QED
    BY <1>1, <1>2, <2>1, CloseAllClears DEF DeployInv, DeployTypeOK, LoadOK, BindOK, Up
<1>. QED
  BY <1>5, <1>6, <1>7

(* The certificate: not needed, loaded, or bad with a socket open *)
LEMMA LoadKeyPairInv ==
  ASSUME DeployInv, LoadKeyPair
  PROVE  DeployInv'
<1>1. step = "keypair" /\ UNCHANGED <<asked, cfg>>
  BY DEF LoadKeyPair
<1>2. asked \in Deployments /\ port \in [Ports -> {"free", "other"} \cup Ours]
  BY DEF DeployInv, DeployTypeOK
<1>3. lns = {a \in Ports : port[a] \in Ours}
  BY <1>1 DEF DeployInv, BindOK
<1>4. CASE step' = "down" /\ CloseAll
  BY <1>1, <1>2, <1>3, <1>4, CloseAllClears DEF DeployInv, DeployTypeOK, LoadOK, BindOK, Up
<1>5. CASE ~cfg["tls.enabled"] /\ step' = "serving" /\ UNCHANGED <<lns, port>>
  BY <1>1, <1>2, <1>5 DEF DeployInv, DeployTypeOK, LoadOK, BindOK, Up, PlainAt, TLSAt
<1>6. CASE cfg["tls.enabled"] /\ step' = "tls" /\ UNCHANGED <<lns, port>>
  BY <1>1, <1>2, <1>6 DEF DeployInv, DeployTypeOK, LoadOK, BindOK, Up, PlainAt
<1>. QED
  BY <1>4, <1>5, <1>6 DEF LoadKeyPair

(* The TLS socket, beside the plaintext one or alone *)
LEMMA ListenTLSInv ==
  ASSUME DeployInv, ListenTLS
  PROVE  DeployInv'
<1>1. step = "tls" /\ UNCHANGED <<asked, cfg>> /\ cfg["tls.enabled"]
  BY DEF ListenTLS, DeployInv, BindOK
<1>2. asked \in Deployments /\ port \in [Ports -> {"free", "other"} \cup Ours]
  BY DEF DeployInv, DeployTypeOK
<1>3. lns = {a \in Ports : port[a] \in Ours}
      /\ \A a \in Ports : (port[a] = "plain" <=> PlainAt(a)) /\ port[a] # "tls"
  BY <1>1 DEF DeployInv, BindOK
<1>4. cfg = Configured(asked) /\ ~LoadFails(asked)
  BY <1>1 DEF DeployInv, LoadOK, Up
<1>5. cfg["tls.addr"] \in Ports
  BY <1>1, <1>2, <1>4, Sources
<1>6. CASE port[cfg["tls.addr"]] = "free"
  BY <1>1, <1>2, <1>3, <1>4, <1>5, <1>6
  DEF ListenTLS, Bind, DeployInv, DeployTypeOK, LoadOK, BindOK, Up, Ours, PlainAt, TLSAt
<1>7. CASE port[cfg["tls.addr"]] # "free"
  <2>1. CloseAll /\ step' = "down"
    BY <1>7 DEF ListenTLS, Bind
  <2>. QED
    BY <1>1, <1>2, <1>3, <2>1, CloseAllClears DEF DeployInv, DeployTypeOK, LoadOK, BindOK, Up
<1>. QED
  BY <1>6, <1>7

(* Every step of the specification *)
LEMMA DeployStep ==
  ASSUME DeployInv, [DeployNext]_deployVars
  PROVE  DeployInv'
<1>1. CASE StartServe \/ OpenStore
  BY <1>1 DEF StartServe, OpenStore, DeployInv, DeployTypeOK, LoadOK, BindOK, Up
<1>2. CASE EndServe
  BY <1>2 DEF EndServe, DeployInv, DeployTypeOK, LoadOK, BindOK, Up, Ours
<1>3. CASE OtherProgram
  BY <1>3 DEF OtherProgram, DeployInv, DeployTypeOK, LoadOK, BindOK, Up, Ours, PlainAt, TLSAt
<1>4. CASE UNCHANGED deployVars
  BY <1>4 DEF deployVars, DeployInv, DeployTypeOK, LoadOK, BindOK, Up, PlainAt, TLSAt
<1>. QED
  BY <1>1, <1>2, <1>3, <1>4, LoadInv, ListenPlainInv, LoadKeyPairInv, ListenTLSInv DEF DeployNext

(* What the open sockets are in terms of the sources *)
LEMMA DeployInvImplies == DeployInv => ServesAsConfigured
<1>. SUFFICES ASSUME DeployInv PROVE ServesAsConfigured
  OBVIOUS
<1>1. asked \in Deployments /\ port \in [Ports -> {"free", "other"} \cup Ours]
  BY DEF DeployInv, DeployTypeOK
<1>2. step \in {"down", "load", "store"} => \A a \in Ports : {port[a]} \cap Ours = {}
  BY DEF DeployInv, BindOK
<1>3. ASSUME step = "serving"
      PROVE  /\ \A a \in Ports : {port[a]} \cap Ours = Wanted[a]
             /\ \E a \in Ports : {port[a]} \cap Ours # {}
             /\ validate(cfg)
             /\ asked.env # Unset => cfg["mfa.key"] = asked.env
  <2>1. cfg = Configured(asked) /\ ~LoadFails(asked)
    BY <1>3 DEF DeployInv, LoadOK, Up
  <2>2. /\ cfg["plain.enabled"] <=> ~FileSays("plain.enabled", FALSE)
        /\ cfg["tls.enabled"] <=> FileSays("tls.enabled", TRUE)
        /\ cfg["plain.enabled"] => cfg["plain.addr"] \in Ports /\ cfg["plain.addr"] = PlainAddr
        /\ cfg["tls.enabled"] => cfg["tls.addr"] \in Ports /\ cfg["tls.addr"] = asked.set["tls.addr"]
        /\ asked.env # Unset => cfg["mfa.key"] = asked.env
        /\ validate(cfg)
    BY <1>1, <2>1, Sources DEF FileSays, FileGives, PlainAddr
  <2>3. \A a \in Ports : (port[a] = "plain" <=> PlainAt(a)) /\ (port[a] = "tls" <=> TLSAt(a))
    BY <1>3 DEF DeployInv, BindOK
  <2>4. \A a \in Ports :
          Wanted[a] = (IF PlainAt(a) THEN {"plain"} ELSE {}) \cup (IF TLSAt(a) THEN {"tls"} ELSE {})
    BY <2>2 DEF Wanted, PlainAt, TLSAt
  <2>5. ASSUME NEW a \in Ports PROVE {port[a]} \cap Ours = Wanted[a]
    BY <2>3, <2>4 DEF Ours
  <2>6. \E a \in Ports : PlainAt(a) \/ TLSAt(a)
    BY <2>2 DEF validate, PlainAt, TLSAt
  <2>7. \E a \in Ports : {port[a]} \cap Ours # {}
    BY <2>3, <2>6 DEF Ours
  <2>. QED
    BY <2>2, <2>5, <2>7
<1>. QED
  BY <1>2, <1>3 DEF ServesAsConfigured, validate, Ours

(* A gateway serves on exactly the sockets its configuration calls for,    *)
(* and one that is down or failed to start holds none, with any addresses, *)
(* files, flags and environments (Load, validate, Build, closeAll).        *)
THEOREM Serves == DeploySpec => []ServesAsConfigured
<1>1. DeploySpec => []DeployInv
  BY DeployInitInv, DeployStep, PTL DEF DeploySpec
<1>. QED
  BY <1>1, DeployInvImplies, PTL
=============================================================================
