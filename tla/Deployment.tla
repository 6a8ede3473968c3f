----------------------------- MODULE Deployment -----------------------------
(***************************************************************************)
(* How `serve` comes to listen: the configuration it loads                 *)
(* (internal/config/config.go), the sockets it opens                       *)
(* (internal/listen/listen.go), and runServe of cmd/tn3270proxy/main.go,   *)
(* which puts the store between the two.                                   *)
(*                                                                         *)
(* A setting may be made in three places: a default, the configuration     *)
(* file, a flag, each of which overrides the one before; the MFA key in    *)
(* the file or in the environment.  Any of them can be wrong, any step can *)
(* fail, and the ports are shared with other programs.                     *)
(*                                                                         *)
(* Abstractions.  A value that does not parse is Malformed.  One limit     *)
(* that must be positive stands for the four; the content of key_file      *)
(* stands for its name.  Store.Open and the key check, which Startup.tla   *)
(* has, are a step that may fail.                                          *)
(***************************************************************************)
EXTENDS Integers

CONSTANTS
  Unset,        \* no value is given
  Malformed,    \* a value that does not parse
  Deployments,  \* the files, flags and environments serve is started with
  Ports,        \* the addresses a listener can have
  defaultPlainAddr

FileSettings ==
  {"db", "plain.enabled", "plain.addr", "tls.enabled", "tls.addr", "tls.cert", "tls.key",
   "log.level", "mfa.key", "mfa.key_file", "limits.idle", "limits.max_per_ip", "limits.bridge_idle"}
FlagSettings == {"db", "plain.addr", "log.level", "limits.idle", "limits.max_per_ip"}

(* A deployment: what becomes of the file (read, unless it is missing,     *)
(* unreadable or has an unknown key), what it sets, whether -config names  *)
(* it, the other flags, and the key in the environment.                    *)
ASSUME DeploymentAssumption ==
  /\ defaultPlainAddr \in Ports
  /\ Unset # Malformed
  /\ \A v \in {Unset, Malformed} : v \notin Ports /\ v \notin BOOLEAN
  /\ \A d \in Deployments :
       /\ d.file \in {"none", "unreadable", "unknown key", "read"}
       /\ DOMAIN d.set = FileSettings /\ DOMAIN d.flags = FlagSettings
       /\ {d.set["plain.enabled"], d.set["tls.enabled"]} \subseteq BOOLEAN \cup {Unset, Malformed}
       /\ {d.set["plain.addr"], d.set["tls.addr"], d.flags["plain.addr"]}
            \subseteq Ports \cup {"", Unset, Malformed}

VARIABLES
  step,      \* where runServe stands
  asked,     \* the deployment it was started with
  cfg,       \* the configuration Load returned
  lns,       \* the listeners Build has opened
  port       \* who holds each address: "free", "other", or the kind of our
             \* listener, "plain" or "tls"

deployVars == <<step, asked, cfg, lns, port>>

DeployInit ==
  /\ step = "down"
  /\ asked \in Deployments
  /\ cfg = Unset
  /\ lns = {}
  /\ port \in [Ports -> {"free", "other"}]

-----------------------------------------------------------------------------
(* config.Load *)

configDefaults ==
  [[s \in FileSettings |-> ""] EXCEPT
     !["db"] = "tn3270proxy.db",
     !["plain.enabled"] = TRUE, !["plain.addr"] = defaultPlainAddr, !["tls.enabled"] = FALSE,
     !["log.level"] = "info", !["mfa.key"] = Unset, !["mfa.key_file"] = Unset,
     !["limits.idle"] = 30, !["limits.max_per_ip"] = 16, !["limits.bridge_idle"] = "disconnect"]

Given(layer, s) == s \in DOMAIN layer /\ layer[s] # Unset

Overlay(under, layer) == [s \in FileSettings |-> IF Given(layer, s) THEN layer[s] ELSE under[s]]

(* key_file is looked at only when there is no key. *)
ReadsKeyFile(set) == set["mfa.key"] \in {Unset, ""} /\ set["mfa.key_file"] \notin {Unset, ""}

(* mergeFile: only the default file may be missing. *)
FileFails(d) ==
  \/ d.file = "none" /\ d.explicit
  \/ d.file \in {"unreadable", "unknown key"}
  \/ /\ d.file = "read"
     /\ \/ \E s \in FileSettings \ {"mfa.key_file"} : d.set[s] = Malformed
        \/ ReadsKeyFile(d.set) /\ d.set["mfa.key_file"] = Malformed

mergeFile(d) ==
  IF d.file # "read" THEN configDefaults
  ELSE LET merged == Overlay(configDefaults, d.set)
           key == IF ReadsKeyFile(d.set) THEN d.set["mfa.key_file"]
                  ELSE IF d.set["mfa.key"] = "" THEN Unset ELSE d.set["mfa.key"]
       IN [merged EXCEPT !["mfa.key"] = key]

(* -listen may not enable what the file disabled. *)
ListenConflict(d) == Given(d.flags, "plain.addr") /\ ~mergeFile(d)["plain.enabled"]

(* The file under the flags, and the environment's key over the file's *)
Configured(d) ==
  LET merged == Overlay(mergeFile(d), d.flags)
  IN [merged EXCEPT !["mfa.key"] = IF d.env = Unset THEN @ ELSE d.env]

validate(c) ==
  /\ c["plain.enabled"] \/ c["tls.enabled"]
  /\ c["plain.enabled"] => c["plain.addr"] # ""
  /\ c["tls.enabled"] => \A s \in {"tls.addr", "tls.cert", "tls.key"} : c[s] # ""
  /\ c["limits.idle"] > 0
  /\ c["limits.max_per_ip"] >= 0

LoadFails(d) ==
  \/ \E s \in FlagSettings : d.flags[s] = Malformed
  \/ FileFails(d)
  \/ ListenConflict(d)
  \/ d.env = Malformed
  \/ ~validate(Configured(d))

Load ==
  /\ step = "load"
  /\ IF LoadFails(asked)
     THEN step' = "down" /\ UNCHANGED cfg
     ELSE step' = "store" /\ cfg' = Configured(asked)
  /\ UNCHANGED <<asked, lns, port>>

-----------------------------------------------------------------------------
(* runServe, listen.Build *)

StartServe ==
  /\ step = "down"
  /\ step' = "load"
  /\ cfg' = Unset
  /\ UNCHANGED <<asked, lns, port>>

(* Open, mfaStartup and the warning about a missing administrator *)
OpenStore ==
  /\ step = "store"
  /\ step' \in {"plain", "down"}
  /\ UNCHANGED <<asked, cfg, lns, port>>

(* Mutant: a failed Build returns without closeAll. *)
CloseAll_Leaks ==
  /\ lns' = {}
  /\ UNCHANGED port

CloseAll ==
  /\ lns' = {}
  /\ port' = [a \in Ports |-> IF a \in lns THEN "free" ELSE port[a]]

(* net.Listen *)
Bind(kind, a, next) ==
  IF port[a] = "free"
  THEN /\ port' = [port EXCEPT ![a] = kind]
       /\ lns' = lns \cup {a}
       /\ step' = next
  ELSE CloseAll /\ step' = "down"

ListenPlain ==
  /\ step = "plain"
  /\ IF cfg["plain.enabled"]
     THEN Bind("plain", cfg["plain.addr"], "keypair")
     ELSE step' = "keypair" /\ UNCHANGED <<lns, port>>
  /\ UNCHANGED <<asked, cfg>>

(* The certificate and its key are loaded with the plain socket open. *)
LoadKeyPair ==
  /\ step = "keypair"
  /\ \/ ~cfg["tls.enabled"] /\ step' = "serving" /\ UNCHANGED <<lns, port>>
     \/ cfg["tls.enabled"] /\ step' = "tls" /\ UNCHANGED <<lns, port>>
     \/ cfg["tls.enabled"] /\ step' = "down" /\ CloseAll
  /\ UNCHANGED <<asked, cfg>>

ListenTLS ==
  /\ step = "tls"
  /\ Bind("tls", cfg["tls.addr"], "serving")
  /\ UNCHANGED <<asked, cfg>>

(* ServeAll ends as Server.tla tells, with every listener closed; a killed *)
(* process loses its sockets to the kernel.                                *)
EndServe ==
  /\ step # "down"
  /\ step' = "down"
  /\ lns' = {}
  /\ port' = [a \in Ports |-> IF port[a] = "other" THEN "other" ELSE "free"]
  /\ UNCHANGED <<asked, cfg>>

(* Other programs take and free addresses, a second gateway among them. *)
OtherProgram ==
  /\ \E a \in Ports :
       \/ port[a] = "free" /\ port' = [port EXCEPT ![a] = "other"]
       \/ port[a] = "other" /\ port' = [port EXCEPT ![a] = "free"]
  /\ UNCHANGED <<step, asked, cfg, lns>>

DeployNext ==
  \/ StartServe \/ Load \/ OpenStore \/ ListenPlain \/ LoadKeyPair \/ ListenTLS
  \/ EndServe \/ OtherProgram

DeploySpec == DeployInit /\ [][DeployNext]_deployVars

-----------------------------------------------------------------------------
(* Properties *)

(* The file as serve read it says so. *)
FileSays(s, v) == asked.file = "read" /\ asked.set[s] = v
FileGives(s) == asked.file = "read" /\ asked.set[s] # Unset

PlainAddr == IF asked.flags["plain.addr"] # Unset THEN asked.flags["plain.addr"]
             ELSE IF FileGives("plain.addr") THEN asked.set["plain.addr"] ELSE defaultPlainAddr

(* The sockets the deployment calls for *)
Wanted ==
  [a \in Ports |->
     (IF ~FileSays("plain.enabled", FALSE) /\ a = PlainAddr THEN {"plain"} ELSE {})
       \cup (IF FileSays("tls.enabled", TRUE) /\ asked.set["tls.addr"] = a THEN {"tls"} ELSE {})]

(* ServesAsConfigured: a gateway that serves holds exactly the sockets its *)
(* file and flags call for, each at the address and of the kind they give  *)
(* it: none in plaintext once the file has disabled that listener,         *)
(* whatever -listen says.  It then runs with limits Server.tla may rely    *)
(* on and with the environment's key if there is one.  A gateway that is   *)
(* down, because a later source was wrong, a port was taken or the         *)
(* certificate did not load after the first socket was open, holds none    *)
(* (Load, validate, Build and its closeAll).                               *)
ServesAsConfigured ==
  LET ours(a) == {port[a]} \cap {"plain", "tls"}
  IN /\ step = "serving" =>
          /\ \A a \in Ports : ours(a) = Wanted[a]
          /\ \E a \in Ports : ours(a) # {}
          /\ cfg["limits.idle"] > 0 /\ cfg["limits.max_per_ip"] >= 0
          /\ asked.env # Unset => cfg["mfa.key"] = asked.env
     /\ step \in {"down", "load", "store"} => \A a \in Ports : ours(a) = {}
=============================================================================
