------------------------------ MODULE MCStartup ------------------------------
(***************************************************************************)
(* A gateway's database, its deployment and its throttle on small          *)
(* instances.  The modules share no variable: a behaviour follows one of   *)
(* them while the others rest.                                             *)
(*                                                                         *)
(* Startup: two keys, one user who may be enrolled, and two builds that    *)
(* differ by the third migration.                                          *)
(* Deployment: two addresses; a missing, unreadable or unknown file, and   *)
(* four plausible ones, for plaintext, TLS, both and the same port twice,  *)
(* each with at most one setting changed; at most one flag, and the three  *)
(* environments.                                                           *)
(* Throttle: two names, so that one's failures sweep the other's entry,    *)
(* and four windows' time, so that streaks lapse and start again.          *)
(***************************************************************************)
EXTENDS Startup, Deployment, Throttle, TLC

VARIABLE subject   \* what this behaviour follows

(* Neither key is special. *)
Symmetric == Permutations(Keys)

Empty(S) == [s \in S |-> Unset]
With(f, s, v) == [f EXCEPT ![s] = v]

MCTls(addr) == [Empty(FileSettings) EXCEPT !["tls.enabled"] = TRUE, !["tls.addr"] = addr,
                                           !["tls.cert"] = "cert", !["tls.key"] = "key"]

MCFiles == {Empty(FileSettings), MCTls(":2324"), MCTls(":2323"),
            With(MCTls(":2324"), "plain.enabled", FALSE)}

MCValues(s) ==
  CASE s \in {"plain.enabled", "tls.enabled"} -> {TRUE, FALSE, Malformed}
    [] s \in {"plain.addr", "tls.addr"} -> {"", ":2323", ":2324"}
    [] s \in {"tls.cert", "tls.key", "db"} -> {"", "file"}
    [] s = "log.level" -> {"debug", Malformed}
    [] s \in {"mfa.key", "mfa.key_file"} -> {"", "file key", Malformed}
    [] s = "limits.idle" -> {0, 1, Malformed}
    [] s = "limits.max_per_ip" -> {-1, 0, 1}
    [] s = "limits.bridge_idle" -> {"disconnect", "exempt", Malformed}

Changed(f) == {f} \cup UNION {{With(f, s, v) : v \in MCValues(s)} : s \in FileSettings}

MCFlags == {Empty(FlagSettings)}
             \cup UNION {{With(Empty(FlagSettings), s, v) : v \in MCValues(s)} : s \in FlagSettings}

MCDeployments ==
  {[file |-> "read", set |-> f, flags |-> g, explicit |-> FALSE, env |-> e] :
     f \in UNION {Changed(f) : f \in MCFiles}, g \in MCFlags, e \in {Unset, "env key", Malformed}}
  \cup
  {[file |-> x, set |-> Empty(FileSettings), flags |-> g, explicit |-> b, env |-> Unset] :
     x \in {"none", "unreadable", "unknown key"}, g \in MCFlags, b \in BOOLEAN}

StartupRests == ver = 0 /\ shape = {} /\ Init

DeploymentRests ==
  /\ asked = CHOOSE d \in Deployments : d.file = "none"
  /\ port = [a \in Ports |-> "free"]
  /\ DeployInit

GatewayInit ==
  \/ subject = "database" /\ Init /\ DeploymentRests /\ ThrottleInit
  \/ subject = "deployment" /\ StartupRests /\ DeployInit /\ ThrottleInit
  \/ subject = "throttle" /\ StartupRests /\ DeploymentRests /\ ThrottleInit

GatewayNext ==
  /\ UNCHANGED subject
  /\ \/ subject = "database" /\ Next /\ UNCHANGED <<deployVars, clock, throttleVars>>
     \/ subject = "deployment" /\ DeployNext /\ UNCHANGED <<vars, clock, throttleVars>>
     \/ subject = "throttle" /\ ThrottleNext /\ UNCHANGED <<vars, deployVars>>

GatewaySpec == GatewayInit /\ [][GatewayNext]_<<subject, vars, deployVars, clock, throttleVars>>
=============================================================================
