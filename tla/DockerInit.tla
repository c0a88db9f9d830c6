----------------------------- MODULE DockerInit -----------------------------
(***************************************************************************)
(* handle_docker_init (crates/cli/src/docker_init.rs): what the init       *)
(* command makes of a configuration file.                                  *)
(*                                                                         *)
(* A configuration is a record [modules, signer, store, withSigner, chain, *)
(* metrics, muxes, relays, valid, relayCheck]: modules is a sequence of    *)
(* [id, kind, sid] or None, muxes a sequence of [id, file] for the muxes   *)
(* whose keys come from a file, metrics the first port or None, relays the *)
(* set of relays or None if the file has no such section; valid says       *)
(* whether CommitBoostConfig::validate accepts the rest.                   *)
(*                                                                         *)
(* A service is a record of the settings that differ between services; its *)
(* name leaves out the prefix cb_.  Environment variables with a fixed     *)
(* value, images, networks and log directories are left out.               *)
(***************************************************************************)
EXTENDS Integers, Sequences, Functions

CONSTANTS
  Lower, Upper,        \* to_lowercase and to_uppercase of module ids
  PbsPort, SignerPort, \* ports of the services
  None

\* Docker takes only ASCII letters in the names of services and variables.
ASSUME NameAssumption ==
  /\ DOMAIN Upper = DOMAIN Lower
  /\ \A a, b \in DOMAIN Lower : Upper[a] = Upper[b] <=> Lower[a] = Lower[b]
  /\ \A a \in DOMAIN Lower : Upper[a] # None

ModulesOf(c) == IF c.modules = None THEN <<>> ELSE c.modules

CommitModules(c) == {i \in DOMAIN ModulesOf(c) : ModulesOf(c)[i].kind = "commit"}

NeedsSigner(c) == c.withSigner \/ CommitModules(c) # {}

\* The configurations that init refuses, with an error or by a panic.
InitFails(c) ==
  \/ ~ c.valid
  \/ NeedsSigner(c) /\ \/ c.signer \in {"none", "remote"}
                       \/ c.signer = "dirk" /\ c.store = "erc2335"

Service(kind, ports) ==
  [kind |-> kind, ports |-> ports, id |-> None, var |-> None, spec |-> FALSE,
   admin |-> FALSE, urls |-> {}, paths |-> <<>>, mounts |-> <<>>]

\* A chain spec in a file is mounted, and a variable names its path.
SpecMounted(c) == c.chain = "path"

\* metrics_port is a u16 that grows with every service, modules first.
MetricsPort(c, i) == IF c.metrics = None THEN <<>> ELSE <<(c.metrics + i - 1) % 2^16>>

(***************************************************************************)
(* The loop over the modules.  Services are entered under their lower-case *)
(* id, secrets under a variable with the upper-case id and in the signer's *)
(* list under the id itself; the last module entered under a name replaces *)
(* the others.  <<gen, i>> is the secret made for the i-th module.         *)
(***************************************************************************)
ServiceName(m) == Lower[m.id]

EventUrlAsIs(m) == m.id

EventUrl(m) == ServiceName(m)

ModuleService(c, i) ==
  LET m == ModulesOf(c)[i]
  IN  [Service(m.kind, MetricsPort(c, i)) EXCEPT
         !.id = m.id, !.spec = SpecMounted(c),
         !.var = IF m.kind = "commit" THEN Upper[m.id] ELSE None]

FirstIn(S) == CHOOSE i \in S : \A j \in S : i <= j
LastIn(S) == CHOOSE i \in S : \A j \in S : j <= i

Named(c, n) == {i \in DOMAIN ModulesOf(c) : ServiceName(ModulesOf(c)[i]) = n}

ModuleServices(c) ==
  [n \in {ServiceName(m) : m \in Range(ModulesOf(c))} |-> ModuleService(c, LastIn(Named(c, n)))]

EventUrls(c) == {EventUrl(m) : m \in {x \in Range(ModulesOf(c)) : x.kind = "events"}}

WithVar(c, v) == {i \in CommitModules(c) : Upper[ModulesOf(c)[i].id] = v}
WithId(c, id) == {i \in CommitModules(c) : ModulesOf(c)[i].id = id}

VarsOnce(c, gen) ==
  [v \in {Upper[ModulesOf(c)[i].id] : i \in CommitModules(c)} |-> <<gen, FirstIn(WithVar(c, v))>>]

Vars(c, gen) ==
  [v \in {Upper[ModulesOf(c)[i].id] : i \in CommitModules(c)} |-> <<gen, LastIn(WithVar(c, v))>>]

Jwts(c, gen) ==
  [id \in {ModulesOf(c)[i].id : i \in CommitModules(c)} |-> <<gen, LastIn(WithId(c, id))>>]

(***************************************************************************)
(* The PBS service: each mux file is mounted under a path of its own, and  *)
(* a variable of the mux names that path.                                  *)
(***************************************************************************)
MuxPathShared(id) == "mux"

MuxPath(id) == id

MuxIds(c) == {x.id : x \in Range(c.muxes)}
MountedAt(c, p) == {i \in DOMAIN c.muxes : MuxPath(c.muxes[i].id) = p}

PbsService(c) ==
  [Service("pbs", <<PbsPort>> \o MetricsPort(c, Len(ModulesOf(c)) + 1)) EXCEPT
     !.spec = SpecMounted(c), !.urls = EventUrls(c),
     !.paths = [id \in MuxIds(c) |-> MuxPath(id)],
     !.mounts = [p \in {MuxPath(id) : id \in MuxIds(c)} |-> c.muxes[LastIn(MountedAt(c, p))].file]]

\* Only the service of a local signer gets the admin secret.
DirkService(c) ==
  [Service("signer", <<SignerPort>> \o MetricsPort(c, Len(ModulesOf(c)) + 2)) EXCEPT
     !.spec = SpecMounted(c)]

LocalService(c) == [DirkService(c) EXCEPT !.admin = TRUE]

SignerServiceOf(c) == IF c.signer = "local" THEN LocalService(c) ELSE DirkService(c)

(***************************************************************************)
(* The files: the services of the compose file, and the variables of the   *)
(* environment file, which is written only if there are any.               *)
(***************************************************************************)
ComposeFile(c) ==
  LET services == DOMAIN ModuleServices(c) \cup {"pbs"}
                    \cup (IF NeedsSigner(c) THEN {"signer"} ELSE {})
  IN  [n \in services |-> CASE n = "pbs" -> PbsService(c)
                            [] n = "signer" /\ NeedsSigner(c) -> SignerServiceOf(c)
                            [] OTHER -> ModuleServices(c)[n]]

Blank == <<>>

NoEnvFile == [written |-> FALSE, vars |-> <<>>, jwts |-> <<>>, admin |-> Blank]

EnvFile(c, gen) ==
  IF NeedsSigner(c)
  THEN [written |-> TRUE, vars |-> Vars(c, gen), jwts |-> Jwts(c, gen),
        admin |-> IF c.signer = "local" THEN <<gen, 0>> ELSE Blank]
  ELSE NoEnvFile

-----------------------------------------------------------------------------
(***************************************************************************)
(* What docker compose passes to a container: a variable that the          *)
(* environment file does not have is blank.  The admin secret is a         *)
(* variable of the signer service only, and not always.                    *)
(***************************************************************************)
Interpolate(s, env) ==
  [secret |-> IF s.var \in DOMAIN env.vars THEN env.vars[s.var] ELSE Blank,
   jwts   |-> IF s.kind = "signer" THEN env.jwts ELSE <<>>,
   admin  |-> IF s.admin THEN <<env.admin>> ELSE <<>>]
=============================================================================
