----------------------------- MODULE Deployment -----------------------------
(***************************************************************************)
(* A deployment from the configuration file to running services: the file  *)
(* is edited, init writes the compose and the environment file, docker     *)
(* creates and starts containers, and every service reads the              *)
(* configuration again, together with its own environment, when it starts. *)
(*                                                                         *)
(* The configuration file is mounted into the containers, so a service     *)
(* sees it as it is when the service starts, not as it was at init.        *)
(* Docker is external: up replaces all containers whose definition has     *)
(* changed before it starts any, leaves those of services that are gone    *)
(* alone, and starts a service after the ones it depends on.               *)
(***************************************************************************)
EXTENDS DockerInit

CONSTANTS
  Configs,        \* configurations the operator may write
  MaxEdits,       \* bound: edits of the file
  MaxInits,       \* bound: runs of init
  MaxCrashes      \* bound: crashes of services

ASSUME DeploymentAssumption ==
  /\ MaxEdits \in Nat /\ MaxInits \in Nat /\ MaxCrashes \in Nat
  /\ \A c \in Configs :
       /\ ModulesOf(c) \in Seq([id : DOMAIN Lower, kind : {"commit", "events"}, sid : Nat])
       /\ c.muxes \in Seq([id : STRING, file : STRING])
       /\ c.chain \in {"known", "path"} /\ c.valid \in BOOLEAN /\ c.withSigner \in BOOLEAN

VARIABLES
  config,     \* the configuration file
  edits, crashes,
  gen,        \* runs of init so far
  cli,        \* the environment file that init still has to write, or NoEnvFile
  compose,    \* the compose file, empty before the first init
  env,        \* the environment file, or NoEnvFile
  made,       \* [config, compose, env]: what the files were made from, and when
  containers  \* service name -> [service, env, origin, state, cause, seen, loaded]

deploymentVars == <<config, edits, crashes, gen, cli, compose, env, made, containers>>
host == <<config, edits, gen, cli, compose, env, made>>

Names == {Lower[id] : id \in DOMAIN Lower} \cup {"pbs", "signer"}
Present(n) == n \in DOMAIN containers
State(n) == IF Present(n) THEN containers[n].state ELSE "none"
Up(n) == State(n) \in {"running", "healthy"}

DeploymentInit ==
  /\ config \in Configs /\ edits = 0 /\ crashes = 0
  /\ gen = 0 /\ cli = NoEnvFile /\ compose = <<>> /\ env = NoEnvFile
  /\ made = [config |-> None, compose |-> 0, env |-> 0]
  /\ containers = <<>>

-----------------------------------------------------------------------------
EditConfig(c) ==
  /\ edits < MaxEdits /\ c # config /\ cli = NoEnvFile
  /\ config' = c /\ edits' = edits + 1
  /\ UNCHANGED <<crashes, gen, cli, compose, env, made, containers>>

(***************************************************************************)
(* init reads and checks the file, writes the compose file, and then the   *)
(* environment file if there is something to put into it.  Between the two *)
(* it may be interrupted, or the second write may fail.                    *)
(***************************************************************************)
WriteCompose ==
  /\ cli = NoEnvFile /\ gen < MaxInits /\ ~ InitFails(config)
  /\ gen' = gen + 1
  /\ compose' = ComposeFile(config)
  /\ cli' = EnvFile(config, gen')
  /\ made' = [made EXCEPT !.config = config, !.compose = gen',
                          !.env = IF cli' = NoEnvFile THEN gen' ELSE @]
  /\ UNCHANGED <<config, edits, crashes, env, containers>>

InitRefused ==
  /\ cli = NoEnvFile /\ InitFails(config)
  /\ UNCHANGED deploymentVars

WriteEnv ==
  /\ cli # NoEnvFile
  /\ env' = cli /\ cli' = NoEnvFile
  /\ made' = [made EXCEPT !.env = gen]
  /\ UNCHANGED <<config, edits, crashes, gen, compose, containers>>

InitInterrupted ==
  /\ cli # NoEnvFile
  /\ cli' = NoEnvFile
  /\ UNCHANGED <<config, edits, crashes, gen, compose, env, made, containers>>

(***************************************************************************)
(* docker compose up.                                                      *)
(***************************************************************************)
Created(n) ==
  [service |-> compose[n], env |-> Interpolate(compose[n], env),
   origin |-> made, state |-> "created", cause |-> "none", seen |-> None, loaded |-> None]

Same(n) == Present(n) /\ containers[n].service = Created(n).service
                      /\ containers[n].env = Created(n).env

ComposeUp ==
  /\ compose # <<>> /\ cli = NoEnvFile
  /\ containers' = [n \in DOMAIN containers \cup DOMAIN compose |->
       IF n \notin DOMAIN compose THEN containers[n]
       ELSE IF Same(n) /\ State(n) # "exited" THEN [containers[n] EXCEPT !.origin = made]
       ELSE Created(n)]
  /\ containers' # containers
  /\ UNCHANGED <<host, crashes>>

ComposeDown ==
  /\ containers # <<>> /\ cli = NoEnvFile
  /\ containers' = <<>>
  /\ UNCHANGED <<host, crashes>>

-----------------------------------------------------------------------------
(***************************************************************************)
(* The start of a service ends with what it loaded, or with a cause why it *)
(* did not come up.  Docker does not start a container whose ports are     *)
(* taken.                                                                  *)
(***************************************************************************)
Exit(n, cause) ==
  containers' = [containers EXCEPT ![n] =
                   [@ EXCEPT !.state = "exited", !.cause = cause, !.seen = config]]

Run(n, loaded) ==
  containers' = [containers EXCEPT ![n] =
                   [@ EXCEPT !.state = "running", !.loaded = loaded, !.seen = config]]

Ports(n) == containers[n].service.ports

PortTaken(n) ==
  \/ \E i, j \in DOMAIN Ports(n) : i # j /\ Ports(n)[i] = Ports(n)[j]
  \/ \E o \in DOMAIN containers \ {n} :
       Up(o) /\ Range(Ports(o)) \cap Range(Ports(n)) # {}

(***************************************************************************)
(* from_env_path, through which signer and PBS read the file: unlike init  *)
(* it wants the relays to be listed, if only as an empty list, and finds a *)
(* chain spec in a file through a variable only.                           *)
(***************************************************************************)
FileLoads(c, s) == c.relays # None /\ (c.chain = "known" \/ s.spec)

ModuleWith(c, id) == {i \in DOMAIN ModulesOf(c) : ModulesOf(c)[i].id = id}

(***************************************************************************)
(* StartSignerConfig::load_from_env: the admin secret and the secrets of   *)
(* the modules must be set, and load_module_signing_configs wants a secret *)
(* and a signing id of its own for every module of the file.               *)
(***************************************************************************)
JwtsLoad(e) == e.admin # <<>> /\ e.jwts # <<>>

SigningConfigsLoad(c, e) ==
  /\ c.modules # None
  /\ \A i \in DOMAIN ModulesOf(c) :
       LET m == ModulesOf(c)[i]
       IN  /\ m.id \in DOMAIN e.jwts /\ e.jwts[m.id] # Blank /\ m.sid # 0
           /\ \A j \in 1..(i - 1) :
                LET o == ModulesOf(c)[j]
                IN  o.id # m.id /\ e.jwts[o.id] # e.jwts[m.id] /\ o.sid # m.sid

SignerKindOk(c) == c.signer = "local" \/ (c.signer = "dirk" /\ c.store # "erc2335")

SignerLoads(c, s, e) ==
  FileLoads(c, s) /\ JwtsLoad(e) /\ SigningConfigsLoad(c, e) /\ SignerKindOk(c)

Registry(c, e) ==
  [id \in {m.id : m \in Range(ModulesOf(c))} |->
     [secret |-> e.jwts[id],
      sid |-> ModulesOf(c)[CHOOSE i \in ModuleWith(c, id) : TRUE].sid]]

\* SigningService::run; start_manager may fail on the keys it should load.
StartSigner ==
  /\ State("signer") = "created" /\ containers["signer"].service.kind = "signer"
  /\ LET k == containers["signer"]
     IN  IF PortTaken("signer") THEN Exit("signer", "port")
         ELSE IF ~ SignerLoads(config, k.service, k.env) THEN Exit("signer", "config")
         ELSE IF ModulesOf(config) = <<>> THEN Exit("signer", "empty")
         ELSE Exit("signer", "keys") \/ Run("signer", Registry(config, k.env))
  /\ UNCHANGED <<host, crashes>>

\* The health check asks for the status, which needs no relay and no token.
SignerHealthy ==
  /\ State("signer") = "running" /\ containers["signer"].service.kind = "signer"
  /\ containers' = [containers EXCEPT !["signer"] = [@ EXCEPT !.state = "healthy"]]
  /\ UNCHANGED <<host, crashes>>

(***************************************************************************)
(* load_pbs_config: the keys of a mux come from the file its variable      *)
(* names, or else from the path of the configuration, which the container  *)
(* does not have.  Two muxes with the same keys are refused.               *)
(***************************************************************************)
MuxFile(s, id) == s.mounts[s.paths[id]]

MuxFilesLoad(c, s) ==
  /\ MuxIds(c) \subseteq DOMAIN s.paths
  /\ \A i, j \in DOMAIN c.muxes :
       i # j => MuxFile(s, c.muxes[i].id) # MuxFile(s, c.muxes[j].id)

PbsLoads(c, s) == FileLoads(c, s) /\ c.valid /\ c.relays # {} /\ MuxFilesLoad(c, s)

(***************************************************************************)
(* get_status: at once if relays are not checked, else by select_ok over   *)
(* the checks of all relays, of which the set good succeed.                *)
(***************************************************************************)
StatusOk(good) == ~ config.relayCheck \/ good # {}

\* PbsService::run: serve, then ask for the own status once.
StartPbs ==
  /\ State("pbs") = "created"
  /\ LET s == containers["pbs"].service
     IN  IF PortTaken("pbs") THEN Exit("pbs", "port")
         ELSE IF ~ PbsLoads(config, s) THEN Exit("pbs", "config")
         ELSE \E good \in SUBSET config.relays :
                IF StatusOk(good)
                THEN Run("pbs", [id \in MuxIds(config) |-> MuxFile(s, id)])
                ELSE Exit("pbs", "relays")
  /\ UNCHANGED <<host, crashes>>

(***************************************************************************)
(* load_commit_module_config and load_builder_module_config read the chain *)
(* from the path in the file, which the container does not have, and look  *)
(* the module up by its id.                                                *)
(***************************************************************************)
ModuleLoads(c, s) == c.chain = "known" /\ ModuleWith(c, s.id) # {}

Startable(n) ==
  \/ containers[n].service.kind = "commit" /\ State("signer") = "healthy"
  \/ containers[n].service.kind = "events" /\ Up("pbs")

StartModule(n) ==
  /\ State(n) = "created" /\ containers[n].service.kind \in {"commit", "events"}
  /\ Startable(n)
  /\ LET k == containers[n]
     IN  IF PortTaken(n) THEN Exit(n, "port")
         ELSE IF ~ ModuleLoads(config, k.service) THEN Exit(n, "config")
         ELSE Run(n, k.env.secret)
  /\ UNCHANGED <<host, crashes>>

Crash(n) ==
  /\ Up(n) /\ crashes < MaxCrashes
  /\ containers' = [containers EXCEPT ![n] = [@ EXCEPT !.state = "exited", !.cause = "crash"]]
  /\ crashes' = crashes + 1
  /\ UNCHANGED host

Start == StartSigner \/ SignerHealthy \/ StartPbs \/ \E n \in DOMAIN containers : StartModule(n)

DeploymentNext ==
  \/ \E c \in Configs : EditConfig(c)
  \/ InitRefused \/ WriteCompose \/ WriteEnv \/ InitInterrupted
  \/ ComposeUp \/ ComposeDown
  \/ Start
  \/ \E n \in DOMAIN containers : Crash(n)

\* Docker starts what it can; the operator and the machine owe nothing.
DeploymentFairness ==
  /\ WF_deploymentVars(StartSigner) /\ WF_deploymentVars(SignerHealthy) /\ WF_deploymentVars(StartPbs)
  /\ \A n \in Names : WF_deploymentVars(n \in DOMAIN containers /\ StartModule(n))

DeploymentSpec == DeploymentInit /\ [][DeploymentNext]_deploymentVars /\ DeploymentFairness

-----------------------------------------------------------------------------
DeploymentTypeOK ==
  /\ config \in Configs /\ edits \in 0..MaxEdits /\ crashes \in 0..MaxCrashes
  /\ gen \in 0..MaxInits /\ made.compose \in 0..gen /\ made.env \in 0..made.compose
  /\ compose = <<>> <=> gen = 0
  /\ cli # NoEnvFile => made.env < gen
  /\ DOMAIN containers \subseteq Names
  /\ \A n \in DOMAIN containers :
       containers[n].state \in {"created", "running", "healthy", "exited"}

Commits == {n \in DOMAIN containers : Up(n) /\ containers[n].service.kind = "commit"}

(***************************************************************************)
(* Services that were started at different times, with edits, crashes and  *)
(* other runs of init in between, never disagree about a secret: a commit  *)
(* module has the secret that the signer has for its id if one up brought  *)
(* both, and no two modules have the same, although ids that differ only   *)
(* in case share a variable and a service.  Only an init that is           *)
(* interrupted while the old environment file holds such ids can do it.    *)
(***************************************************************************)
SecretsAgree ==
  /\ Up("signer") => \A n \in Commits :
       LET k == containers[n]
           signer == containers["signer"]
       IN  (/\ k.origin = signer.origin /\ k.service.id \in DOMAIN signer.loaded
            /\ \/ k.origin.compose = k.origin.env
               \/ \A id \in DOMAIN signer.env.jwts \ {k.service.id} : Upper[id] # k.service.var)
             => signer.loaded[k.service.id].secret = k.loaded
  /\ \A n, o \in Commits : n # o => \/ containers[n].loaded # containers[o].loaded
                                    \/ containers[n].loaded = Blank

(***************************************************************************)
(* A container that comes from one complete run of init, and read the same *)
(* configuration as that run.                                              *)
(***************************************************************************)
Consistent(k) ==
  /\ k.state # "created" /\ k.seen = k.origin.config
  /\ k.origin.compose = k.origin.env

SignerFits(c) ==
  /\ c.relays # None /\ ModulesOf(c) # <<>>
  /\ \A i \in DOMAIN ModulesOf(c) : ModulesOf(c)[i].kind = "commit" /\ ModulesOf(c)[i].sid # 0
  /\ IsInjective([i \in DOMAIN ModulesOf(c) |-> ModulesOf(c)[i].id])
  /\ IsInjective([i \in DOMAIN ModulesOf(c) |-> ModulesOf(c)[i].sid])

LocalSignerFits(c) == c.signer = "local" /\ SignerFits(c)

PbsFits(c) ==
  /\ c.relays # None /\ c.relays # {}
  /\ IsInjective([i \in DOMAIN c.muxes |-> c.muxes[i].id])
  /\ IsInjective([i \in DOMAIN c.muxes |-> c.muxes[i].file])

ServiceFits(kind, c) ==
  CASE kind = "signer" -> LocalSignerFits(c)
    [] kind = "pbs" -> PbsFits(c)
    [] OTHER -> c.chain = "known"

MuxesOfInit(k) ==
  \A i \in DOMAIN k.seen.muxes : \E j \in DOMAIN k.origin.config.muxes :
    /\ k.origin.config.muxes[j].id = k.seen.muxes[i].id
    /\ k.origin.config.muxes[j].file = k.loaded[k.seen.muxes[i].id]

(***************************************************************************)
(* What init produces is what the services require: for a configuration    *)
(* that fits, no service that reads it refuses what init made of it.  And  *)
(* whichever configuration PBS reads when it starts, an edited one         *)
(* included, the keys of a mux are those of a file that the configuration  *)
(* of its init names for this mux, although they are read from another     *)
(* path.                                                                   *)
(***************************************************************************)
FittingLoads ==
  \A n \in DOMAIN containers :
    LET k == containers[n]
    IN  /\ (Consistent(k) /\ ServiceFits(k.service.kind, k.seen)) => k.cause \notin {"config", "empty"}
        /\ (n = "pbs" /\ Up(n)) => MuxesOfInit(k)

(***************************************************************************)
(* The docs describe the signer with Dirk like the one with local keys:    *)
(* "In this case the Signer module is needed as an intermediary between    *)
(* the modules and Dirk."  So what is required of the modules would be     *)
(* enough for either.  It is not: init gives the service no admin secret.  *)
(***************************************************************************)
DocumentedSignerLoads ==
  Present("signer") =>
    LET k == containers["signer"]
    IN  (Consistent(k) /\ k.service.kind = "signer" /\ SignerFits(k.seen))
          => k.cause \notin {"config", "empty"}

(***************************************************************************)
(* The ids of the modules are their own in any case, and not those of the  *)
(* two services.                                                           *)
(***************************************************************************)
OwnNames(c) ==
  /\ IsInjective([i \in DOMAIN ModulesOf(c) |-> Lower[ModulesOf(c)[i].id]])
  /\ \A i \in DOMAIN ModulesOf(c) : Lower[ModulesOf(c)[i].id] \notin {"pbs", "signer"}

AllFit(c) ==
  /\ OwnNames(c) /\ PbsFits(c)
  /\ NeedsSigner(c) => LocalSignerFits(c)
  /\ ModulesOf(c) # <<>> => c.chain = "known"

Installed ==
  /\ cli = NoEnvFile /\ compose # <<>> /\ made.config = config /\ made.compose = made.env
  /\ \A n \in DOMAIN compose : Same(n)

Exited(causes) ==
  \E n \in DOMAIN compose : State(n) = "exited" /\ containers[n].cause \in causes

AllUp ==
  /\ Up("pbs")
  /\ \A i \in DOMAIN ModulesOf(config) :
       LET m == ModulesOf(config)[i]
           n == Lower[m.id]
       IN  /\ Up(n) /\ containers[n].service.id = m.id
           /\ m.kind = "events" => n \in containers["pbs"].service.urls

(***************************************************************************)
(* Everything that is configured comes up: after a complete init and up of *)
(* a configuration that fits, PBS and every module under its own id run,   *)
(* and PBS posts its events to those that take them, unless an edit, init  *)
(* or down comes in between, or something outside fails: a crash, the      *)
(* keys, all relays, a port that is taken.  No service waits forever for   *)
(* another, and none refuses what it finds.                                *)
(***************************************************************************)
ComesUp ==
  (Installed /\ AllFit(config) /\ \A n \in DOMAIN compose : State(n) # "exited")
    ~> (AllUp \/ ~ Installed \/ Exited({"crash", "keys", "relays", "port"}))
=============================================================================
