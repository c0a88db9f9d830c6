-------------------------- MODULE Deployment_proofs --------------------------
(***************************************************************************)
(* Proofs about Deployment and DockerInit, for any configurations, edits,  *)
(* runs of init and crashes.                                               *)
(***************************************************************************)
EXTENDS Deployment, WellFoundedInduction, TLAPS

(***************************************************************************)
(* Greatest elements, by minimal counterexample: the order of the natural  *)
(* numbers is well-founded.                                                *)
(***************************************************************************)
Less == {p \in Nat \X Nat : p[1] < p[2]}

\* Every set of naturals has a least element.
LEMMA LeastElement ==
  ASSUME NEW T \in SUBSET Nat, T # {}
  PROVE  \E x \in T : \A y \in T : x <= y
<1>1. IsWellFoundedOn(Less, Nat)
  BY NatLessThanWellFounded, Zenon DEF OpToRel, Less
<1>2. PICK x \in T : \A y \in T : ~ (<<y, x>> \in Less)
  BY <1>1, WFMin, Zenon
<1>3. \A y \in T : <<y, x>> \in Less <=> y < x
  BY DEF Less
<1>4. \A y \in T : ~ (y < x)
  BY <1>2, <1>3, Zenon
<1> QED
  BY <1>4

\* Every set of indices up to n has a greatest one.
LEMMA GreatestIndex ==
  ASSUME NEW n \in Nat, NEW S \in SUBSET (1..n), S # {}
  PROVE  \E i \in S : \A j \in S : j <= i
<1> DEFINE T == {k \in Nat : n - k \in S}
<1>1. \A i \in S : n - i \in Nat /\ n - (n - i) = i
  OBVIOUS
<1>2. T \in SUBSET Nat /\ T # {}
  BY <1>1, Zenon
<1>3. PICK k \in T : \A y \in T : k <= y
  BY <1>2, LeastElement, Zenon
<1>4. \A j \in S : k <= n - j
  BY <1>1, <1>3, Zenon
<1>5. n - k \in S /\ k \in Nat
  BY <1>3
<1> QED
  BY <1>4, <1>5

-----------------------------------------------------------------------------
(***************************************************************************)
(* What handle_docker_init writes: in a loop that inserts into maps, the   *)
(* last module entered under a name is the one that stays.                 *)
(***************************************************************************)
LEMMA LastIs ==
  ASSUME NEW S \in SUBSET Nat, NEW i \in S, \A j \in S : j <= i
  PROVE  LastIn(S) = i
<1> DEFINE l == CHOOSE x \in S : \A j \in S : j <= x
<1>1. l \in S /\ \A j \in S : j <= l
  BY Zenon
<1>2. LastIn(S) = l
  BY DEF LastIn
<1> HIDE DEF l
<1> QED
  BY <1>1, <1>2

LEMMA LastInSet ==
  ASSUME NEW n \in Nat, NEW S \in SUBSET (1..n), S # {}
  PROVE  LastIn(S) \in S /\ \A j \in S : j <= LastIn(S)
  BY GreatestIndex, Zenon DEF LastIn

LEMMA ModulesType ==
  ASSUME NEW c \in Configs
  PROVE  /\ DOMAIN ModulesOf(c) = 1..Len(ModulesOf(c)) /\ Len(ModulesOf(c)) \in Nat
         /\ \A i \in DOMAIN ModulesOf(c) :
              ModulesOf(c)[i].id \in DOMAIN Lower /\ ModulesOf(c)[i].kind \in {"commit", "events"}
         /\ CommitModules(c) \in SUBSET DOMAIN ModulesOf(c)
<1> DEFINE ms == ModulesOf(c)
           M == [id : DOMAIN Lower, kind : {"commit", "events"}, sid : Nat]
<1>1. ms \in Seq(M)
  BY DeploymentAssumption, Zenon
<1> HIDE DEF ms, M
<1>2. DOMAIN ms = 1..Len(ms) /\ Len(ms) \in Nat /\ \A i \in DOMAIN ms : ms[i] \in M
  BY <1>1
<1>3. \A m \in M : m.id \in DOMAIN Lower /\ m.kind \in {"commit", "events"}
  BY DEF M
<1> QED
  BY <1>2, <1>3 DEF ms, CommitModules

\* A variable of the environment file holds the secret of the last module with it.
LEMMA VarsAre ==
  ASSUME NEW c \in Configs, NEW g, NEW v \in DOMAIN Vars(c, g)
  PROVE  /\ Vars(c, g)[v] = <<g, LastIn(WithVar(c, v))>>
         /\ LastIn(WithVar(c, v)) \in WithVar(c, v)
         /\ \A j \in WithVar(c, v) : j <= LastIn(WithVar(c, v))
         /\ v # None
<1>1. /\ Vars(c, g)[v] = <<g, LastIn(WithVar(c, v))>>
      /\ v \in {Upper[ModulesOf(c)[i].id] : i \in CommitModules(c)}
  BY DEF Vars
<1>2. PICK i \in CommitModules(c) : v = Upper[ModulesOf(c)[i].id]
  BY <1>1
<1>3. WithVar(c, v) \in SUBSET (1..Len(ModulesOf(c))) /\ i \in WithVar(c, v)
  BY <1>2, ModulesType, Zenon DEF WithVar
<1>4. v # None
  BY <1>2, ModulesType, NameAssumption, Zenon
<1> QED
  BY <1>1, <1>3, <1>4, ModulesType, LastInSet, Zenon

LEMMA JwtsAre ==
  ASSUME NEW c \in Configs, NEW g, NEW id \in DOMAIN Jwts(c, g)
  PROVE  /\ Jwts(c, g)[id] = <<g, LastIn(WithId(c, id))>>
         /\ LastIn(WithId(c, id)) \in WithId(c, id)
         /\ \A j \in WithId(c, id) : j <= LastIn(WithId(c, id))
<1>1. /\ Jwts(c, g)[id] = <<g, LastIn(WithId(c, id))>>
      /\ id \in {ModulesOf(c)[i].id : i \in CommitModules(c)}
  BY DEF Jwts
<1>2. PICK i \in CommitModules(c) : id = ModulesOf(c)[i].id
  BY <1>1
<1>3. WithId(c, id) \in SUBSET (1..Len(ModulesOf(c))) /\ i \in WithId(c, id)
  BY <1>2, ModulesType, Zenon DEF WithId
<1> QED
  BY <1>1, <1>3, ModulesType, LastInSet, Zenon

\* The three kinds of services of a compose file.
IsModuleService(c, n, s) ==
  \E i \in DOMAIN ModulesOf(c) :
    /\ s.kind = ModulesOf(c)[i].kind /\ s.id = ModulesOf(c)[i].id /\ n = Lower[s.id]
    /\ s.var = IF s.kind = "commit" THEN Upper[s.id] ELSE None
    /\ \A j \in DOMAIN ModulesOf(c) : Lower[ModulesOf(c)[j].id] = n => j <= i

LEMMA ModuleServicesAre ==
  ASSUME NEW c \in Configs, NEW n \in DOMAIN ModuleServices(c)
  PROVE  IsModuleService(c, n, ModuleServices(c)[n])
<1> DEFINE S == Named(c, n)
           i == LastIn(S)
           s == ModuleServices(c)[n]
<1>1. s = ModuleService(c, i) /\ n \in {ServiceName(m) : m \in Range(ModulesOf(c))}
  BY DEF ModuleServices
<1>2. PICK j \in DOMAIN ModulesOf(c) : n = ServiceName(ModulesOf(c)[j])
  BY <1>1 DEF Range
<1>3. S \in SUBSET (1..Len(ModulesOf(c))) /\ j \in S
  BY <1>2, ModulesType, Zenon DEF Named
<1>4. i \in S /\ \A x \in S : x <= i
  BY <1>3, ModulesType, LastInSet, Zenon
<1>5. i \in DOMAIN ModulesOf(c) /\ n = Lower[ModulesOf(c)[i].id]
  BY <1>4, Zenon DEF Named, ServiceName
<1>6. \A x \in DOMAIN ModulesOf(c) : Lower[ModulesOf(c)[x].id] = n => x <= i
  BY <1>4, Zenon DEF Named, ServiceName
<1>7. /\ s.kind = ModulesOf(c)[i].kind /\ s.id = ModulesOf(c)[i].id
      /\ s.var = IF ModulesOf(c)[i].kind = "commit" THEN Upper[ModulesOf(c)[i].id] ELSE None
  BY <1>1 DEF ModuleService, Service
<1> HIDE DEF S, i, s
<1> QED
  BY <1>5, <1>6, <1>7, Zenon DEF IsModuleService, s

LEMMA Services ==
  ASSUME NEW c \in Configs, NEW n \in DOMAIN ComposeFile(c), NEW s, s = ComposeFile(c)[n]
  PROVE  \/ n = "pbs" /\ s = PbsService(c)
         \/ n = "signer" /\ NeedsSigner(c) /\ s = SignerServiceOf(c)
         \/ /\ n # "pbs" /\ ~ (n = "signer" /\ NeedsSigner(c))
            /\ IsModuleService(c, n, s) /\ s.kind \in {"commit", "events"}
<1>1. CASE n = "pbs"
  BY <1>1 DEF ComposeFile
<1>2. CASE n = "signer" /\ NeedsSigner(c)
  BY <1>2 DEF ComposeFile
<1>3. CASE n # "pbs" /\ ~ (n = "signer" /\ NeedsSigner(c))
  <2>1. n \in DOMAIN ModuleServices(c) /\ s = ModuleServices(c)[n]
    BY <1>3 DEF ComposeFile
  <2>2. IsModuleService(c, n, s)
    BY <2>1, ModuleServicesAre
  <2> QED
    BY <1>3, <2>2, ModulesType, Zenon DEF IsModuleService
<1> QED
  BY <1>1, <1>2, <1>3, Zenon

LEMMA ServiceKinds ==
  ASSUME NEW c
  PROVE  /\ PbsService(c).kind = "pbs" /\ PbsService(c).spec = (c.chain = "path")
         /\ PbsService(c).var = None /\ PbsService(c).admin = FALSE
         /\ PbsService(c).paths = [id \in MuxIds(c) |-> id]
         /\ PbsService(c).mounts = [p \in MuxIds(c) |-> c.muxes[LastIn(MountedAt(c, p))].file]
         /\ SignerServiceOf(c).kind = "signer" /\ SignerServiceOf(c).spec = (c.chain = "path")
         /\ SignerServiceOf(c).var = None /\ SignerServiceOf(c).admin = (c.signer = "local")
<1>1. {MuxPath(id) : id \in MuxIds(c)} = MuxIds(c)
  BY DEF MuxPath
<1>2. /\ PbsService(c).kind = "pbs" /\ PbsService(c).spec = (c.chain = "path")
      /\ PbsService(c).var = None /\ PbsService(c).admin = FALSE
      /\ PbsService(c).paths = [id \in MuxIds(c) |-> id]
      /\ PbsService(c).mounts = [p \in MuxIds(c) |-> c.muxes[LastIn(MountedAt(c, p))].file]
  BY <1>1 DEF PbsService, Service, SpecMounted, MuxPath
<1>3. /\ DirkService(c).kind = "signer" /\ DirkService(c).spec = (c.chain = "path")
      /\ DirkService(c).var = None /\ DirkService(c).admin = FALSE
      /\ LocalService(c).kind = "signer" /\ LocalService(c).spec = (c.chain = "path")
      /\ LocalService(c).var = None /\ LocalService(c).admin = TRUE
  BY DEF DirkService, LocalService, Service, SpecMounted
<1> QED
  BY <1>2, <1>3, Zenon DEF SignerServiceOf

(***************************************************************************)
(* What the services make of the files of a complete run.                  *)
(***************************************************************************)
SignerEnv(c, g) == Interpolate(SignerServiceOf(c), EnvFile(c, g))

LEMMA SignerEnvIs ==
  ASSUME NEW c, NEW g, NeedsSigner(c)
  PROVE  /\ SignerEnv(c, g).jwts = Jwts(c, g)
         /\ SignerEnv(c, g).admin = IF c.signer = "local" THEN << <<g, 0>> >> ELSE <<>>
  BY ServiceKinds, Zenon DEF SignerEnv, Interpolate, EnvFile

\* Modules with ids of their own have secrets of their own.
LEMMA OwnSecrets ==
  ASSUME NEW c \in Configs, NEW g, NEW i \in CommitModules(c),
         \A j \in DOMAIN ModulesOf(c) : ModulesOf(c)[j].id = ModulesOf(c)[i].id => j = i
  PROVE  ModulesOf(c)[i].id \in DOMAIN Jwts(c, g) /\ Jwts(c, g)[ModulesOf(c)[i].id] = <<g, i>>
<1> DEFINE id == ModulesOf(c)[i].id
<1>1. id \in DOMAIN Jwts(c, g)
  BY DEF Jwts
<1>2. LastIn(WithId(c, id)) \in WithId(c, id) /\ Jwts(c, g)[id] = <<g, LastIn(WithId(c, id))>>
  BY <1>1, JwtsAre
<1>3. \A j \in WithId(c, id) : j = i
  BY ModulesType, Zenon DEF WithId
<1> QED
  BY <1>1, <1>2, <1>3

LEMMA SignerIf ==
  ASSUME NEW c \in Configs, NEW g, NeedsSigner(c), LocalSignerFits(c)
  PROVE  SignerLoads(c, SignerServiceOf(c), SignerEnv(c, g)) /\ ModulesOf(c) # <<>>
<1> DEFINE ms == ModulesOf(c)
           e == SignerEnv(c, g)
<1>1. /\ DOMAIN ms = 1..Len(ms) /\ Len(ms) \in Nat /\ ms # <<>>
      /\ c.signer = "local" /\ c.relays # None
      /\ \A i \in DOMAIN ms : ms[i].kind = "commit" /\ ms[i].sid # 0
      /\ \A i, j \in DOMAIN ms : ms[i].id = ms[j].id => i = j
      /\ \A i, j \in DOMAIN ms : ms[i].sid = ms[j].sid => i = j
  BY ModulesType DEF LocalSignerFits, SignerFits, IsInjective
<1>2. CommitModules(c) = DOMAIN ms
  BY <1>1 DEF CommitModules
<1>3. e.jwts = Jwts(c, g) /\ e.admin = << <<g, 0>> >>
  BY <1>1, SignerEnvIs, Zenon
<1>4. \A i \in DOMAIN ms : ms[i].id \in DOMAIN e.jwts /\ e.jwts[ms[i].id] = <<g, i>>
  <2> SUFFICES ASSUME NEW i \in DOMAIN ms
               PROVE  ms[i].id \in DOMAIN e.jwts /\ e.jwts[ms[i].id] = <<g, i>>
    OBVIOUS
  <2>1. i \in CommitModules(c) /\ \A j \in DOMAIN ms : ms[j].id = ms[i].id => j = i
    BY <1>1, <1>2
  <2>2. ms[i].id \in DOMAIN Jwts(c, g) /\ Jwts(c, g)[ms[i].id] = <<g, i>>
    BY <2>1, OwnSecrets, Zenon
  <2> QED
    BY <1>3, <2>2, Zenon
<1>5. c.modules # None
  BY <1>1, Zenon DEF ModulesOf
<1>6. 1 \in DOMAIN ms
  <2>1. ms \in Seq([id : DOMAIN Lower, kind : {"commit", "events"}, sid : Nat])
    BY DeploymentAssumption, Zenon
  <2> QED
    BY <1>1, <2>1
<1> HIDE DEF e, ms
<1>7. JwtsLoad(e)
  <2>1. e.jwts # <<>>
    BY <1>4, <1>6
  <2>2. e.admin # <<>>
    BY <1>3
  <2> QED
    BY <2>1, <2>2, Zenon DEF JwtsLoad
<1>8. SigningConfigsLoad(c, e)
  <2>1. ASSUME NEW i \in DOMAIN ms
        PROVE  ms[i].id \in DOMAIN e.jwts /\ e.jwts[ms[i].id] # Blank /\ ms[i].sid # 0
    <3>1. ms[i].id \in DOMAIN e.jwts /\ e.jwts[ms[i].id] = <<g, i>> /\ ms[i].sid # 0
      BY <1>1, <1>4, Zenon
    <3> QED
      BY <3>1, <<g, i>> # <<>> DEF Blank
  <2>2. ASSUME NEW i \in DOMAIN ms, NEW j \in 1..(i - 1)
        PROVE  ms[j].id # ms[i].id /\ e.jwts[ms[j].id] # e.jwts[ms[i].id] /\ ms[j].sid # ms[i].sid
    <3>1. j \in DOMAIN ms /\ j # i
      BY <1>1
    <3>2. e.jwts[ms[j].id] = <<g, j>> /\ e.jwts[ms[i].id] = <<g, i>>
      BY <1>4, <3>1, Zenon
    <3> QED
      BY <1>1, <3>1, <3>2
  <2> QED
    BY <1>5, <2>1, <2>2, Zenon DEF SigningConfigsLoad, ms
<1>9. FileLoads(c, SignerServiceOf(c)) /\ SignerKindOk(c)
  BY <1>1, DeploymentAssumption, ServiceKinds, Zenon DEF FileLoads, SignerKindOk
<1> QED
  BY <1>1, <1>7, <1>8, <1>9 DEF SignerLoads, e, ms

\* A mux finds its file at the path that its variable names.
LEMMA MuxesAre ==
  ASSUME NEW c \in Configs
  PROVE  /\ DOMAIN PbsService(c).paths = MuxIds(c)
         /\ \A i \in DOMAIN c.muxes :
              /\ c.muxes[i].id \in MuxIds(c)
              /\ MuxFile(PbsService(c), c.muxes[i].id)
                   = c.muxes[LastIn(MountedAt(c, c.muxes[i].id))].file
              /\ IsInjective([j \in DOMAIN c.muxes |-> c.muxes[j].id]) =>
                   MuxFile(PbsService(c), c.muxes[i].id) = c.muxes[i].file
<1> DEFINE s == PbsService(c)
<1>1. /\ s.paths = [id \in MuxIds(c) |-> id]
      /\ s.mounts = [p \in MuxIds(c) |-> c.muxes[LastIn(MountedAt(c, p))].file]
  BY ServiceKinds, Zenon
<1> HIDE DEF s
<1> SUFFICES ASSUME NEW i \in DOMAIN c.muxes
             PROVE  /\ c.muxes[i].id \in MuxIds(c)
                    /\ MuxFile(s, c.muxes[i].id) = c.muxes[LastIn(MountedAt(c, c.muxes[i].id))].file
                    /\ IsInjective([j \in DOMAIN c.muxes |-> c.muxes[j].id]) =>
                         MuxFile(s, c.muxes[i].id) = c.muxes[i].file
  BY <1>1, Zenon DEF s
<1>2. c.muxes[i].id \in MuxIds(c)
  BY DEF MuxIds, Range
<1>3. MuxFile(s, c.muxes[i].id) = c.muxes[LastIn(MountedAt(c, c.muxes[i].id))].file
  BY <1>1, <1>2, Zenon DEF MuxFile
<1>4. ASSUME IsInjective([j \in DOMAIN c.muxes |-> c.muxes[j].id])
      PROVE  LastIn(MountedAt(c, c.muxes[i].id)) = i
  <2> DEFINE S == MountedAt(c, c.muxes[i].id)
  <2>1. i \in S /\ \A j \in S : j = i
    BY <1>4, Zenon DEF MountedAt, MuxPath, IsInjective
  <2>2. DOMAIN c.muxes = 1..Len(c.muxes) /\ Len(c.muxes) \in Nat
    BY DeploymentAssumption
  <2>3. S \in SUBSET Nat /\ i \in Nat
    BY <2>2 DEF MountedAt
  <2> QED
    BY <2>1, <2>3, LastIs
<1> QED
  BY <1>2, <1>3, <1>4, Zenon

LEMMA PbsIf ==
  ASSUME NEW c \in Configs, c.valid, PbsFits(c)
  PROVE  PbsLoads(c, PbsService(c))
<1> DEFINE s == PbsService(c)
<1>1. FileLoads(c, s) /\ c.relays # {}
  BY DeploymentAssumption, ServiceKinds, Zenon DEF FileLoads, PbsFits
<1>2. MuxIds(c) \subseteq DOMAIN s.paths
  BY MuxesAre, Zenon
<1>3. MuxFilesLoad(c, s)
  <2>1. \A i \in DOMAIN c.muxes : MuxFile(s, c.muxes[i].id) = c.muxes[i].file
    BY MuxesAre, Zenon DEF PbsFits
  <2> QED
    BY <1>2, <2>1, ZenonT(30) DEF MuxFilesLoad, PbsFits, IsInjective
<1> HIDE DEF s
<1> QED
  BY <1>1, <1>3, Zenon DEF PbsLoads, s

\* Whatever is at the path of a mux is a file that the configuration names for it.
LEMMA MuxFileOf ==
  ASSUME NEW c \in Configs, NEW id \in MuxIds(c)
  PROVE  \E j \in DOMAIN c.muxes : c.muxes[j].id = id /\ c.muxes[j].file = MuxFile(PbsService(c), id)
<1>1. PICK i \in DOMAIN c.muxes : c.muxes[i].id = id
  BY DEF MuxIds, Range
<1> DEFINE S == MountedAt(c, id)
<1>2. DOMAIN c.muxes = 1..Len(c.muxes) /\ Len(c.muxes) \in Nat
  BY DeploymentAssumption
<1>3. S \subseteq 1..Len(c.muxes) /\ i \in S
  BY <1>1, <1>2, Zenon DEF MountedAt, MuxPath
<1>4. LastIn(S) \in S
  BY <1>2, <1>3, LastInSet, Zenon
<1>5. LastIn(S) \in DOMAIN c.muxes /\ c.muxes[LastIn(S)].id = id
  BY <1>4, Zenon DEF MountedAt, MuxPath
<1>6. MuxFile(PbsService(c), id) = c.muxes[LastIn(S)].file
  BY <1>1, MuxesAre, Zenon
<1> QED
  BY <1>5, <1>6, Zenon

-----------------------------------------------------------------------------
(***************************************************************************)
(* The inductive invariant of Deployment.  K is the configuration that     *)
(* each run of init has read, and H the environment file that it left,     *)
(* which is an older one if it wrote none.  A container comes from the     *)
(* compose file of one run and the environment file of one, and has loaded *)
(* what its start made of the configuration it saw.                        *)
(***************************************************************************)
EnvFiles == {NoEnvFile} \cup {EnvFile(c, g) : c \in Configs, g \in Nat}

FileOk(K, file, g) ==
  file = NoEnvFile \/ \E h \in 1..g : NeedsSigner(K[h]) /\ file = EnvFile(K[h], h)

OriginOk(K, H, o, g, e) ==
  /\ o.compose \in 1..g /\ o.env \in 0..e
  /\ o.config = K[o.compose] /\ ~ InitFails(o.config)
  /\ FileOk(K, H[o.env], g)
  /\ (o.compose = o.env /\ NeedsSigner(o.config)) => H[o.env] = EnvFile(o.config, o.compose)

Loads(c, s, e) ==
  CASE s.kind = "signer" -> SignerLoads(c, s, e) /\ ModulesOf(c) # <<>>
    [] s.kind = "pbs" -> PbsLoads(c, s)
    [] OTHER -> ModuleLoads(c, s)

LoadedOf(c, s, e) ==
  CASE s.kind = "signer" -> Registry(c, e)
    [] s.kind = "pbs" -> [id \in MuxIds(c) |-> MuxFile(s, id)]
    [] OTHER -> e.secret

StateOk(k) ==
  /\ k.state \in {"created", "running", "healthy", "exited"}
  /\ k.state # "exited" => k.cause = "none"
  /\ k.state \in {"running", "healthy"} =>
       Loads(k.seen, k.service, k.env) /\ k.loaded = LoadedOf(k.seen, k.service, k.env)
  /\ k.cause \in {"config", "empty"} => ~ Loads(k.seen, k.service, k.env)

\* k is a record with the fields of a container.
IsContainer(k) ==
  k \in [service : {k.service}, env : {k.env}, origin : {k.origin}, state : {k.state},
         cause : {k.cause}, seen : {k.seen}, loaded : {k.loaded}]

IsOrigin(o) == o \in [config : {o.config}, compose : {o.compose}, env : {o.env}]

ContainerOk(K, H, n, k, g, e) ==
  /\ IsContainer(k)
  /\ OriginOk(K, H, k.origin, g, e)
  /\ n \in DOMAIN ComposeFile(k.origin.config) /\ k.service = ComposeFile(k.origin.config)[n]
  /\ k.env = Interpolate(k.service, H[k.origin.env])
  /\ StateOk(k)

HostInv(K, H) ==
  /\ config \in Configs /\ gen \in Nat /\ made.env \in 0..gen
  /\ IsOrigin(made)
  /\ env = H[made.env] /\ FileOk(K, env, gen)
  /\ IF gen = 0 THEN compose = <<>> /\ cli = NoEnvFile
     ELSE OriginOk(K, H, made, gen, made.env) /\ compose = ComposeFile(made.config)
  /\ cli # NoEnvFile =>
       /\ made.compose = gen /\ made.env < gen /\ NeedsSigner(made.config)
       /\ cli = EnvFile(made.config, gen)

ContainersInv(K, H) ==
  \A n \in DOMAIN containers : ContainerOk(K, H, n, containers[n], gen, made.env)

DeploymentInv ==
  \E K \in [Nat -> Configs], H \in [Nat -> EnvFiles] : HostInv(K, H) /\ ContainersInv(K, H)

LEMMA DeploymentInitInv == DeploymentInit => DeploymentInv
<1> SUFFICES ASSUME DeploymentInit PROVE DeploymentInv
  OBVIOUS
<1> DEFINE K == [g \in Nat |-> config]
           H == [g \in Nat |-> NoEnvFile]
<1>1. K \in [Nat -> Configs] /\ H \in [Nat -> EnvFiles]
  BY DEF DeploymentInit, EnvFiles
<1>2. HostInv(K, H)
  BY DEF DeploymentInit, HostInv, FileOk, IsOrigin
<1>3. ContainersInv(K, H)
  BY DEF DeploymentInit, ContainersInv
<1> HIDE DEF K, H
<1> QED
  BY <1>1, <1>2, <1>3 DEF DeploymentInv

\* Steps that leave the host's files alone.
LEMMA HostKept ==
  ASSUME NEW K, NEW H, HostInv(K, H), UNCHANGED host
  PROVE  HostInv(K, H)' /\ gen' = gen /\ made' = made /\ config' = config
<1>1. /\ config' = config /\ gen' = gen /\ cli' = cli /\ compose' = compose
      /\ env' = env /\ made' = made
  BY DEF host
<1> QED
  BY <1>1 DEF HostInv

LEMMA OneChanged ==
  ASSUME NEW K, NEW H, HostInv(K, H), ContainersInv(K, H), UNCHANGED host,
         NEW n \in DOMAIN containers, NEW k, containers' = [containers EXCEPT ![n] = k],
         ContainerOk(K, H, n, k, gen, made.env)
  PROVE  HostInv(K, H)' /\ ContainersInv(K, H)'
<1>1. HostInv(K, H)' /\ gen' = gen /\ made' = made
  BY HostKept
<1>2. DOMAIN containers' = DOMAIN containers /\ containers'[n] = k
      /\ \A o \in DOMAIN containers \ {n} : containers'[o] = containers[o]
  OBVIOUS
<1>3. \A o \in DOMAIN containers' : ContainerOk(K, H, o, containers'[o], gen, made.env)
  BY <1>2 DEF ContainersInv
<1> QED
  BY <1>1, <1>3 DEF ContainersInv

\* A start that ends in Exit, or in Run.
LEMMA ExitOk ==
  ASSUME NEW K, NEW H, NEW n, NEW k, NEW g, NEW e, ContainerOk(K, H, n, k, g, e),
         NEW c, NEW cause, cause \in {"config", "empty"} => ~ Loads(c, k.service, k.env)
  PROVE  ContainerOk(K, H, n, [k EXCEPT !.state = "exited", !.cause = cause, !.seen = c], g, e)
<1> DEFINE x == [k EXCEPT !.state = "exited", !.cause = cause, !.seen = c]
<1>1. /\ IsContainer(x) /\ x.service = k.service /\ x.env = k.env /\ x.origin = k.origin
      /\ x.state = "exited" /\ x.cause = cause /\ x.seen = c
  <2>1. IsContainer(k)
    BY Zenon DEF ContainerOk
  <2> QED
    BY <2>1, Zenon DEF IsContainer
<1> HIDE DEF x
<1>2. StateOk(x)
  BY <1>1 DEF StateOk
<1>3. ContainerOk(K, H, n, x, g, e)
  BY <1>1, <1>2, Zenon DEF ContainerOk
<1> QED
  BY <1>3 DEF x

LEMMA RunOk ==
  ASSUME NEW K, NEW H, NEW n, NEW k, NEW g, NEW e, ContainerOk(K, H, n, k, g, e),
         NEW c, k.state = "created", Loads(c, k.service, k.env),
         NEW loaded, loaded = LoadedOf(c, k.service, k.env)
  PROVE  ContainerOk(K, H, n, [k EXCEPT !.state = "running", !.loaded = loaded, !.seen = c], g, e)
<1> DEFINE x == [k EXCEPT !.state = "running", !.loaded = loaded, !.seen = c]
<1>1. /\ IsContainer(x) /\ x.service = k.service /\ x.env = k.env /\ x.origin = k.origin
      /\ x.state = "running" /\ x.cause = k.cause /\ x.seen = c /\ x.loaded = loaded
  <2>1. IsContainer(k)
    BY Zenon DEF ContainerOk
  <2> QED
    BY <2>1, Zenon DEF IsContainer
<1>2. k.cause = "none"
  BY Zenon DEF ContainerOk, StateOk
<1> HIDE DEF x
<1>3. StateOk(x)
  BY <1>1, <1>2 DEF StateOk
<1>4. ContainerOk(K, H, n, x, g, e)
  BY <1>1, <1>3, Zenon DEF ContainerOk
<1> QED
  BY <1>4, Zenon DEF x

\* A container that keeps what it has loaded: it turns healthy, or crashes.
LEMMA HealthyOk ==
  ASSUME NEW K, NEW H, NEW n, NEW k, NEW g, NEW e, ContainerOk(K, H, n, k, g, e),
         k.state = "running"
  PROVE  ContainerOk(K, H, n, [k EXCEPT !.state = "healthy"], g, e)
<1> DEFINE x == [k EXCEPT !.state = "healthy"]
<1>1. /\ IsContainer(x) /\ x.service = k.service /\ x.env = k.env /\ x.origin = k.origin
      /\ x.state = "healthy" /\ x.cause = k.cause /\ x.seen = k.seen /\ x.loaded = k.loaded
  <2>1. IsContainer(k)
    BY Zenon DEF ContainerOk
  <2> QED
    BY <2>1, Zenon DEF IsContainer
<1> HIDE DEF x
<1>2. StateOk(x)
  BY <1>1, Zenon DEF ContainerOk, StateOk
<1>3. ContainerOk(K, H, n, x, g, e)
  BY <1>1, <1>2, Zenon DEF ContainerOk
<1> QED
  BY <1>3 DEF x

LEMMA CrashOk ==
  ASSUME NEW K, NEW H, NEW n, NEW k, NEW g, NEW e, ContainerOk(K, H, n, k, g, e)
  PROVE  ContainerOk(K, H, n, [k EXCEPT !.state = "exited", !.cause = "crash"], g, e)
<1> DEFINE x == [k EXCEPT !.state = "exited", !.cause = "crash"]
<1>1. /\ IsContainer(x) /\ x.service = k.service /\ x.env = k.env /\ x.origin = k.origin
      /\ x.state = "exited" /\ x.cause = "crash"
  <2>1. IsContainer(k)
    BY Zenon DEF ContainerOk
  <2> QED
    BY <2>1, Zenon DEF IsContainer
<1> HIDE DEF x
<1>2. StateOk(x)
  BY <1>1 DEF StateOk
<1>3. ContainerOk(K, H, n, x, g, e)
  BY <1>1, <1>2, Zenon DEF ContainerOk
<1> QED
  BY <1>3, Zenon DEF x

-----------------------------------------------------------------------------
\* A later run of init leaves what came from the earlier ones as it was.
LEMMA FileKept ==
  ASSUME NEW K, NEW L, NEW file, NEW g \in Nat, NEW h \in Nat, g <= h,
         \A i \in 1..g : L[i] = K[i], FileOk(K, file, g)
  PROVE  FileOk(L, file, h)
<1>1. 1..g \subseteq 1..h
  OBVIOUS
<1> QED
  BY <1>1, Zenon DEF FileOk

LEMMA OriginKept ==
  ASSUME NEW K, NEW L, NEW H, NEW J, NEW o, NEW g \in Nat, NEW h \in Nat, g <= h,
         NEW e \in Nat, NEW d \in Nat, e <= d,
         \A i \in 1..g : L[i] = K[i], \A i \in 0..e : J[i] = H[i], OriginOk(K, H, o, g, e)
  PROVE  OriginOk(L, J, o, h, d)
<1>1. /\ o.compose \in 1..g /\ o.env \in 0..e /\ o.compose \in 1..h /\ o.env \in 0..d
      /\ L[o.compose] = K[o.compose] /\ J[o.env] = H[o.env]
  BY DEF OriginOk
<1>2. FileOk(L, J[o.env], h)
  BY <1>1, FileKept DEF OriginOk
<1> QED
  BY <1>1, <1>2, Zenon DEF OriginOk

LEMMA ContainersKept ==
  ASSUME NEW K, NEW L, NEW H, NEW J, NEW g \in Nat, NEW e \in Nat, gen \in Nat, gen <= g,
         made.env \in Nat, made.env <= e,
         \A i \in 1..gen : L[i] = K[i], \A i \in 0..made.env : J[i] = H[i],
         ContainersInv(K, H)
  PROVE  \A n \in DOMAIN containers : ContainerOk(L, J, n, containers[n], g, e)
<1> SUFFICES ASSUME NEW n \in DOMAIN containers
             PROVE  ContainerOk(L, J, n, containers[n], g, e)
  OBVIOUS
<1> DEFINE k == containers[n]
<1>1. ContainerOk(K, H, n, k, gen, made.env)
  BY Zenon DEF ContainersInv
<1> HIDE DEF k
<1>2. OriginOk(K, H, k.origin, gen, made.env)
  BY <1>1, Zenon DEF ContainerOk
<1>3. OriginOk(L, J, k.origin, g, e)
  BY <1>2, OriginKept
<1>4. J[k.origin.env] = H[k.origin.env]
  BY <1>2, Zenon DEF OriginOk
<1>5. ContainerOk(L, J, n, k, g, e)
  BY <1>1, <1>3, <1>4, Zenon DEF ContainerOk
<1> QED
  BY <1>5, Zenon DEF k

LEMMA EnvFileOf ==
  ASSUME NEW c, NEW g
  PROVE  NeedsSigner(c) <=> EnvFile(c, g) # NoEnvFile
<1>1. ASSUME NeedsSigner(c) PROVE EnvFile(c, g).written = TRUE /\ NoEnvFile.written = FALSE
  BY <1>1 DEF EnvFile, NoEnvFile
<1> QED
  BY <1>1, Zenon DEF EnvFile

LEMMA EditConfigInv ==
  ASSUME NEW K, NEW H, HostInv(K, H), ContainersInv(K, H), NEW c \in Configs, EditConfig(c)
  PROVE  HostInv(K, H)' /\ ContainersInv(K, H)'
<1>1. /\ config' \in Configs /\ gen' = gen /\ cli' = cli /\ compose' = compose
      /\ env' = env /\ made' = made /\ containers' = containers
  BY DEF EditConfig
<1> QED
  BY <1>1, Zenon DEF HostInv, ContainersInv

LEMMA InitInterruptedInv ==
  ASSUME NEW K, NEW H, HostInv(K, H), ContainersInv(K, H), InitInterrupted
  PROVE  HostInv(K, H)' /\ ContainersInv(K, H)'
<1>1. /\ config' = config /\ gen' = gen /\ cli' = NoEnvFile /\ compose' = compose
      /\ env' = env /\ made' = made /\ containers' = containers
  BY DEF InitInterrupted
<1> QED
  BY <1>1, Zenon DEF HostInv, ContainersInv

\* Run gen + 1 of init has read the configuration as it is.
LEMMA WriteComposeInv ==
  ASSUME NEW K \in [Nat -> Configs], NEW H \in [Nat -> EnvFiles],
         HostInv(K, H), ContainersInv(K, H), WriteCompose
  PROVE  DeploymentInv'
<1> DEFINE g == gen + 1
<1>1. /\ config \in Configs /\ gen \in Nat /\ g \in Nat /\ made.env \in 0..gen /\ made.env \in Nat
      /\ env = H[made.env] /\ IsOrigin(made) /\ FileOk(K, env, gen) /\ gen <= g /\ env \in EnvFiles
  BY DEF HostInv
<1>2. PICK L \in [Nat -> Configs], J \in [Nat -> EnvFiles] :
           /\ L[g] = config /\ \A i \in 1..gen : L[i] = K[i]
           /\ \A i \in 0..gen : J[i] = H[i]
           /\ NeedsSigner(config) => J = H
           /\ ~ NeedsSigner(config) => J[g] = env
  <2> DEFINE A == [K EXCEPT ![g] = config]
             B == IF NeedsSigner(config) THEN H ELSE [H EXCEPT ![g] = env]
  <2>1. /\ A \in [Nat -> Configs] /\ B \in [Nat -> EnvFiles]
        /\ A[g] = config /\ \A i \in 1..gen : A[i] = K[i]
        /\ \A i \in 0..gen : B[i] = H[i]
        /\ NeedsSigner(config) => B = H
        /\ ~ NeedsSigner(config) => B[g] = env
    BY <1>1
  <2> HIDE DEF A, B
  <2> QED
    BY <2>1, Zenon
<1>3. /\ gen' = g /\ compose' = ComposeFile(config) /\ cli' = EnvFile(config, g)
      /\ config' = config /\ env' = env /\ containers' = containers /\ ~ InitFails(config)
  BY Zenon DEF WriteCompose
<1>4. /\ IsOrigin(made') /\ made'.config = config /\ made'.compose = g
      /\ made'.env = IF NeedsSigner(config) THEN made.env ELSE g
  <2>1. made' = [made EXCEPT !.config = config, !.compose = g,
                             !.env = IF NeedsSigner(config) THEN made.env ELSE g]
    <3>1. made' = [made EXCEPT !.config = config, !.compose = g,
                               !.env = IF cli' = NoEnvFile THEN g ELSE made.env]
      BY <1>3, Zenon DEF WriteCompose
    <3>2. (IF cli' = NoEnvFile THEN g ELSE made.env) = IF NeedsSigner(config) THEN made.env ELSE g
      BY <1>3, EnvFileOf, Zenon
    <3> QED
      BY <3>1, <3>2, Zenon
  <2> QED
    BY <1>1, <2>1, Zenon DEF IsOrigin
<1> HIDE DEF g
<1>5. /\ made'.env \in 0..g /\ made'.env \in Nat /\ made.env <= made'.env /\ J[made'.env] = env
      /\ g > gen /\ g \in 1..g
  BY <1>1, <1>2, <1>4 DEF g
<1>6. FileOk(L, env, g)
  BY <1>1, <1>2, FileKept
<1>7. OriginOk(L, J, made', g, made'.env)
  <2>1. made'.env \in 0..made'.env /\ (made'.compose = made'.env => ~ NeedsSigner(config))
    BY <1>1, <1>4, <1>5 DEF g
  <2> QED
    BY <1>2, <1>3, <1>4, <1>5, <1>6, <2>1, Zenon DEF OriginOk
<1>8. cli' # NoEnvFile => made'.env < g /\ NeedsSigner(config)
  BY <1>1, <1>3, <1>4, EnvFileOf DEF g
<1>9. HostInv(L, J)'
  <2>1. gen' # 0
    BY <1>1, <1>3, <1>5, SMTT(30)
  <2> QED
    BY <1>1, <1>3, <1>4, <1>5, <1>6, <1>7, <1>8, <2>1, Zenon DEF HostInv
<1>10. ContainersInv(L, J)'
  <2>1. \A i \in 0..made.env : J[i] = H[i]
    BY <1>1, <1>2
  <2>2. \A n \in DOMAIN containers : ContainerOk(L, J, n, containers[n], g, made'.env)
    BY <1>1, <1>2, <1>5, <2>1, ContainersKept, Zenon
  <2> QED
    BY <1>3, <2>2, Zenon DEF ContainersInv
<1> QED
  BY <1>2, <1>9, <1>10, Zenon DEF DeploymentInv

\* Run gen of init leaves its environment file.
LEMMA WriteEnvInv ==
  ASSUME NEW K \in [Nat -> Configs], NEW H \in [Nat -> EnvFiles],
         HostInv(K, H), ContainersInv(K, H), WriteEnv
  PROVE  DeploymentInv'
<1>1. /\ config \in Configs /\ gen \in Nat /\ gen # 0 /\ made.env \in 0..gen /\ made.env \in Nat
      /\ made.env < gen /\ made.compose = gen /\ IsOrigin(made) /\ NeedsSigner(made.config)
      /\ cli = EnvFile(made.config, gen) /\ made.config = K[gen] /\ ~ InitFails(made.config)
      /\ compose = ComposeFile(made.config)
  BY DEF HostInv, WriteEnv, OriginOk
<1>2. PICK J \in [Nat -> EnvFiles] : J[gen] = cli /\ \A i \in 0..made.env : J[i] = H[i]
  <2> DEFINE B == [H EXCEPT ![gen] = cli]
  <2>1. cli \in EnvFiles
    BY <1>1 DEF EnvFiles
  <2>2. B \in [Nat -> EnvFiles] /\ B[gen] = cli /\ \A i \in 0..made.env : B[i] = H[i]
    BY <1>1, <2>1
  <2> HIDE DEF B
  <2> QED
    BY <2>2, Zenon
<1>3. /\ gen' = gen /\ compose' = compose /\ cli' = NoEnvFile /\ env' = cli
      /\ config' = config /\ containers' = containers
  BY DEF WriteEnv
<1>4. IsOrigin(made') /\ made'.config = made.config /\ made'.compose = gen /\ made'.env = gen
  BY <1>1 DEF WriteEnv, IsOrigin
<1>5. FileOk(K, cli, gen)
  <2>1. gen \in 1..gen
    BY <1>1
  <2> QED
    BY <1>1, <2>1, Zenon DEF FileOk
<1>6. OriginOk(K, J, made', gen, gen)
  <2>1. gen \in 1..gen /\ gen \in 0..gen
    BY <1>1
  <2> QED
    BY <1>1, <1>2, <1>4, <1>5, <2>1, Zenon DEF OriginOk
<1>7. HostInv(K, J)'
  <2>1. made'.env \in 0..gen'
    BY <1>1, <1>3, <1>4
  <2> QED
    BY <1>1, <1>2, <1>3, <1>4, <1>5, <1>6, <2>1, Zenon DEF HostInv
<1>8. ContainersInv(K, J)'
  <2>1. \A n \in DOMAIN containers : ContainerOk(K, J, n, containers[n], gen, gen)
    BY <1>1, <1>2, ContainersKept
  <2> QED
    BY <1>3, <1>4, <2>1, Zenon DEF ContainersInv
<1> QED
  BY <1>7, <1>8, Zenon DEF DeploymentInv

LEMMA ComposeUpInv ==
  ASSUME NEW K, NEW H, HostInv(K, H), ContainersInv(K, H), ComposeUp
  PROVE  HostInv(K, H)' /\ ContainersInv(K, H)'
<1>1. HostInv(K, H)' /\ gen' = gen /\ made' = made
  BY HostKept DEF ComposeUp
<1>2. /\ OriginOk(K, H, made, gen, made.env) /\ compose = ComposeFile(made.config)
      /\ env = H[made.env]
  BY Zenon DEF HostInv, ComposeUp
<1>3. ASSUME NEW n \in DOMAIN containers'
      PROVE  ContainerOk(K, H, n, containers'[n], gen, made.env)
  <2>1. CASE n \notin DOMAIN compose
    <3>1. n \in DOMAIN containers /\ containers'[n] = containers[n]
      BY <1>3, <2>1 DEF ComposeUp
    <3> QED
      BY <3>1 DEF ContainersInv
  <2>2. CASE n \in DOMAIN compose /\ Same(n) /\ State(n) # "exited"
    <3> DEFINE k == containers[n]
               x == containers'[n]
    <3>1. n \in DOMAIN containers /\ x = [k EXCEPT !.origin = made]
      BY <1>3, <2>2, Zenon DEF ComposeUp, Same, Present
    <3>2. k.service = compose[n] /\ k.env = Interpolate(compose[n], env)
      BY <2>2 DEF Same, Created
    <3>3. ContainerOk(K, H, n, k, gen, made.env)
      BY <3>1 DEF ContainersInv
    <3> HIDE DEF k, x
    <3>4. /\ IsContainer(x) /\ x.service = k.service /\ x.env = k.env /\ x.origin = made
          /\ x.state = k.state /\ x.cause = k.cause /\ x.seen = k.seen /\ x.loaded = k.loaded
      <4>1. IsContainer(k)
        BY <3>3, Zenon DEF ContainerOk
      <4> QED
        BY <3>1, <4>1 DEF IsContainer
    <3>5. StateOk(x)
      BY <3>3, <3>4, Zenon DEF ContainerOk, StateOk
    <3>6. ContainerOk(K, H, n, x, gen, made.env)
      BY <1>2, <2>2, <3>2, <3>4, <3>5, Zenon DEF ContainerOk
    <3> QED
      BY <3>6, Zenon DEF x
  <2>3. CASE n \in DOMAIN compose /\ ~ (Same(n) /\ State(n) # "exited")
    <3> DEFINE x == containers'[n]
    <3>1. x = Created(n)
      BY <1>3, <2>3, Zenon DEF ComposeUp
    <3>2. /\ IsContainer(x) /\ x.service = compose[n] /\ x.env = Interpolate(compose[n], env)
          /\ x.origin = made /\ x.state = "created" /\ x.cause = "none"
      BY <3>1 DEF IsContainer, Created
    <3> HIDE DEF x
    <3>3. StateOk(x)
      BY <3>2, Zenon DEF StateOk
    <3>4. ContainerOk(K, H, n, x, gen, made.env)
      BY <1>2, <2>3, <3>2, <3>3, Zenon DEF ContainerOk
    <3> QED
      BY <3>4 DEF x
  <2> QED
    BY <2>1, <2>2, <2>3, Zenon
<1> QED
  BY <1>1, <1>3, Zenon DEF ContainersInv

LEMMA ComposeDownInv ==
  ASSUME NEW K, NEW H, HostInv(K, H), ContainersInv(K, H), ComposeDown
  PROVE  HostInv(K, H)' /\ ContainersInv(K, H)'
<1>1. HostInv(K, H)' /\ containers' = <<>>
  BY HostKept DEF ComposeDown
<1>2. DOMAIN containers' = {}
  BY <1>1
<1> QED
  BY <1>1, <1>2 DEF ContainersInv

LEMMA ExitInv ==
  ASSUME NEW K, NEW H, HostInv(K, H), ContainersInv(K, H), UNCHANGED host,
         NEW n \in DOMAIN containers, NEW cause, Exit(n, cause),
         cause \in {"config", "empty"} =>
           ~ Loads(config, containers[n].service, containers[n].env)
  PROVE  HostInv(K, H)' /\ ContainersInv(K, H)'
<1> DEFINE k == containers[n]
           x == [k EXCEPT !.state = "exited", !.cause = cause, !.seen = config]
<1>1. ContainerOk(K, H, n, k, gen, made.env)
  BY Zenon DEF ContainersInv
<1>2. ContainerOk(K, H, n, x, gen, made.env)
  <2> HIDE DEF k
  <2> QED
    BY <1>1, ExitOk, Zenon DEF k
<1>3. containers' = [containers EXCEPT ![n] = x]
  BY DEF Exit
<1> HIDE DEF x
<1> QED
  BY <1>2, <1>3, OneChanged, Zenon

LEMMA RunInv ==
  ASSUME NEW K, NEW H, HostInv(K, H), ContainersInv(K, H), UNCHANGED host,
         NEW n \in DOMAIN containers, NEW loaded, Run(n, loaded), State(n) = "created",
         Loads(config, containers[n].service, containers[n].env),
         loaded = LoadedOf(config, containers[n].service, containers[n].env)
  PROVE  HostInv(K, H)' /\ ContainersInv(K, H)'
<1> DEFINE k == containers[n]
           x == [k EXCEPT !.state = "running", !.loaded = loaded, !.seen = config]
<1>1. ContainerOk(K, H, n, k, gen, made.env) /\ k.state = "created"
  BY DEF ContainersInv, State, Present
<1>2. ContainerOk(K, H, n, x, gen, made.env)
  <2> HIDE DEF k
  <2> QED
    BY <1>1, RunOk, Zenon DEF k
<1>3. containers' = [containers EXCEPT ![n] = x]
  BY Zenon DEF Run
<1> HIDE DEF x
<1> QED
  BY <1>2, <1>3, OneChanged, Zenon

LEMMA SignerHealthyInv ==
  ASSUME NEW K, NEW H, HostInv(K, H), ContainersInv(K, H), SignerHealthy
  PROVE  HostInv(K, H)' /\ ContainersInv(K, H)'
<1> DEFINE k == containers["signer"]
           x == [k EXCEPT !.state = "healthy"]
<1>1. "signer" \in DOMAIN containers /\ k.state = "running" /\ UNCHANGED host
  BY DEF SignerHealthy, State, Present
<1>2. ContainerOk(K, H, "signer", x, gen, made.env)
  <2>1. ContainerOk(K, H, "signer", k, gen, made.env)
    BY <1>1, Zenon DEF ContainersInv
  <2> HIDE DEF k
  <2> QED
    BY <1>1, <2>1, HealthyOk, Zenon
<1>3. containers' = [containers EXCEPT !["signer"] = x]
  BY DEF SignerHealthy
<1> HIDE DEF x
<1> QED
  BY <1>1, <1>2, <1>3, OneChanged, Zenon

LEMMA CrashInv ==
  ASSUME NEW K, NEW H, HostInv(K, H), ContainersInv(K, H), NEW n \in DOMAIN containers, Crash(n)
  PROVE  HostInv(K, H)' /\ ContainersInv(K, H)'
<1> DEFINE k == containers[n]
           x == [k EXCEPT !.state = "exited", !.cause = "crash"]
<1>1. ContainerOk(K, H, n, x, gen, made.env)
  <2>1. ContainerOk(K, H, n, k, gen, made.env)
    BY Zenon DEF ContainersInv
  <2> HIDE DEF k
  <2> QED
    BY <2>1, CrashOk, Zenon
<1>2. containers' = [containers EXCEPT ![n] = x] /\ UNCHANGED host
  BY DEF Crash
<1> HIDE DEF x
<1> QED
  BY <1>1, <1>2, OneChanged, Zenon

\* The origin of a container is a configuration that init accepted, and its
\* service one of that configuration.
LEMMA ContainerService ==
  ASSUME NEW K \in [Nat -> Configs], NEW H, NEW n, NEW k, NEW g \in Nat, NEW e,
         ContainerOk(K, H, n, k, g, e), NEW c, c = k.origin.config
  PROVE  /\ c \in Configs /\ ~ InitFails(c)
         /\ \/ n = "pbs" /\ k.service = PbsService(c) /\ k.service.kind = "pbs"
            \/ n = "signer" /\ NeedsSigner(c) /\ k.service = SignerServiceOf(c)
                 /\ k.service.kind = "signer"
            \/ /\ n # "pbs" /\ ~ (n = "signer" /\ NeedsSigner(c))
               /\ IsModuleService(c, n, k.service) /\ k.service.kind \in {"commit", "events"}
<1>1. c \in Configs /\ ~ InitFails(c)
  BY DEF ContainerOk, OriginOk
<1>2. n \in DOMAIN ComposeFile(c) /\ k.service = ComposeFile(c)[n]
  BY Zenon DEF ContainerOk
<1>3. \/ n = "pbs" /\ k.service = PbsService(c)
      \/ n = "signer" /\ NeedsSigner(c) /\ k.service = SignerServiceOf(c)
      \/ /\ n # "pbs" /\ ~ (n = "signer" /\ NeedsSigner(c))
         /\ IsModuleService(c, n, k.service) /\ k.service.kind \in {"commit", "events"}
  BY <1>1, <1>2, Services, Zenon
<1>4. PbsService(c).kind = "pbs" /\ SignerServiceOf(c).kind = "signer"
  BY ServiceKinds, Zenon
<1> QED
  BY <1>1, <1>3, <1>4, Zenon

LEMMA StartSignerInv ==
  ASSUME NEW K, NEW H, HostInv(K, H), ContainersInv(K, H), StartSigner
  PROVE  HostInv(K, H)' /\ ContainersInv(K, H)'
<1> DEFINE k == containers["signer"]
<1>1. /\ "signer" \in DOMAIN containers /\ State("signer") = "created"
      /\ k.service.kind = "signer" /\ UNCHANGED host
  BY DEF StartSigner, State, Present
<1>2. /\ Loads(config, k.service, k.env)
           <=> SignerLoads(config, k.service, k.env) /\ ModulesOf(config) # <<>>
      /\ LoadedOf(config, k.service, k.env) = Registry(config, k.env)
  <2> HIDE DEF k
  <2> QED
    BY <1>1, Zenon DEF Loads, LoadedOf
<1>3. CASE Exit("signer", "port") \/ Exit("signer", "keys")
  BY <1>1, <1>3, ExitInv, SMTT(30)
<1>4. CASE \/ ~ SignerLoads(config, k.service, k.env) /\ Exit("signer", "config")
           \/ ModulesOf(config) = <<>> /\ Exit("signer", "empty")
  BY <1>1, <1>2, <1>4, ExitInv, Zenon
<1>5. CASE /\ SignerLoads(config, k.service, k.env) /\ ModulesOf(config) # <<>>
           /\ Run("signer", Registry(config, k.env))
  BY <1>1, <1>2, <1>5, RunInv, Zenon
<1> QED
  BY <1>3, <1>4, <1>5, Zenon DEF StartSigner

LEMMA StartPbsInv ==
  ASSUME NEW K \in [Nat -> Configs], NEW H, HostInv(K, H), ContainersInv(K, H), StartPbs
  PROVE  HostInv(K, H)' /\ ContainersInv(K, H)'
<1> DEFINE k == containers["pbs"]
           loaded == [id \in MuxIds(config) |-> MuxFile(k.service, id)]
<1>1. "pbs" \in DOMAIN containers /\ State("pbs") = "created" /\ UNCHANGED host
  BY SMTT(30) DEF StartPbs, State, Present
<1>2. k.service.kind = "pbs"
  <2>1. ContainerOk(K, H, "pbs", k, gen, made.env) /\ gen \in Nat
    BY <1>1 DEF ContainersInv, HostInv
  <2> HIDE DEF k
  <2> QED
    BY <2>1, ContainerService
<1>3. /\ Loads(config, k.service, k.env) <=> PbsLoads(config, k.service)
      /\ LoadedOf(config, k.service, k.env) = loaded
  <2> HIDE DEF k
  <2> QED
    BY <1>2 DEF Loads, LoadedOf
<1>4. CASE Exit("pbs", "port") \/ Exit("pbs", "relays")
  BY <1>1, <1>4, ExitInv, Zenon
<1>5. CASE ~ PbsLoads(config, k.service) /\ Exit("pbs", "config")
  BY <1>1, <1>3, <1>5, ExitInv, Zenon
<1>6. CASE PbsLoads(config, k.service) /\ Run("pbs", loaded)
  BY <1>1, <1>3, <1>6, RunInv, Zenon
<1> QED
  BY <1>4, <1>5, <1>6, Zenon DEF StartPbs

LEMMA StartModuleInv ==
  ASSUME NEW K, NEW H, HostInv(K, H), ContainersInv(K, H),
         NEW n \in DOMAIN containers, StartModule(n)
  PROVE  HostInv(K, H)' /\ ContainersInv(K, H)'
<1> DEFINE k == containers[n]
<1>1. State(n) = "created" /\ k.service.kind \in {"commit", "events"} /\ UNCHANGED host
  BY Zenon DEF StartModule
<1>2. /\ Loads(config, k.service, k.env) <=> ModuleLoads(config, k.service)
      /\ LoadedOf(config, k.service, k.env) = k.env.secret
  <2> HIDE DEF k
  <2> QED
    BY <1>1, Zenon DEF Loads, LoadedOf
<1>3. CASE Exit(n, "port")
  BY <1>1, <1>3, ExitInv, SMTT(30)
<1>4. CASE ~ ModuleLoads(config, k.service) /\ Exit(n, "config")
  BY <1>1, <1>2, <1>4, ExitInv, Zenon
<1>5. CASE ModuleLoads(config, k.service) /\ Run(n, k.env.secret)
  BY <1>1, <1>2, <1>5, RunInv, Zenon
<1> QED
  BY <1>3, <1>4, <1>5, Zenon DEF StartModule

LEMMA DeploymentNextInv ==
  ASSUME DeploymentInv, [DeploymentNext]_deploymentVars
  PROVE  DeploymentInv'
<1>1. PICK K \in [Nat -> Configs], H \in [Nat -> EnvFiles] : HostInv(K, H) /\ ContainersInv(K, H)
  BY Zenon DEF DeploymentInv
<1>2. SUFFICES ASSUME ~ WriteCompose, ~ WriteEnv
               PROVE  HostInv(K, H)' /\ ContainersInv(K, H)'
  BY <1>1, <1>2, WriteComposeInv, WriteEnvInv, Zenon DEF DeploymentInv
<1>3. CASE UNCHANGED deploymentVars
  <2>1. UNCHANGED host /\ containers' = containers
    BY <1>3 DEF deploymentVars, host
  <2>2. HostInv(K, H)' /\ gen' = gen /\ made' = made
    BY <1>1, <2>1, HostKept
  <2> QED
    BY <1>1, <2>1, <2>2, Zenon DEF ContainersInv
<1>4. CASE \E c \in Configs : EditConfig(c)
  BY <1>1, <1>4, EditConfigInv, Zenon
<1>5. CASE InitInterrupted
  BY <1>1, <1>5, InitInterruptedInv, Zenon
<1>6. CASE ComposeUp \/ ComposeDown
  BY <1>1, <1>6, ComposeUpInv, ComposeDownInv, Zenon
<1>7. CASE Start
  BY <1>1, <1>7, StartSignerInv, SignerHealthyInv, StartPbsInv, StartModuleInv, Zenon DEF Start
<1>8. CASE \E n \in DOMAIN containers : Crash(n)
  BY <1>1, <1>8, CrashInv, Zenon
<1>9. InitRefused => UNCHANGED deploymentVars
  BY Zenon DEF InitRefused
<1> QED
  BY <1>2, <1>3, <1>4, <1>5, <1>6, <1>7, <1>8, <1>9, Zenon DEF DeploymentNext

LEMMA DeploymentInvariance == DeploymentSpec => []DeploymentInv
<1>1. DeploymentInit => DeploymentInv
  BY DeploymentInitInv
<1>2. DeploymentInv /\ [DeploymentNext]_deploymentVars => DeploymentInv'
  BY DeploymentNextInv, SMTT(30)
<1> QED
  BY <1>1, <1>2, PTL DEF DeploymentSpec

-----------------------------------------------------------------------------
(***************************************************************************)
(* Types.  The counters keep to their bounds, and the compose file is that *)
(* of the last run of init.                                                *)
(***************************************************************************)
Bounds ==
  /\ edits \in 0..MaxEdits /\ crashes \in 0..MaxCrashes /\ gen \in 0..MaxInits
  /\ IsOrigin(made) /\ made.compose = gen

LEMMA BoundsNext ==
  ASSUME Bounds, [DeploymentNext]_deploymentVars
  PROVE  Bounds'
<1>1. CASE UNCHANGED <<edits, crashes, gen, made>>
  BY <1>1 DEF Bounds, IsOrigin
<1>2. CASE \E c \in Configs : EditConfig(c)
  BY <1>2, DeploymentAssumption DEF EditConfig, Bounds, IsOrigin
<1>3. CASE WriteCompose
  <2>1. gen' \in 0..MaxInits /\ edits' = edits /\ crashes' = crashes
    BY <1>3, DeploymentAssumption DEF WriteCompose, Bounds
  <2>2. PICK e : made' = [made EXCEPT !.config = config, !.compose = gen', !.env = e]
    BY <1>3, Zenon DEF WriteCompose
  <2>3. IsOrigin(made') /\ made'.compose = gen'
    BY <2>2, Zenon DEF Bounds, IsOrigin
  <2> QED
    BY <2>1, <2>3, Zenon DEF Bounds, IsOrigin
<1>4. CASE WriteEnv
  BY <1>4, SMTT(30) DEF WriteEnv, Bounds, IsOrigin
<1>5. CASE \E n \in DOMAIN containers : Crash(n)
  BY <1>5, DeploymentAssumption DEF Crash, Bounds, IsOrigin, host
<1>6. CASE InitRefused \/ InitInterrupted \/ ComposeUp \/ ComposeDown \/ Start
  BY <1>1, <1>6, Zenon DEF InitRefused, InitInterrupted, ComposeUp, ComposeDown, Start, StartSigner,
     SignerHealthy, StartPbs, StartModule, host, deploymentVars
<1> QED
  BY <1>1, <1>2, <1>3, <1>4, <1>5, <1>6, Zenon DEF DeploymentNext, deploymentVars

LEMMA NamesOf ==
  ASSUME NEW c \in Configs
  PROVE  "pbs" \in DOMAIN ComposeFile(c) /\ DOMAIN ComposeFile(c) \subseteq Names
<1>1. DOMAIN ModuleServices(c) \subseteq Names
  BY ModulesType, Zenon DEF ModuleServices, ServiceName, Names, Range
<1> QED
  BY <1>1, Zenon DEF ComposeFile, Names

LEMMA InvTypeOK == DeploymentInv /\ Bounds => DeploymentTypeOK
<1> SUFFICES ASSUME DeploymentInv, Bounds
             PROVE  DeploymentTypeOK
  OBVIOUS
<1>1. PICK K \in [Nat -> Configs], H \in [Nat -> EnvFiles] : HostInv(K, H) /\ ContainersInv(K, H)
  BY Zenon DEF DeploymentInv
<1>2. compose = <<>> <=> gen = 0
  <2>1. gen # 0 => "pbs" \in DOMAIN compose
    <3>1. gen \in Nat /\ (gen # 0 => /\ compose = ComposeFile(made.config)
                                     /\ made.compose \in 1..gen /\ made.config = K[made.compose])
      BY <1>1, Zenon DEF HostInv, OriginOk
    <3>2. gen # 0 => made.compose \in Nat
      BY <3>1
    <3>3. gen # 0 => made.config \in Configs
      BY <3>1, <3>2, Zenon
    <3> QED
      BY <3>1, <3>3, NamesOf, Zenon
  <2> QED
    BY <1>1, <2>1 DEF HostInv
<1>3. \A n \in DOMAIN containers :
        n \in Names /\ containers[n].state \in {"created", "running", "healthy", "exited"}
  <2> TAKE n \in DOMAIN containers
  <2>1. ContainerOk(K, H, n, containers[n], gen, made.env)
    BY <1>1, Zenon DEF ContainersInv
  <2>2. containers[n].origin.config \in Configs
    <3>1. /\ containers[n].origin.compose \in 1..gen
          /\ containers[n].origin.config = K[containers[n].origin.compose]
      BY <2>1, Zenon DEF ContainerOk, OriginOk
    <3>2. gen \in Nat
      BY <1>1, Zenon DEF HostInv
    <3>3. containers[n].origin.compose \in Nat
      BY <3>1, <3>2
    <3> QED
      BY <3>1, <3>3, Zenon
  <2> QED
    BY <2>1, <2>2, NamesOf, Zenon DEF ContainerOk, StateOk
<1> QED
  BY <1>1, <1>2, <1>3, SMTT(30) DEF DeploymentTypeOK, HostInv, Bounds

-----------------------------------------------------------------------------
(***************************************************************************)
(* A commit module has under its variable what the signer has under its    *)
(* id, if one environment file brought both: the variable belongs to the   *)
(* last module with it, which is the module itself if the compose file is  *)
(* of the same run, or if no other id of the file has that variable.       *)
(***************************************************************************)
LastNamed(c, id) ==
  \E i \in CommitModules(c) :
    /\ ModulesOf(c)[i].id = id
    /\ \A j \in DOMAIN ModulesOf(c) : Lower[ModulesOf(c)[j].id] = Lower[id] => j <= i

LEMMA SecretOf ==
  ASSUME NEW c \in Configs, NEW g, NEW id \in DOMAIN Jwts(c, g),
         \/ \A o \in DOMAIN Jwts(c, g) \ {id} : Upper[o] # Upper[id]
         \/ LastNamed(c, id)
  PROVE  Upper[id] \in DOMAIN Vars(c, g) /\ Vars(c, g)[Upper[id]] = Jwts(c, g)[id]
<1> DEFINE C == CommitModules(c)
           ms == ModulesOf(c)
           v == Upper[id]
           a == LastIn(WithVar(c, v))
           b == LastIn(WithId(c, id))
<1>1. /\ DOMAIN Jwts(c, g) = {ms[i].id : i \in C} /\ DOMAIN Vars(c, g) = {Upper[ms[i].id] : i \in C}
  BY Zenon DEF Jwts, Vars
<1>2. v \in DOMAIN Vars(c, g)
  BY <1>1, Zenon
<1>3. /\ Vars(c, g)[v] = <<g, a>> /\ a \in WithVar(c, v) /\ \A j \in WithVar(c, v) : j <= a
  BY <1>2, VarsAre, Zenon
<1>4. /\ Jwts(c, g)[id] = <<g, b>> /\ b \in WithId(c, id) /\ \A j \in WithId(c, id) : j <= b
  BY JwtsAre, Zenon
<1>5. /\ C \in SUBSET Nat /\ C \in SUBSET DOMAIN ms
      /\ \A i \in DOMAIN ms : ms[i].id \in DOMAIN Lower
  BY ModulesType
<1> HIDE DEF C, ms, v, a, b
<1>6. WithVar(c, v) = {i \in C : Upper[ms[i].id] = v} /\ WithId(c, id) = {i \in C : ms[i].id = id}
  BY DEF WithVar, WithId, C, ms
<1>7. b \in WithVar(c, v)
  BY <1>4, <1>6, Zenon DEF v
<1>8. a \in WithId(c, id)
  <2>1. CASE \A o \in DOMAIN Jwts(c, g) \ {id} : Upper[o] # v
    BY <1>1, <1>3, <1>6, <2>1, Zenon
  <2>2. CASE \E i \in C : /\ ms[i].id = id
                          /\ \A j \in DOMAIN ms : Lower[ms[j].id] = Lower[id] => j <= i
    <3>1. PICK i \in C : /\ ms[i].id = id
                         /\ \A j \in DOMAIN ms : Lower[ms[j].id] = Lower[id] => j <= i
      BY <2>2, Zenon
    <3>2. i \in WithVar(c, v) /\ i <= a
      BY <1>3, <1>6, <3>1, Zenon DEF v
    <3>3. Lower[ms[a].id] = Lower[id]
      BY <1>3, <1>5, <1>6, <3>1, NameAssumption, Zenon DEF v
    <3>4. a <= i /\ a \in Nat /\ i \in Nat
      BY <1>3, <1>5, <1>6, <3>1, <3>3, Zenon
    <3>5. a = i
      BY <3>2, <3>4
    <3> QED
      BY <1>6, <3>1, <3>5, Zenon
  <2> QED
    BY <2>1, <2>2, Zenon DEF v, C, ms, LastNamed
<1>9. a = b
  <2>1. a <= b /\ b <= a /\ a \in Nat /\ b \in Nat
    BY <1>3, <1>4, <1>5, <1>6, <1>7, <1>8, Zenon
  <2> QED
    BY <2>1, SMTT(30)
<1> QED
  BY <1>2, <1>3, <1>4, <1>9 DEF v

\* Two variables of environment files hold secrets of their own.
LEMMA SecretsDiffer ==
  ASSUME NEW c \in Configs, NEW d \in Configs, NEW K, NEW g, NEW h, c = K[g], d = K[h],
         NEW v \in DOMAIN Vars(c, g), NEW w \in DOMAIN Vars(d, h), v # w
  PROVE  Vars(c, g)[v] # Vars(d, h)[w]
<1> DEFINE a == LastIn(WithVar(c, v))
           b == LastIn(WithVar(d, w))
<1>1. /\ Vars(c, g)[v] = <<g, a>> /\ a \in WithVar(c, v)
      /\ Vars(d, h)[w] = <<h, b>> /\ b \in WithVar(d, w)
  BY VarsAre, Zenon
<1> HIDE DEF a, b
<1>2. <<g, a>> # <<h, b>>
  <2> SUFFICES ASSUME g = h, a = b
               PROVE  FALSE
    OBVIOUS
  <2>1. a \in WithVar(c, v) /\ a \in WithVar(c, w)
    BY <1>1, Zenon
  <2> QED
    BY <2>1, Zenon DEF WithVar
<1> QED
  BY <1>1, <1>2, Zenon

LEMMA FileHas ==
  ASSUME NEW K, NEW file, NEW g, FileOk(K, file, g)
  PROVE  \/ DOMAIN file.vars = {} /\ DOMAIN file.jwts = {}
         \/ \E h \in 1..g : file = EnvFile(K[h], h) /\ file.vars = Vars(K[h], h)
                              /\ file.jwts = Jwts(K[h], h)
<1>1. CASE file = NoEnvFile
  BY <1>1 DEF NoEnvFile
<1>2. CASE \E h \in 1..g : NeedsSigner(K[h]) /\ file = EnvFile(K[h], h)
  <2>1. PICK h \in 1..g : NeedsSigner(K[h]) /\ file = EnvFile(K[h], h)
    BY <1>2, Zenon
  <2>2. EnvFile(K[h], h).vars = Vars(K[h], h) /\ EnvFile(K[h], h).jwts = Jwts(K[h], h)
    BY <2>1, Zenon DEF EnvFile
  <2> QED
    BY <2>1, <2>2, Zenon
<1> QED
  BY <1>1, <1>2, Zenon DEF FileOk

VarOf(file, v) == IF v \in DOMAIN file.vars THEN file.vars[v] ELSE Blank

LEMMA InterpolatedSecret ==
  ASSUME NEW s, NEW file
  PROVE  Interpolate(s, file).secret = VarOf(file, s.var)
  BY DEF Interpolate, VarOf

\* What a running commit module has loaded is its variable in the file.
CommitFacts(H, n, k) ==
  /\ NeedsSigner(k.origin.config)
  /\ n = Lower[k.service.id] /\ k.service.id \in DOMAIN Lower
  /\ k.service.var = Upper[k.service.id]
  /\ LastNamed(k.origin.config, k.service.id)
  /\ k.loaded = VarOf(H[k.origin.env], k.service.var)

LEMMA CommitLoaded ==
  ASSUME NEW K \in [Nat -> Configs], NEW H, NEW n, NEW k, NEW g \in Nat, NEW e,
         ContainerOk(K, H, n, k, g, e), k.state \in {"running", "healthy"},
         k.service.kind = "commit"
  PROVE  CommitFacts(H, n, k)
<1> DEFINE c == k.origin.config
           file == H[k.origin.env]
<1>1. c \in Configs /\ IsModuleService(c, n, k.service)
  BY ContainerService
<1> HIDE DEF c
<1>2. PICK i \in DOMAIN ModulesOf(c) :
        /\ k.service.kind = ModulesOf(c)[i].kind /\ k.service.id = ModulesOf(c)[i].id
        /\ n = Lower[k.service.id]
        /\ k.service.var = IF k.service.kind = "commit" THEN Upper[k.service.id] ELSE None
        /\ \A j \in DOMAIN ModulesOf(c) : Lower[ModulesOf(c)[j].id] = n => j <= i
  BY <1>1, Zenon DEF IsModuleService
<1>3. i \in CommitModules(c) /\ NeedsSigner(c)
  BY <1>2, Zenon DEF CommitModules, NeedsSigner
<1>4. k.service.id \in DOMAIN Lower
  BY <1>1, <1>2, ModulesType, Zenon
<1>5. k.loaded = k.env.secret /\ k.env = Interpolate(k.service, file)
  BY Zenon DEF ContainerOk, StateOk, LoadedOf
<1>6. k.env.secret = VarOf(file, k.service.var)
  BY <1>5, InterpolatedSecret, Zenon
<1>7. LastNamed(c, k.service.id)
  BY <1>2, <1>3, Zenon DEF LastNamed
<1> QED
  BY <1>2, <1>3, <1>4, <1>5, <1>6, <1>7, Zenon DEF c, CommitFacts

LEMMA RegistryHas ==
  ASSUME NEW c, NEW e, NEW id \in DOMAIN Registry(c, e)
  PROVE  /\ id \in {m.id : m \in Range(ModulesOf(c))}
         /\ Registry(c, e)[id].secret = e.jwts[id]
  BY DEF Registry

\* What a running signer has loaded for an id is in the list of the file.
SignerFacts(H, k, id) ==
  /\ k.env.jwts = H[k.origin.env].jwts /\ id \in DOMAIN H[k.origin.env].jwts
  /\ k.loaded[id].secret = H[k.origin.env].jwts[id]

LEMMA SignerLoaded ==
  ASSUME NEW K \in [Nat -> Configs], NEW H, NEW k, NEW g \in Nat, NEW e,
         ContainerOk(K, H, "signer", k, g, e), k.state \in {"running", "healthy"},
         NeedsSigner(k.origin.config), NEW id \in DOMAIN k.loaded
  PROVE  SignerFacts(H, k, id)
<1> DEFINE file == H[k.origin.env]
<1>1. k.service = SignerServiceOf(k.origin.config) /\ k.service.kind = "signer"
  BY ContainerService
<1>2. /\ SignerLoads(k.seen, k.service, k.env) /\ k.loaded = Registry(k.seen, k.env)
      /\ k.env = Interpolate(k.service, file)
  BY <1>1, Zenon DEF ContainerOk, StateOk, Loads, LoadedOf
<1>3. k.env.jwts = file.jwts
  <2>1. Interpolate(k.service, file).jwts = file.jwts
    BY <1>1, SMTT(30) DEF Interpolate
  <2> QED
    BY <1>2, <2>1, Zenon
<1>4. /\ id \in {m.id : m \in Range(ModulesOf(k.seen))}
      /\ k.loaded[id].secret = k.env.jwts[id]
  <2>1. id \in DOMAIN Registry(k.seen, k.env)
    BY <1>2, Zenon
  <2>2. /\ id \in {m.id : m \in Range(ModulesOf(k.seen))}
        /\ Registry(k.seen, k.env)[id].secret = k.env.jwts[id]
    BY <2>1, RegistryHas
  <2> QED
    BY <1>2, <2>2, Zenon
<1>5. PICK i \in DOMAIN ModulesOf(k.seen) : id = ModulesOf(k.seen)[i].id
  BY <1>4, Zenon DEF Range
<1>6. id \in DOMAIN k.env.jwts
  BY <1>2, <1>5, Zenon DEF SignerLoads, SigningConfigsLoad
<1> QED
  BY <1>3, <1>4, <1>6, Zenon DEF SignerFacts

LEMMA InvSecretsAgree == DeploymentInv => SecretsAgree
<1> SUFFICES ASSUME DeploymentInv
             PROVE  SecretsAgree
  OBVIOUS
<1>1. PICK K \in [Nat -> Configs], H \in [Nat -> EnvFiles] : HostInv(K, H) /\ ContainersInv(K, H)
  BY Zenon DEF DeploymentInv
<1>2. gen \in Nat
  BY <1>1, Zenon DEF HostInv
<1>3. \A n \in DOMAIN containers : ContainerOk(K, H, n, containers[n], gen, made.env)
  BY <1>1, Zenon DEF ContainersInv
<1>4. ASSUME NEW n, Up(n)
      PROVE  n \in DOMAIN containers /\ containers[n].state \in {"running", "healthy"}
  BY <1>4 DEF Up, State, Present
<1>5. ASSUME Up("signer"), NEW n \in Commits, NEW k, k = containers[n],
             NEW signer, signer = containers["signer"],
             k.origin = signer.origin, k.service.id \in DOMAIN signer.loaded,
             \/ k.origin.compose = k.origin.env
             \/ \A id \in DOMAIN signer.env.jwts \ {k.service.id} : Upper[id] # k.service.var
      PROVE  signer.loaded[k.service.id].secret = k.loaded
  <2> DEFINE o == k.origin
             id == k.service.id
             file == H[o.env]
  <2>1. /\ ContainerOk(K, H, n, k, gen, made.env) /\ k.state \in {"running", "healthy"}
        /\ k.service.kind = "commit"
        /\ ContainerOk(K, H, "signer", signer, gen, made.env)
        /\ signer.state \in {"running", "healthy"}
    BY <1>3, <1>4, <1>5, Zenon DEF Commits
  <2>2. /\ NeedsSigner(o.config) /\ k.service.var = Upper[id]
        /\ LastNamed(o.config, id) /\ k.loaded = VarOf(file, Upper[id])
    <3>1. CommitFacts(H, n, k)
      BY <1>2, <2>1, CommitLoaded
    <3> QED
      BY <3>1, Zenon DEF CommitFacts
  <2>3. /\ signer.env.jwts = file.jwts /\ id \in DOMAIN file.jwts
        /\ signer.loaded[id].secret = file.jwts[id]
    <3>1. NeedsSigner(signer.origin.config) /\ id \in DOMAIN signer.loaded
      BY <1>5, <2>2, Zenon
    <3>2. SignerFacts(H, signer, id)
      <4> HIDE DEF id
      <4> QED
        BY <1>2, <2>1, <3>1, SignerLoaded, SMTT(30)
    <3> QED
      BY <1>5, <3>2, Zenon DEF SignerFacts
  <2>4. /\ OriginOk(K, H, o, gen, made.env)
    BY <2>1, Zenon DEF ContainerOk
  <2>5. PICK h \in 1..gen : /\ file.vars = Vars(K[h], h) /\ file.jwts = Jwts(K[h], h)
                            /\ o.compose = o.env => K[h] = o.config
    <3>1. CASE o.compose = o.env
      <4>1. file = EnvFile(o.config, o.compose) /\ o.config = K[o.compose] /\ o.compose \in 1..gen
        BY <2>2, <2>4, <3>1, Zenon DEF OriginOk
      <4>2. file.vars = Vars(o.config, o.compose) /\ file.jwts = Jwts(o.config, o.compose)
        BY <2>2, <4>1 DEF EnvFile
      <4> QED
        BY <4>1, <4>2, Zenon
    <3>2. CASE o.compose # o.env
      BY <2>3, <2>4, <3>2, FileHas, Zenon DEF OriginOk
    <3> QED
      BY <3>1, <3>2, Zenon
  <2> HIDE DEF o, id, file
  <2>6. K[h] \in Configs
    BY <1>2
  <2>7. Upper[id] \in DOMAIN Vars(K[h], h) /\ Vars(K[h], h)[Upper[id]] = Jwts(K[h], h)[id]
    <3>1. CASE o.compose = o.env
      <4>1. LastNamed(K[h], id) /\ id \in DOMAIN Jwts(K[h], h)
        BY <2>2, <2>3, <2>5, <3>1, Zenon
      <4> QED
        BY <2>6, <4>1, SecretOf
    <3>2. CASE o.compose # o.env
      <4>1. \A d \in DOMAIN Jwts(K[h], h) \ {id} : Upper[d] # Upper[id]
        BY <1>5, <2>2, <2>3, <2>5, <3>2, ZenonT(30) DEF o, id
      <4> QED
        BY <2>3, <2>5, <2>6, <4>1, SecretOf
    <3> QED
      BY <3>1, <3>2, Zenon
  <2>8. signer.loaded[id].secret = k.loaded
    BY <2>2, <2>3, <2>5, <2>7, Zenon DEF VarOf
  <2> QED
    BY <2>8 DEF id
<1>6. ASSUME NEW n \in Commits, NEW o \in Commits, n # o, NEW k, k = containers[n],
             NEW l, l = containers[o], k.loaded = l.loaded, k.loaded # Blank
      PROVE  FALSE
  <2> DEFINE f == H[k.origin.env]
             d == H[l.origin.env]
             v == k.service.var
             w == l.service.var
  <2>1. /\ ContainerOk(K, H, n, k, gen, made.env) /\ k.state \in {"running", "healthy"}
        /\ k.service.kind = "commit"
        /\ ContainerOk(K, H, o, l, gen, made.env) /\ l.state \in {"running", "healthy"}
        /\ l.service.kind = "commit"
    BY <1>3, <1>4, <1>6, Zenon DEF Commits
  <2>2. /\ n = Lower[k.service.id] /\ k.service.id \in DOMAIN Lower /\ v = Upper[k.service.id]
        /\ k.loaded = VarOf(f, v)
    <3>1. CommitFacts(H, n, k)
      BY <1>2, <2>1, CommitLoaded, ZenonT(30)
    <3> QED
      BY <3>1, Zenon DEF CommitFacts
  <2>3. /\ o = Lower[l.service.id] /\ l.service.id \in DOMAIN Lower /\ w = Upper[l.service.id]
        /\ l.loaded = VarOf(d, w)
    <3>1. CommitFacts(H, o, l)
      BY <1>2, <2>1, CommitLoaded, ZenonT(30)
    <3> QED
      BY <3>1, Zenon DEF CommitFacts
  <2>4. FileOk(K, f, gen) /\ FileOk(K, d, gen)
    BY <2>1, Zenon DEF ContainerOk, OriginOk
  <2> HIDE DEF f, d, v, w
  <2>5. v # w
    BY <1>6, <2>2, <2>3, NameAssumption, Zenon
  <2>6. v \in DOMAIN f.vars /\ w \in DOMAIN d.vars /\ f.vars[v] = d.vars[w]
    BY <1>6, <2>2, <2>3, Zenon DEF VarOf
  <2>7. PICK h \in 1..gen : f.vars = Vars(K[h], h)
    BY <2>4, <2>6, FileHas, ZenonT(30)
  <2>8. PICK i \in 1..gen : d.vars = Vars(K[i], i)
    BY <2>4, <2>6, FileHas, ZenonT(30)
  <2>9. K[h] \in Configs /\ K[i] \in Configs
    BY <1>2
  <2> QED
    BY <2>5, <2>6, <2>7, <2>8, <2>9, SecretsDiffer, ZenonT(60)
<1> QED
  <2>1. ASSUME Up("signer"), NEW n \in Commits
        PROVE  LET k == containers[n]
                   signer == containers["signer"]
               IN  (/\ k.origin = signer.origin /\ k.service.id \in DOMAIN signer.loaded
                    /\ \/ k.origin.compose = k.origin.env
                       \/ \A id \in DOMAIN signer.env.jwts \ {k.service.id} : Upper[id] # k.service.var)
                     => signer.loaded[k.service.id].secret = k.loaded
    BY <1>5, <2>1
  <2> QED
    BY <1>6, <2>1, ZenonT(60) DEF SecretsAgree

\* What a consistent container loads, from the lemmas about complete runs.
LEMMA ConsistentLoads ==
  ASSUME NEW K \in [Nat -> Configs], NEW H, NEW n, NEW k, NEW g \in Nat, NEW e,
         ContainerOk(K, H, n, k, g, e), Consistent(k), ServiceFits(k.service.kind, k.seen)
  PROVE  Loads(k.seen, k.service, k.env)
<1> DEFINE c == k.seen
           s == k.service
           h == k.origin.compose
<1>1. /\ c = k.origin.config /\ h = k.origin.env
      /\ NeedsSigner(c) => H[k.origin.env] = EnvFile(c, h)
      /\ k.env = Interpolate(s, H[k.origin.env])
  BY Zenon DEF Consistent, ContainerOk, OriginOk
<1>2. /\ c \in Configs /\ ~ InitFails(c)
      /\ \/ n = "pbs" /\ s = PbsService(c) /\ s.kind = "pbs"
         \/ n = "signer" /\ NeedsSigner(c) /\ s = SignerServiceOf(c) /\ s.kind = "signer"
         \/ n # "pbs" /\ IsModuleService(c, n, s) /\ s.kind \in {"commit", "events"}
  BY <1>1, ContainerService
<1>3. CASE n = "signer" /\ NeedsSigner(c) /\ s = SignerServiceOf(c) /\ s.kind = "signer"
  <2>1. k.env = SignerEnv(c, h)
    BY <1>1, <1>3, Zenon DEF SignerEnv
  <2>2. Loads(c, s, k.env) <=> /\ SignerLoads(c, SignerServiceOf(c), SignerEnv(c, h))
                               /\ ModulesOf(c) # <<>>
    BY <1>3, <2>1, Zenon DEF Loads
  <2>3. LocalSignerFits(c)
    BY <1>3, Zenon DEF ServiceFits
  <2> HIDE DEF c, s, h
  <2>4. Loads(c, s, k.env)
    BY <1>2, <1>3, <2>2, <2>3, SignerIf, Zenon
  <2> QED
    BY <2>4, Zenon DEF c, s
<1>4. CASE n = "pbs" /\ s = PbsService(c) /\ s.kind = "pbs"
  <2>1. Loads(c, s, k.env) <=> PbsLoads(c, PbsService(c))
    BY <1>4 DEF Loads
  <2>2. PbsFits(c)
    BY <1>4 DEF ServiceFits
  <2>3. c.valid
    BY <1>2, Zenon DEF InitFails
  <2> HIDE DEF c, s, h
  <2>4. Loads(c, s, k.env)
    BY <1>2, <2>1, <2>2, <2>3, PbsIf, Zenon
  <2> QED
    BY <2>4, Zenon DEF c, s
<1>5. CASE n # "pbs" /\ IsModuleService(c, n, s) /\ s.kind \in {"commit", "events"}
  <2>1. Loads(c, s, k.env) <=> ModuleLoads(c, s)
    BY <1>5 DEF Loads
  <2>2. c.chain = "known"
    BY <1>5 DEF ServiceFits
  <2> HIDE DEF c, s, h
  <2>3. ModuleWith(c, s.id) # {}
    BY <1>5, Zenon DEF IsModuleService, ModuleWith
  <2>4. Loads(c, s, k.env)
    BY <2>1, <2>2, <2>3, Zenon DEF ModuleLoads
  <2> QED
    BY <2>4, Zenon DEF c, s
<1> QED
  BY <1>2, <1>3, <1>4, <1>5, Zenon

\* What PBS has loaded for a mux, whichever configuration it read.
LEMMA PbsLoaded ==
  ASSUME NEW K \in [Nat -> Configs], NEW H, NEW n, NEW k, NEW g \in Nat, NEW e,
         ContainerOk(K, H, n, k, g, e), n = "pbs", k.state \in {"running", "healthy"}
  PROVE  MuxesOfInit(k)
<1> SUFFICES ASSUME NEW i \in DOMAIN k.seen.muxes
             PROVE  \E j \in DOMAIN k.origin.config.muxes :
                      /\ k.origin.config.muxes[j].id = k.seen.muxes[i].id
                      /\ k.origin.config.muxes[j].file = k.loaded[k.seen.muxes[i].id]
  BY Zenon DEF MuxesOfInit
<1> DEFINE c == k.origin.config
           id == k.seen.muxes[i].id
<1>1. c \in Configs /\ k.service = PbsService(c) /\ k.service.kind = "pbs"
  BY ContainerService, Zenon
<1>2. Loads(k.seen, k.service, k.env) /\ k.loaded = LoadedOf(k.seen, k.service, k.env)
  BY Zenon DEF ContainerOk, StateOk
<1>3. /\ MuxIds(k.seen) \subseteq DOMAIN PbsService(c).paths
      /\ k.loaded = [x \in MuxIds(k.seen) |-> MuxFile(PbsService(c), x)]
  BY <1>1, <1>2 DEF Loads, LoadedOf, PbsLoads, MuxFilesLoad
<1>4. id \in MuxIds(k.seen)
  BY DEF MuxIds, Range
<1>5. id \in MuxIds(c) /\ k.loaded[id] = MuxFile(PbsService(c), id)
  BY <1>1, <1>3, <1>4, MuxesAre, Zenon
<1> HIDE DEF c, id
<1>6. PICK j \in DOMAIN c.muxes :
        c.muxes[j].id = id /\ c.muxes[j].file = MuxFile(PbsService(c), id)
  BY <1>1, <1>5, MuxFileOf, Zenon
<1>7. j \in DOMAIN c.muxes /\ c.muxes[j].id = id /\ c.muxes[j].file = k.loaded[id]
  BY <1>5, <1>6, Zenon
<1> QED
  BY <1>7, Zenon DEF c, id

LEMMA InvFittingLoads == DeploymentInv => FittingLoads
<1> SUFFICES ASSUME DeploymentInv
             PROVE  FittingLoads
  OBVIOUS
<1>1. PICK K \in [Nat -> Configs], H \in [Nat -> EnvFiles] : HostInv(K, H) /\ ContainersInv(K, H)
  BY Zenon DEF DeploymentInv
<1>2. ASSUME NEW n \in DOMAIN containers, NEW k, k = containers[n]
      PROVE  /\ (Consistent(k) /\ ServiceFits(k.service.kind, k.seen)) => k.cause \notin {"config", "empty"}
             /\ (n = "pbs" /\ Up(n)) => MuxesOfInit(k)
  <2>1. ContainerOk(K, H, n, k, gen, made.env) /\ gen \in Nat
    BY <1>1, <1>2, Zenon DEF ContainersInv, HostInv
  <2>2. /\ Up(n) => k.state \in {"running", "healthy"}
        /\ k.cause \in {"config", "empty"} => ~ Loads(k.seen, k.service, k.env)
    BY <1>2, <2>1, Zenon DEF ContainerOk, StateOk, Up, State, Present
  <2>3. ASSUME Consistent(k), ServiceFits(k.service.kind, k.seen)
        PROVE  Loads(k.seen, k.service, k.env)
    BY <2>1, <2>3, ConsistentLoads, Zenon
  <2>4. ASSUME n = "pbs", Up(n)
        PROVE  MuxesOfInit(k)
    BY <2>1, <2>2, <2>4, PbsLoaded, Zenon
  <2> QED
    BY <2>2, <2>3, <2>4, Zenon
<1> QED
  BY <1>2, Zenon DEF FittingLoads

(***************************************************************************)
(* The files of handle_docker_init and the containers made from them keep  *)
(* their types: the compose file exists once init has run, its services    *)
(* have the names of the modules or of the two services, and the           *)
(* environment file is never newer than the compose file.                  *)
(***************************************************************************)
THEOREM DeploymentTypeCorrect == DeploymentSpec => []DeploymentTypeOK
<1>1. DeploymentInit => Bounds
  BY DeploymentAssumption DEF DeploymentInit, Bounds, IsOrigin
<1>2. Bounds /\ [DeploymentNext]_deploymentVars => Bounds'
  BY BoundsNext, SMTT(30)
<1>3. DeploymentInv /\ Bounds => DeploymentTypeOK
  BY InvTypeOK
<1> QED
  BY <1>1, <1>2, <1>3, DeploymentInvariance, PTL DEF DeploymentSpec

(***************************************************************************)
(* Whatever is edited, crashes or is set up again in between, a commit     *)
(* module and the signer that one up brought agree about its secret, and   *)
(* no two modules share one (handle_docker_init, load_jwt_secrets).        *)
(***************************************************************************)
THEOREM DeploymentSecretsAgree == DeploymentSpec => []SecretsAgree
<1>1. DeploymentSpec => []DeploymentInv
  BY DeploymentInvariance
<1>2. DeploymentInv => SecretsAgree
  BY InvSecretsAgree
<1> QED
  BY <1>1, <1>2, PTL

(***************************************************************************)
(* Whatever the configurations are, a service does not refuse one that     *)
(* fits when it reads what init made of it, and PBS has for every mux a    *)
(* file that the configuration of its init names for it, even if it reads  *)
(* an edited one (handle_docker_init, StartSignerConfig::load_from_env,    *)
(* load_pbs_config, load_commit_module_config).                            *)
(***************************************************************************)
THEOREM DeploymentFittingLoads == DeploymentSpec => []FittingLoads
<1>1. DeploymentSpec => []DeploymentInv
  BY DeploymentInvariance
<1>2. DeploymentInv => FittingLoads
  BY InvFittingLoads
<1> QED
  BY <1>1, <1>2, PTL
=============================================================================
