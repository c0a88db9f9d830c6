# Commit-Boost in TLA+

TLA+ models of Commit-Boost (the Rust sources under `src/`), model-checked with TLC and
proved with TLAPS: all but one of the safety properties that the runs check are theorems.
`PROJECT.json` maps every definition to the lines it models and lists runs, mutants,
hazards, findings and theorems.

## The system

Commit-Boost runs beside a validator's beacon node as two services.

* The **PBS module** (`crates/pbs`) is a proxy between the beacon node and the relays.
  `get_header` asks all relays for bids and returns the best one, `submit_block` sends
  the signed blinded block to all relays and returns the first valid payload,
  `register_validator` forwards registrations, `reload` replaces the configuration. A
  *mux* assigns groups of validators their own relays and timeouts.
* The **signer module** (`crates/signer`) signs for *commit modules*. A module
  authenticates with a JWT and asks for signatures with consensus or proxy keys, for new
  proxy keys, or for a list of keys; an administrator revokes modules and reloads. Keys
  live in a *local manager*, backed by a proxy store on disk, or in *Dirk*, a set of
  remote threshold signers.
* `crates/common` holds configuration, key loaders, stores, JWTs, signing domains and
  the client that modules use. `crates/cli` has one command, `init`, which turns a
  configuration file into a docker compose file and an environment file;
  `crates/metrics` serves metrics.

The models follow this division. Interaction is modelled where it happens: the retry
loop inside the calls, configuration loading inside the PBS state, account merging
inside the Dirk manager, key loading inside the local signer, the check of tokens beside
the client that makes them. `Deployment` composes the whole: what `init` writes, what
docker makes of it, and what PBS, signer and modules each load when they start.

## Modules

| Module | Models | State and actions |
| --- | --- | --- |
| `RetryLoop` | the loop of `submit_block_with_timeout` and `send_register_validator_with_timeout`, `PbsError::should_retry` | a task record: attempt, back-off, time left, time elapsed in this iteration |
| `RegisterValidator` | one `register_validator` call | a task per relay and batch; relay answers, timeouts, wake-ups, the answer by `join_all` or by `select_ok` |
| `SubmitBlock` | one `submit_block` call, V1 or V2 | a task per relay; bodies, errors, timeouts; answer, events |
| `HeaderValidation` | `validate_header_data`, `validate_signature`, `check_gas_limit`, `extra_validation` | operators |
| `GetHeader` | one `get_header` call | parent-block fetch, per-relay schedule and requests, bids, answer |
| `Auction` | what `get_header` promises | offers, outcome |
| `ConfigUtils` | `remove_duplicate_keys` | an operator on a list |
| `PbsConfig` | `load_pbs_config`, `validate_and_fill`, `mux_config_and_relays` | operators on a file and the loaders' answers |
| `PbsState` | the shared `PbsState`, its snapshots and reloads | edits, two-step reloads, `get_header` and the `submit_block` after it |
| `SignerService` | `crates/signer/src/service.rs` | registry, admin secret, failures per client, RwLock queue, one action per access to shared state |
| `MuxLoader` | `MuxKeysLoader::load` for remote sources, `read_chunked_body_with_max` | a load page by page, the body being read, and a list of keys that changes meanwhile |
| `MuxKeys` | the end of `load`: duplicates are removed | an operator on a load |
| `SignerClient` | `SignerClient` of commit modules, with the signer's check of the token | clock, clients with their tokens, requests under way, recorded failures |
| `SignerLoader` | `SignerLoader::load_keys` and the six layouts of keys | operators on a source |
| `ProxyKeys` | the modules and proxy keys that both managers work with | constants |
| `LocalSigner` | local manager and proxy store | memory, files (absent, torn, full), creation step by step, crash, restart |
| `DirkAccounts` | account merging, Lagrange interpolation | operators |
| `DirkManager` | signing and proxy creation with Dirk | start-up host by host, partial signatures, the steps of `generate_proxy_key`, restart |
| `DockerInit` | `handle_docker_init` | operators from a configuration to the two files |
| `Deployment` | the life of a deployment: edits, `init`, docker, the start of every service | the files on the host, and a container per service |
| `GetHeader_proofs` | | theorems about `GetHeader` |
| `PbsService_proofs` | | theorems about `PbsState` and `RegisterValidator` |
| `Timing_proofs` | | theorems about `SubmitBlock` and `SignerClient` |
| `SignerService_proofs`, `LocalSigner_proofs`, `DirkManager_proofs`, `MuxLoader_proofs`, `Deployment_proofs` | | theorems about the module of that name, and about the operators it uses |
| `MC*` | | values of the constants |

Conventions. A step of a model is what the code does between two points where another
task can run (an `await`, or taking a lock). Time is discrete; a timer that is due fires
before time goes on, so a timeout is exact up to one unit, and the clock of a call stops
at its last timer. Bodies, headers, keys and secrets are members of small sets that
differ only in what the code compares. Logging, metrics and wording are left out.
Operators next to a definition with a telling suffix (`ChunksDropLast`, `AcquireUnfair`)
are plausible mistakes; each property is shown to be violated when one of them replaces
the definition (`mutants` in `PROJECT.json`). Names that two modules proved about
together would share carry a prefix: `RegisterSpec`, `ClientSpec`, `DirkSpec`,
`DeploymentSpec` and what belongs to them are the `Spec` of their modules.

### PBS calls

`RetryLoop.Task` keeps the variables of the Rust loop. `elapsed` restarts at every
iteration, because `start_request` does, and `WakeUp` computes the time left from it.
`select_ok` differs between callers: in `submit_block` it runs over the futures
themselves, so an error only removes its relay (`SelectErr`); in `register_validator` it
runs over `JoinHandle`s, so the first finished task decides (`RespondFirst`), and with
no handle it panics (`RespondPanic`).

`GetHeader` has one sequence of requests per relay. `SendRequest` is one turn of the
loop of `send_timed_get_header`, `ReceiveHeader` the rest of `send_one_get_header`,
which reads the parent block when the header arrives: `fetch` may be pending, found or
missing at that time. `JoinRequests` takes the header asked for last, `Respond` the most
valuable (the last among equals).

### PBS state

A reload reads the file (`BeginReload`), awaits the loaders, and then checks and writes
(`EndReload`). A request clones the state when it comes; `calls[v]` carries what a
validator's `get_header` found to the `submit_block` after it. `edits` numbers the
contents of the file.

### Signer service

`Arrive`, `Authenticate`, `RecordFailure` are three critical sections of `jwt_auth`.
`BeginHandler` reads the registry again for signature requests, queues for the manager,
`Acquire` follows tokio's first-come-first-served RwLock, and `Perform` is the work
under the lock. `ReloadConfig`, `ReloadJwts`, `ReloadAdmin`, `ReloadManager` are the
steps of `handle_reload`; the last one assigns to a clone of the state, so `manager`
does not change. Two things are recorded for the properties only: `revoked`, the modules
whose revocation was answered since the last reload, and in a request, whether its
module was one of them at its last lookup.

### Managers

`SignerLoader` says which keys each layout yields: directory layouts skip what does not
open, a single file loads as a whole or fails. `LocalSigner` writes the files of a proxy
in the order of `store_proxy_bls` and `store_erc2335_key`, each in two steps (create,
write), so that a crash or an error leaves absent, torn or full files; `Restart` loads
what it finds. Creation is one at a time since its caller holds the write lock.
`granted` and `recent` record, for the properties, the delegations that were answered,
ever and since the last start.

In `DirkManager` a signature is its scalar in the field of order `P`, so that Lagrange
interpolation is really computed. Participant ids are cut to 32 bits (`AsU32`, with
`IdSpan` for 2^32) after they are compared with 0, as in the code. A participant answers
with its share, with bytes that are no group element (`PartialGarbled`, found only when
the partials are combined), with an error, or, if its host is one of `Silent`, possibly
never. Dirk's own behaviour is external: that an answer which decodes is the
participant's share at the id it listed, that a locked account does not sign, that a
name is generated once.

### Mux keys

A load is a sequence of requests: the Lido loader reads the number of keys and then
batches of it, the SSV loader pages until one is not full. Between two requests keys may
be added (at the end) or removed; Lido's registry moves its last key into the gap, the
SSV list closes it. The body of an HTTP answer arrives in chunks of any size, and the
size limit is checked before each is appended. Registry and API are external.

### Commit modules

A `SignerClient` takes a token when it is made and a new one when `last_jwt_refresh` is
longer ago than the token lives; nothing updates `last_jwt_refresh` afterwards
(`RefreshJwt`). Tokens count whole seconds, the clock of the model counts parts of them.
A request may be slow, be lost, or reach the signer after the client has given up.
`Deliver` is `jwt_auth` as one step, for tokens with the right secret; `SignerService`
has its separate critical sections and wrong secrets.

### Deployment

`DockerInit` keeps of a service what differs between services: ports, the variable with its
secret, the mounted chain spec, the addresses for events, the mux files. The loops over
modules and muxes insert into maps; `ModuleServices`, `Vars`, `Jwts` and the mounts of
`PbsService` say what they leave: under each name the entry of the last one with it.
`WriteCompose` and `WriteEnv` are the two writes of `init`, with a possible end between
them. `ComposeUp` recreates the containers whose definition or environment changed and those
that stopped. `StartSigner`, `StartPbs` and `StartModule` read the configuration file as it
is at that time, and the environment of the container, and either run or exit with a cause.
Signer and PBS read it with another type than `init` (`FileLoads`): a file without
`[[relays]]` passes `init` and is refused by both. A commit module starts after the signer
is healthy, an event module after PBS runs. Docker and the operator are external.

## Runs

The runs check what could go wrong; `TypeOK` of a module documents the types of its
variables. It is proved for all state machines but two: of `MuxLoader` the part without
the bounds on edits is (`Types`), and of `DirkManager` what its proofs need (`DirkInv`).
TLC checks them when `INVARIANT TypeOK` (`DirkTypeOK`) is added to the cfg.

| Run | Instance | Shows |
| --- | --- | --- |
| `register_validator` | 2 relays; batches of 2 for one relay, of 3 for both, none, or a batch size of 0; 0 or 3 registrations; `wait_all_registrations` on and off; limit 3, timeout 7, back-off 2 | `ChunksPartition`, `AttemptsBounded`, `WaitAllAnswer`, and `EverythingFinishes` for background tasks too, also after a panic |
| `submit_block` | 2 relays, V1 and V2, 12 bodies, 5 errors, timeout 7, back-off 2 | `DeliveredMatchesBlock`, `MissedOnlyIfAllFailed`, `AttemptsInTime`, `Answered` |
| `get_header` | 2 relays, one with first request at 5 and period 1; timeout 4, late at 7; calls at 0, 2, 3, 4, 7; 10 headers | `BestBid`, `CheckedAgainstParent`, `AnswerInTime`, `EventuallyAnswered`, refinement of `Auction` (`ImplementsAuction`) |
| `pbs_state` | 6 files, 3 of them to be refused; 6 loader answers or a failure; 2 reloads, 2 validators, 2 edits | `RunningConfigSound`, `MuxSeparation`, `PayloadRelayAsked` |
| `mux_loader` | 6 lists of up to 5 keys, pages and batches of 2, bodies of at most 4, 2 changes during a load, a chain that all support and one that only Lido does | `SnapshotUnlessRemoved`, `MissedAtMostRemovals`, `LidoShrinkingDetected`, `RefusedForCause`, `LoadEnds` |
| `signer_client` | 2 clients, seconds of 2 ticks, life 2 s, leeway 1 s, request timeout 3 ticks, limit 2, 10 ticks | `ExpiredOnlyIfLate`, `RefusedAtMostOnce`, `LockedOutOnlyByLate` |
| `deployment` | 11 configurations, 1 edit, 2 runs of `init`, 2 crashes | `SecretsAgree`, `FittingLoads`, `ComesUp` |
| `signer_service` | 2 modules, a token of one, 2 requests (signatures, new proxies, listings), 1 admin request at a time, reloads with and without secrets; limit 1, timeout 1 | `OwnSigningId`, `RevokedGetsNothing`, `FailuresBounded`, `BlockEnds`, `RequestsAnswered` |
| `local_signer` | 2 modules, 2 keys of which one may vanish or be damaged, in 6 layouts; 3 proxies, no store and both stores | `GrantedSurvive`, `OnlyTornKeysBlock`, `ListedRightly` |
| `dirk_manager` | 3 hosts, one of them silent, threshold 2, 4 accounts, ids that fit (below 4) and ids that do not, 1 proxy, field of order 7 | `SignatureIsMaster`, `ToleratesFailures`, `ParticipantsGenuine`, `ProxyReady`, `HeldUpOnlyBySilence` |

The largest are `local_signer` (389,214 distinct states), `signer_service` (289,480) and
`deployment` (126,577).

Two runs are expected to end in a counterexample; `findings` in `PROJECT.json` quotes what
they contradict.

* `signer_reload` states what the docs say of a reload without `jwt_secrets`
  (`ReloadAsRestart`): afterwards the signer is as after a restart. A module is revoked,
  the keys change, a reload answers 200; the module is still out, since the registry is
  left alone, and the manager has the old keys, since it was assigned to a clone of the
  state.
* `deployment_dirk` states what the docs imply of a signer with Dirk
  (`DocumentedSignerLoads`): what is enough for a signer with local keys is enough for
  it. `init` gives its service no admin secret, which `load_jwt_secrets` requires, and
  the signer exits.

### Observations

Other places where the code differs from what its docs or comments say, or from what one
may expect, were met while modelling. The models contain these behaviours, and the
properties are stated so that they account for them.

In the PBS module:

* Without `wait_all_registrations`, the first finished task decides the answer of
  `register_validator` even if it failed and another relay takes the registrations:
  `select_ok` (`register_validator.rs:74`) sees `JoinHandle`s. The doc comment (line 22)
  says "Returns 200 if at least one relay returns 200, else 503".
* `submit_block` begins attempts after its timeout has passed, since the time left is
  counted per iteration (`submit_block.rs:93`). The doc comment (lines 59-60) says
  "retry connection errors until the given timeout has passed". `AttemptsInTime` states
  the bound that does hold.
* Of two concurrent reloads, the one that read the older file may write last.
* A `target_first_request_ms` beyond the deadline keeps a `get_header` call waiting for
  it; `AnswerInTime` names this exception.
* A `frequency_get_header_ms` of 0 is accepted, and the relay is then asked without end
  (`Endless`); `AnswerInTime` and `EventuallyAnswered` name this exception too.
* The SSV loader may accept a list that lacks a key if another is removed between two
  pages: keys slip to a page already read, and the count is that of the last page.
  `MissedAtMostRemovals` bounds what is missed.

In the signer:

* `jwt_auth_fail_limit = 0` limits a client after its first failure; the doc comment
  (`crates/common/src/config/signer.rs:74`) says that 0 turns the limit off.
  `FailuresBounded` accounts for it: 0 acts as 1.
* A reload that fails in `start_manager` has already replaced the secrets
  (`service.rs:438`); the docs (`docs/docs/get_started/configuration.md:450`) say that
  "the previous configuration will be kept".
* Revoked modules stay revoked, whatever is reloaded (`RevokedStaysOut`, which is
  proved); the run `signer_reload` shows the disagreement with the docs.
* A garbled partial signature that counts for the threshold fails the call, even if
  participants still to answer would make up for it; `ToleratesFailures` accounts for it.
* A participant id that is a multiple of 2^32 becomes 0, at which the interpolation
  takes its share for the whole signature; `ParticipantsGenuine` says that nothing else
  leads to a participant 0, and `SignatureIsMaster` is about ids that fit.

In a deployment. `FittingLoads` says that configurations that fit do load; these pass
`init` and do not, apart from the signer with Dirk:

* An event module beside a commit module keeps the signer from starting ("JWT secret for
  module … is missing"), and the commit modules wait for it. The docs have such a pair
  (`docs/docs/get_started/configuration.md:375-385`). As it is printed there the event
  module has no `signing_id`, which `StaticModuleConfig` requires of every module, so
  that already `init` does not read the file; the configurations of the model are files
  that it can read.
* A file without `[[relays]]` passes `init`, where a comment (`pbs.rs:232`) calls it
  valid, but keeps the signer from starting too: `HelperConfig` has no default for it.
* `with_signer` without commit modules leads to an empty list of secrets, which the
  signer cannot decode.
* Two modules with one signing id pass `init` and are refused by the signer.
* Two muxes with one id pass `init`, which mounts the file of the second for both, and
  PBS refuses the keys that come twice.
* Modules read a chain spec from the path on the host, not from the mounted one.

And further:

* With a remote signer and a commit module `init` panics (`InitFails`), though
  `[signer.remote]` is a documented option.
* Event modules do not get the `env` and `env_file` of their configuration.
* Ids that differ only in case share a service and a variable, of which the last module
  wins. If `init` is interrupted over an environment file with such ids, a module may
  have another secret than the signer (the exception in `SecretsAgree`).
* Metrics ports wrap at 2^16 and may equal a service's port; docker refuses the
  container then.

### Bounds

The relays' tasks meet only in the answer, so two of them show every race there. In
`get_header` the relay with timing games is asked more than once, so its answers can
overtake each other, and for some starts its first request lies beyond the timeout. With
timeout 7 and back-off step 2, up to three retries fit into the time (`retry * 2 < 7`),
so that in `register_validator` the retry limit of 3 binds first, and in `submit_block`
the time. Of the headers, four are good, two have a gas limit at the first refused value
above and below, and the others fail one check each. In `mux_loader` the lists have no,
one, one and a half, two and two and a half pages and straddle the size limit, and two
changes allow a removal to be masked by an addition. In `signer_service` one token is
enough, since `Authenticate` may refuse any request, and the other module is there to be
reloaded; with a limit of 1 two requests can overshoot it. In `signer_client` the request
timeout exceeds the leeway, as in the code, and ten ticks let a client be made, refused
and refreshed. `deployment` needs two runs of `init` for old secrets to meet new services, one
edit reaches every pair of configurations from any start, and two crashes let signer
and module restart at different times. Two overlapping reloads
are the shortest race; `MaxEdits` bounds the edits of the file. The failure counts of
the signer need no bound: the limit bounds them. With three proxies one can be granted,
one cut short and one in creation. Three hosts with threshold 2 leave one participant to
spare, and creations in Dirk do not overlap, so one proxy shows every step of them. The
relays of `get_header` repeat at a positive frequency, since the loop would send without
bound otherwise. Symmetry is used for proxies (`local_signer`) and for clients
(`signer_client`), in runs without liveness properties.

Deadlock is checked in all runs but `local_signer`: there the service may really stop,
since a torn key file prevents its restart.

### Fairness

Weak fairness is assumed of what the tokio runtime does by itself: time passes, due
timers fire, handlers that can go on do. Docker starts what can be started
(`DeploymentFairness`), and a request with a timeout ends in an answer or an error
(`MuxLoader.Spec`); edits, `init`, crashes and changes of a list owe nothing. Relays,
the execution client and callers owe nothing and may be silent forever. A call to Dirk
has no timeout in the code: `DirkFairness` lets those end that wait for a host which is
not `Silent`, and `HeldUpOnlyBySilence` says what the others hold up. One assumption
goes beyond the runtime: the work under the signer's lock ends (`SignerService.Fairness`),
as it does with a local manager.

## Proofs

Each theorem holds for all values of the constants that satisfy the module's named
assumption, which TLC evaluates on the instances it checks. TLC finds each
inductive invariant to hold on the instances of the runs, too, except `DeploymentInv`,
which quantifies over functions on the natural numbers. The step lemma (`NextInv`,
`RegisterNextInv`, ...) has one case per action.

Loops over data appear in the models as sets, as functions, or as recursive functions.
Facts about them are proved by minimal counterexample (`LeastElement`: the naturals are
well-founded), which is how the proofs do without induction: that a greatest element
exists, that a recursive function does, that no index is the first to break a property.

`GetHeader_proofs` holds for any number of relays, timing games, timeouts, start times and
headers (`GetHeaderAssumption`: the call has a positive timeout shorter than the lateness,
as the configuration checks; a frequency of 0, which it lets pass, is included). `RelayInv`
follows one relay: its requests are sent in order and within its window, a header kept in
a request passed validation, and a relay that is done has the header of the last request
sent among those that brought one. `AnswerInv` says that the answer is the maximum of the
bids, that all relays are done when it is given, and that a call goes on past its timeout
only for a relay that is to be asked later. `max_by_key` on start times and on values is a
`CHOOSE` of a last greatest element; that it exists is `LastOfGreatest`, proved by a
minimal counterexample. From the invariant follow `TypeCorrect`, `BestBidWins`,
`HeadersFitParent` and `AnsweredInTime`. `GetHeaderIsAuction` is the refinement of
`Auction`: a join is an offer or a stutter, the response closes the auction, and a call
that starts too late closes it at once; all other steps stutter.

The part of `Timing_proofs` about `SubmitBlock` holds for any non-empty set of relays, any
positive timeout and back-off step, any block, bodies and errors (`RetryAssumption`,
`SubmitAssumption`). `RetriesBounded` is not inductive: it needs to know how long a task
slept. `LoopInv` adds that the back-off is one step per retry and that a sleep lasts at
least the back-off; `AnswerInv` says that the call is given up, and reported as missed,
exactly when all tasks have failed, and `AttemptsInTime` is part of the invariant. Lemmas
show that each operation of `RetryLoop` preserves `LoopInv`, the step lemma has one case
per action, and from `Invariance` follow `TypeCorrect`, `RetriesAreBounded`,
`AttemptsAreInTime`, `MissedExactly` and `DeliversTheBlock`.

The part of `PbsService_proofs` about `RegisterValidator` holds for any finite set of
relays, batch sizes, numbers of registrations and retry limit (`RegisterAssumption`).
`EachRegistrationOnce` is arithmetic: registration *k* is in the chunk that begins at the
last multiple of the batch size below it (`ChunkStart`, `ChunkOfEach`), and in no other.
It needs `SpawnedInv`, that the tasks are exactly the chunks of the relays asked, and all
relays are asked unless one panics. `TaskOk` is inductive where `AttemptsBounded` is not:
it adds what a sleeping task has still to lose, and that the attempt after the sleep is
allowed. `AnswerInv` makes the answer of `join_all` come after all tasks. The theorems are
`RegisterTypeCorrect`, `EachRegistrationOnce`, `AttemptsAreBounded` and `WaitAllIsRight`.

The part about `PbsState` holds for any files, loader answers, validators and overlapping
reloads (`PbsAssumption`: relays and muxes of a file are lists). `StateInv` says that the
running state is what `load_pbs_config` makes of some file with answers that it accepts;
then `ConfigSound` and `MuxesSeparate` are facts about `PbsConfig`: a relay of a mux is
in `all_relays` (`RelayAtUrl`), once per URL (`OneRelayPerUrl`), and a key that passed
the check for duplicates is in one mux (`MuxOfKey`). `PayloadAsked` is about time: a call
remembers the version of the file that its header came from. Versions that can still be
installed are in the file, in a pending reload, or running, and equal versions have
equal content (`VersionsAgree`); so a call that meets its version again meets its relay
(`CallOk`).

`SignerService_proofs` assumes (`SignerAssumption`) that signing ids and the secrets of
the environment are distinct, that finitely many module requests are served at the same
time, and the types of the constants. Its inductive invariant adds to the type and to
`ManagerExclusive` and `OwnSigningId`:

* `RegistryIds`: a registered module has its own signing id;
* `RevokedOut`: a module revoked since the last reload is not registered;
* `ReqsOk`: a signature under way has the id of the module that asked, and no request
  got past a lookup for a revoked module;
* `QueueOk`: whoever is in the queue is waiting, and is there once;
* `AdminsOk`: the bodies that admin requests carry.

The bound on failures has an invariant of its own, `FailInv`: recorded failures, and the
requests that have passed the check and may still fail, together stay below the bound. The
theorems are `TypeCorrect`, `SignaturesAreOwn`, `RevokedAreRefused`, `RevocationIsFinal`,
`WritersAreAlone` and `FailuresAreBounded`.

`LocalSigner_proofs` holds for any modules, keys, proxies, key sources and crashes
(`StoreAssumption`). The properties speak about memory after a restart, so the invariant is
about the disk: files are written in the order of the code, those before the one at work are
complete and those after it absent (`DiskInv`), the creation under way has its proxy to
itself (`OpInv`), both maps of the manager agree with the paths of the proxies
(`MemoryInv`), a granted proxy has all its files (`GrantInv`), and one granted since the
last start is in memory (`RecentInv`). Hence what a restart loads includes all that was
granted (`CompleteIsLoaded`), and since the key file comes last (`KeyFileLast`), a file that
does not load is a torn key. `OwnProxiesListed` says that a module is shown its own proxies
and all of them: those granted since the last start, and with a store those granted before.

The part of `Timing_proofs` about `SignerClient` holds for any clients, durations and
bounds on clock and requests; it assumes (`ClientAssumption`) that building a client takes
no longer than the leeway and that a request times out within life and leeway of a token.
`ExpiredIsOld` turns the comparison of rounded seconds into ticks. The invariant needs two
facts that the properties do not mention: `last_jwt_refresh` is either the time the token
was finished or further in the past than a life (`HandlesOk`), so that every later request
has a fresh token; and a token is sent within its life, counted from the end of `new`
(`WireOk`). From these follow `RefusalsAreLate`, `RefusedOnce` and `LockOutsAreLate`.

`MuxLoader_proofs` holds for lists of any length and any batch, page and body size.
While no key is removed, the list only grows, what was read is a beginning of it of
length `offset`, and the body under way is a page of a version there was (`Grown`);
`Shape` ties the state of a load to its record. So the keys at the end are a beginning,
as long as some version, of a list that has this version as a beginning too:
`LoadsASnapshot`. The same invariant gives `RefusesForCause`. For `LidoDetectsShrinking`
a second one, `Shrinking`, follows a list from which keys are only removed: it is still
the one that was counted, or shorter than the count, and then the last batch falls
short. `MissesAtMostRemovals` has the invariant `MissedInv`: the keys that were there all
the time, have not been read, and stand at no place still to be read are no more than
the removals so far. A request moves keys from the places to be read to those read
(`ReadOn`); a removal moves one key at most over the place the load has come to, the one
that slips into the gap (`GapClosed`, for a list that closes up) or the last one
(`GapFilled`, for Lido's registry); an addition moves none. At the end no place is to be
read. `EachKeyOnce` is about `remove_duplicate_keys`: the result has the *n*-th of the
places where a key comes first, so each key once (`EveryRank`).

`DirkManager_proofs` holds for any hosts, lists of accounts, thresholds, modules and proxies
(`FieldAssumption`, `DirkAssumption`: hosts and accounts are lists, thresholds and ids any
natural numbers, ids that do not fit in 32 bits and thresholds of 0 included). `AccountsOk`
says of every account what `ParticipantsGenuine` says of the distributed ones; it is
preserved by each account that `load_distributed_accounts` adds, hence by the recursive
function over the list of a host (`LoadDistributedOk`). For `DirkToleratesFailures` a
signature accounts for every participant (`Covers`): it is still to answer, has failed, or
has given a partial signature, garbled or not, and of these there are fewer than the
threshold while the signature is not complete. For `DirkProxiesReady` the invariant `GenInv`
follows `generate_proxy_key` step by step: a proxy in creation is none in use, and has been
through the steps before its own; `DirkRestart` forgets the proxies, not what is on disk or
in Dirk.

`Deployment_proofs` holds for any configurations, edits, runs of `init` and crashes
(`NameAssumption`: ids that are equal in lower case are equal in upper case, and vice
versa, as for ASCII letters; `DeploymentAssumption`: modules and muxes are lists). The
containers are as old as the run of `init` they come from, so the invariant
`DeploymentInv` is about history: there are functions `K` and `H` that give the
configuration each run read and the environment file it left, and every container has
its definition from one run, its environment from one (`OriginOk`), and what it loaded
from both and the configuration it saw (`StateOk`). `WriteCompose` and `WriteEnv` extend
`K` and `H`; the others keep them. `DeploymentSecretsAgree` then compares two parts of
one environment file: the variable of a module and its entry in the signer's list have
the same secret, if the last module with that variable is the one meant (`SecretOf`).
`DeploymentFittingLoads` compares what `init` makes of a configuration that fits with
what the services require of it, for the signer (`SignerIf`) and for PBS (`PbsIf`); what
PBS finds at the path of a mux comes from the configuration of its `init`, whichever it
has read (`MuxFileOf`). `DeploymentTypeCorrect` adds that the counters keep to their bounds.

Only model-checked:

* all liveness properties (`EverythingFinishes`, `Answered`, `EventuallyAnswered`,
  `LoadEnds`, `ComesUp`, `BlockEnds`, `RequestsAnswered`, `HeldUpOnlyBySilence`): outside the
  prover's reach;
* `SignatureIsMaster` of `DirkManager`: that interpolation at any `threshold`
  participants yields the master signature is the uniqueness of polynomials over a
  prime field, with sums and products of any length and inverses modulo `P`, for which
  the provers have no theory. For the same reason the type of a combined signature
  (`DirkTypeOK`) is left to TLC.

## Not modelled

* Relay URLs, the posts of events, Builder API types, serialisation, and the bodies of
  requests to the signer: no state, and nothing waits for an event.
* `load_pbs_custom_config` and the examples: the library's hooks for other programs. A
  custom PBS module ignores `[[mux]]`, since its field has another name.
* Decryption and file formats of keystores: a keystore opens with a password or does
  not. Metrics: output. Dirk's gRPC bindings: generated.
* Of `init`: images, networks, log directories, the text it prints, and the variables
  whose value is the same for all configurations.
* Which of two definitions of one relay URL in two muxes survives in `all_relays`: left
  open in `PbsConfig.AllRelays`.
* Overflow, but for ports and participant ids: times and counts are far from the width
  of their types.
