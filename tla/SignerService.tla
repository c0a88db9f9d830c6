--------------------------- MODULE SignerService ---------------------------
(***************************************************************************)
(* The HTTP service of the signer (crates/signer/src/service.rs): modules  *)
(* authenticate with a JWT under a per-client limit on failures and then   *)
(* sign, list keys or create proxy keys; an administrator revokes modules  *)
(* and reloads secrets and keys.  Every request runs concurrently with the *)
(* others; each access to shared state is a step of its own.               *)
(***************************************************************************)
EXTENDS Integers, Sequences, FiniteSets

CONSTANTS
  Modules,        \* module ids of the configuration
  SigningId,      \* module -> its signing_id
  Secrets,        \* JWT secrets
  AdminSecrets,   \* admin secrets
  EnvSecret,      \* module -> the secret it has in the environment
  EnvAdmin,       \* the admin secret of the environment
  Keys,           \* consensus keys
  KeySets,        \* the sets of them that a reload may find on disk
  Clients,        \* IP addresses that requests come from
  Reqs,           \* module requests that may be served at the same time
  Admins,         \* admin requests that may be served at the same time
  Operations,     \* what modules ask for: a subset of OperationType
  Tokens,         \* tokens they present: a subset of TokenType
  ReloadRequests, \* bodies of /reload: a subset of ReloadType
  FailLimit,      \* jwt_auth_fail_limit
  FailTimeout,    \* jwt_auth_fail_timeout
  None            \* an absent optional value

TokenType == [module : Modules, secret : Secrets]

\* owner is the module a proxy key was made for (only for "proxy").
OperationType == [op : {"consensus", "proxy", "generate", "pubkeys"},
                  key : Keys, owner : Modules]

SecretMaps == UNION {[D -> Secrets] : D \in SUBSET Modules}

ReloadType ==
  [jwt_secrets : SecretMaps \cup {None}, admin_secret : AdminSecrets \cup {None}]

\* load_module_signing_configs refuses modules that share a signing id or a
\* secret.
ASSUME SignerAssumption ==
  /\ IsFiniteSet(Reqs)
  /\ \A m, n \in Modules : SigningId[m] = SigningId[n] => m = n
  /\ EnvSecret \in [Modules -> Secrets] /\ EnvAdmin \in AdminSecrets
  /\ \A m, n \in Modules : EnvSecret[m] = EnvSecret[n] => m = n
  /\ KeySets \subseteq SUBSET Keys
  /\ FailLimit \in Nat /\ FailTimeout \in Nat
  /\ Tokens \subseteq TokenType
  /\ Operations \subseteq OperationType
  /\ ReloadRequests \subseteq ReloadType

VARIABLES
  jwts,        \* module -> [secret, signing_id], for the registered modules
  adminSecret, \* the secret admin requests must present
  revoked,     \* modules whose revocation was answered since the last reload
  failures,    \* client -> [count, age] of its recorded JWT failures
  manager,     \* the shared SigningManager: [keys, proxies]
  queue,       \* requests waiting for the manager's RwLock, in order
  holders,     \* requests that hold it
  reqs,        \* module requests
  admins,      \* admin requests
  signatures   \* every signature handed out: [module, signing_id, op]

vars == <<jwts, adminSecret, revoked, failures, manager, queue, holders, reqs,
          admins, signatures>>

registry == <<jwts, adminSecret, revoked>>
lock == <<queue, holders>>

NoFailures == [count |-> 0, age |-> 0]
Greater(a, b) == IF a > b THEN a ELSE b

(***************************************************************************)
(* A slot of `reqs' or `admins' that is not in use, or keeps an answer.    *)
(***************************************************************************)
NoReq == [pc |-> "idle", client |-> None, token |-> None, what |-> None,
          signing_id |-> None, revoked |-> FALSE, ans |-> "none"]

NoAdmin == [pc |-> "idle", body |-> None, keys |-> {}, ans |-> "none"]

Answer(r, ans) == [reqs EXCEPT ![r] = [NoReq EXCEPT !.pc = "done", !.ans = ans,
                                                    !.revoked = reqs[r].revoked]]

Free(slot) == slot.pc \in {"idle", "done"}

EnvJwts == [m \in Modules |-> [secret |-> EnvSecret[m], signing_id |-> SigningId[m]]]

Init ==
  /\ jwts = EnvJwts /\ adminSecret = EnvAdmin /\ revoked = {}
  /\ failures = [c \in Clients |-> NoFailures]
  /\ manager = [keys |-> Keys, proxies |-> {}]
  /\ queue = <<>> /\ holders = {}
  /\ reqs = [r \in Reqs |-> NoReq]
  /\ admins = [a \in Admins |-> NoAdmin]
  /\ signatures = {}

-----------------------------------------------------------------------------
(***************************************************************************)
(* jwt_auth, first step: check_jwt_rate_limit, under the lock of the       *)
(* failures.  An entry older than the timeout is removed.                  *)
(***************************************************************************)
Expired(c) == failures[c].count > 0 /\ failures[c].age > FailTimeout

LimitedLate(c) == failures[c].count > 0 /\ ~ Expired(c) /\ failures[c].count > FailLimit

Limited(c) == failures[c].count > 0 /\ ~ Expired(c) /\ failures[c].count >= FailLimit

ArriveRefreshing(r, c, token, what) ==
  /\ Free(reqs[r])
  /\ reqs' = [reqs EXCEPT ![r] =
       IF Limited(c)
       THEN [NoReq EXCEPT !.pc = "done", !.ans = "rate_limited"]
       ELSE [NoReq EXCEPT !.pc = "checked", !.client = c, !.token = token, !.what = what]]
  /\ failures' = [failures EXCEPT ![c] = IF Expired(c) THEN NoFailures ELSE
                                         IF Limited(c) THEN [@ EXCEPT !.age = 0] ELSE @]
  /\ UNCHANGED <<registry, manager, lock, admins, signatures>>

Arrive(r, c, token, what) ==
  /\ Free(reqs[r])
  /\ reqs' = [reqs EXCEPT ![r] =
       IF Limited(c)
       THEN [NoReq EXCEPT !.pc = "done", !.ans = "rate_limited"]
       ELSE [NoReq EXCEPT !.pc = "checked", !.client = c, !.token = token, !.what = what]]
  /\ failures' = [failures EXCEPT ![c] = IF Expired(c) THEN NoFailures ELSE @]
  /\ UNCHANGED <<registry, manager, lock, admins, signatures>>

(***************************************************************************)
(* Second step: check_jwt_auth, under the lock of the registry.  A token   *)
(* with the right secret may still have expired.  The request notes if the *)
(* module was revoked when it was looked up last.                          *)
(***************************************************************************)
TokenOk(token) ==
  token.module \in DOMAIN jwts /\ jwts[token.module].secret = token.secret

Authenticate(r) ==
  /\ reqs[r].pc = "checked"
  /\ \/ /\ TokenOk(reqs[r].token)
        /\ reqs' = [reqs EXCEPT ![r].pc = "authed",
                                ![r].revoked = reqs[r].token.module \in revoked]
     \/ reqs' = [reqs EXCEPT ![r].pc = "unauthorized"]
  /\ UNCHANGED <<registry, failures, manager, lock, admins, signatures>>

\* Third step of a request that is refused: the failure is recorded.
RecordFailure(r) ==
  /\ reqs[r].pc = "unauthorized"
  /\ failures' = [failures EXCEPT ![reqs[r].client] = [count |-> @.count + 1, age |-> 0]]
  /\ reqs' = Answer(r, "unauthorized")
  /\ UNCHANGED <<registry, manager, lock, admins, signatures>>

Tick ==
  /\ \E c \in Clients : failures[c].count > 0 /\ failures[c].age <= FailTimeout
  /\ failures' = [c \in Clients |->
                    IF failures[c].count > 0 /\ failures[c].age <= FailTimeout
                    THEN [failures[c] EXCEPT !.age = @ + 1] ELSE failures[c]]
  /\ UNCHANGED <<registry, manager, lock, reqs, admins, signatures>>

-----------------------------------------------------------------------------
(***************************************************************************)
(* The handlers.  handle_request_signature looks the module up again       *)
(* before it waits for the manager; the other two do not.                  *)
(***************************************************************************)
Signs(what) == what.op \in {"consensus", "proxy"}

BeginUnchecked(r) ==
  /\ reqs[r].pc = "authed"
  /\ LET m == reqs[r].token.module
     IN  /\ reqs' = [reqs EXCEPT ![r].pc = "queued", ![r].signing_id =
                       IF Signs(reqs[r].what) THEN SigningId[m] ELSE None,
                     ![r].revoked = IF Signs(reqs[r].what) THEN m \in revoked ELSE @]
         /\ queue' = Append(queue, r) /\ UNCHANGED holders
  /\ UNCHANGED <<registry, failures, manager, admins, signatures>>

BeginHandler(r) ==
  /\ reqs[r].pc = "authed"
  /\ LET m == reqs[r].token.module
     IN  IF Signs(reqs[r].what) /\ m \notin DOMAIN jwts
         THEN reqs' = Answer(r, "request_error") /\ UNCHANGED lock
         ELSE /\ reqs' = [reqs EXCEPT ![r].pc = "queued", ![r].signing_id =
                            IF Signs(reqs[r].what) THEN jwts[m].signing_id ELSE None,
                              ![r].revoked = IF Signs(reqs[r].what) THEN m \in revoked ELSE @]
              /\ queue' = Append(queue, r) /\ UNCHANGED holders
  /\ UNCHANGED <<registry, failures, manager, admins, signatures>>

(***************************************************************************)
(* tokio's RwLock serves waiters in order; handle_generate_proxy writes,   *)
(* the other handlers read.                                                *)
(***************************************************************************)
Writes(r) == reqs[r].what.op = "generate"

AcquireUnfair(r) ==
  /\ r \in {queue[i] : i \in DOMAIN queue}
  /\ IF Writes(r) THEN holders = {} ELSE \A h \in holders : ~ Writes(h)
  /\ queue' = SelectSeq(queue, LAMBDA q : q # r) /\ holders' = holders \cup {r}
  /\ reqs' = [reqs EXCEPT ![r].pc = "holding"]
  /\ UNCHANGED <<registry, failures, manager, admins, signatures>>

Acquire(r) ==
  /\ queue # <<>> /\ Head(queue) = r
  /\ IF Writes(r) THEN holders = {} ELSE \A h \in holders : ~ Writes(h)
  /\ queue' = Tail(queue) /\ holders' = holders \cup {r}
  /\ reqs' = [reqs EXCEPT ![r].pc = "holding"]
  /\ UNCHANGED <<registry, failures, manager, admins, signatures>>

(***************************************************************************)
(* The manager carries the operation out and the lock is released.  It     *)
(* fails for unknown keys, and may fail in the store or in a remote signer.*)
(***************************************************************************)
Succeeds(r) ==
  LET what == reqs[r].what IN
  CASE what.op = "consensus" -> what.key \in manager.keys
    [] what.op = "proxy"     -> [owner |-> what.owner, key |-> what.key] \in manager.proxies
    [] what.op = "generate"  -> what.key \in manager.keys
    [] what.op = "pubkeys"   -> \A p \in manager.proxies :
                                  p.owner = reqs[r].token.module => p.key \in manager.keys

Signature(r) ==
  [module |-> reqs[r].token.module, signing_id |-> reqs[r].signing_id, what |-> reqs[r].what]

NewProxy(r) == [owner |-> reqs[r].token.module, key |-> reqs[r].what.key]

Perform(r) ==
  /\ reqs[r].pc = "holding"
  /\ \/ /\ Succeeds(r)
        /\ signatures' = IF Signs(reqs[r].what) THEN signatures \cup {Signature(r)}
                                                ELSE signatures
        /\ manager' = IF Writes(r) THEN [manager EXCEPT !.proxies = @ \cup {NewProxy(r)}]
                                   ELSE manager
        /\ reqs' = Answer(r, "ok")
     \/ reqs' = Answer(r, "failed") /\ UNCHANGED <<manager, signatures>>
  /\ holders' = holders \ {r} /\ UNCHANGED queue
  /\ UNCHANGED <<registry, failures, admins>>

-----------------------------------------------------------------------------
(***************************************************************************)
(* admin_auth, and the two admin requests.                                 *)
(***************************************************************************)
Revoke(m) == [revoke |-> m]
IsRevoke(body) == DOMAIN body = {"revoke"}

AdminArrive(a, secret, body) ==
  /\ Free(admins[a])
  /\ admins' = [admins EXCEPT ![a] =
       IF secret = adminSecret
       THEN [NoAdmin EXCEPT !.pc = "authed", !.body = body]
       ELSE [NoAdmin EXCEPT !.pc = "done", !.ans = "unauthorized"]]
  /\ UNCHANGED <<registry, failures, manager, lock, reqs, signatures>>

\* The slot keeps the request that was granted.
AdminAnswer(a, ans) ==
  [admins EXCEPT ![a] = [NoAdmin EXCEPT !.pc = "done", !.ans = ans,
     !.body = IF ans = "ok" THEN admins[a].body ELSE None]]

RevokeModule(a) ==
  /\ admins[a].pc = "authed" /\ IsRevoke(admins[a].body)
  /\ LET m == admins[a].body.revoke
     IN  /\ jwts' = [n \in DOMAIN jwts \ {m} |-> jwts[n]]
         /\ revoked' = IF m \in DOMAIN jwts THEN revoked \cup {m} ELSE revoked
         /\ admins' = AdminAnswer(a, IF m \in DOMAIN jwts THEN "ok" ELSE "not_found")
  /\ UNCHANGED <<adminSecret, failures, manager, lock, reqs, signatures>>

\* handle_reload: the configuration is loaded ...
ReloadConfig(a) ==
  /\ admins[a].pc = "authed" /\ ~ IsRevoke(admins[a].body)
  /\ \/ admins' = [admins EXCEPT ![a].pc = "loaded"]
     \/ admins' = AdminAnswer(a, "internal")
  /\ UNCHANGED <<registry, failures, manager, lock, reqs, signatures>>

(***************************************************************************)
(* ... the registry is replaced by the secrets of the request: each module *)
(* must be registered, and keeps its signing id ...                        *)
(***************************************************************************)
ReloadedFirstId(secrets) ==
  [m \in DOMAIN secrets |->
     [secret |-> secrets[m], signing_id |-> SigningId[CHOOSE n \in DOMAIN jwts : TRUE]]]

Reloaded(secrets) ==
  [m \in DOMAIN secrets |-> [secret |-> secrets[m], signing_id |-> jwts[m].signing_id]]

Reloadable(secrets) == DOMAIN secrets \subseteq DOMAIN jwts

ReloadJwts(a) ==
  /\ admins[a].pc = "loaded"
  /\ LET secrets == admins[a].body.jwt_secrets
     IN  IF secrets # None /\ ~ Reloadable(secrets)
         THEN admins' = AdminAnswer(a, "request_error") /\ UNCHANGED <<jwts, revoked>>
         ELSE /\ jwts' = IF secrets = None THEN jwts ELSE Reloaded(secrets)
              /\ revoked' = {}
              /\ admins' = [admins EXCEPT ![a].pc = "registered"]
  /\ UNCHANGED <<adminSecret, failures, manager, lock, reqs, signatures>>

\* ... then the admin secret ...
ReloadAdmin(a) ==
  /\ admins[a].pc = "registered"
  /\ adminSecret' = IF admins[a].body.admin_secret = None
                    THEN adminSecret ELSE admins[a].body.admin_secret
  /\ admins' = [admins EXCEPT ![a].pc = "starting"]
  /\ UNCHANGED <<jwts, revoked, failures, manager, lock, reqs, signatures>>

(***************************************************************************)
(* ... and a new manager is started with the keys found on disk, which may *)
(* fail.  It is assigned to the copy of the state that belongs to this     *)
(* request.                                                                *)
(***************************************************************************)
ReloadManager(a) ==
  /\ admins[a].pc = "starting"
  /\ \/ \E found \in KeySets :
          admins' = [AdminAnswer(a, "ok") EXCEPT ![a].keys = found]
     \/ admins' = AdminAnswer(a, "internal")
  /\ UNCHANGED <<registry, failures, manager, lock, reqs, signatures>>

Next ==
  \/ \E r \in Reqs :
       \/ \E c \in Clients, t \in Tokens, w \in Operations : Arrive(r, c, t, w)
       \/ Authenticate(r) \/ RecordFailure(r)
       \/ BeginHandler(r) \/ Acquire(r) \/ Perform(r)
  \/ Tick
  \/ \E a \in Admins :
       \/ \E s \in AdminSecrets, b \in ReloadRequests \cup {Revoke(m) : m \in Modules} :
            AdminArrive(a, s, b)
       \/ RevokeModule(a)
       \/ ReloadConfig(a) \/ ReloadJwts(a) \/ ReloadAdmin(a) \/ ReloadManager(a)

Spec == Init /\ [][Next]_vars

(***************************************************************************)
(* Handlers are polled to completion: the local manager computes, a remote *)
(* signer is assumed to answer or to break the connection.  Time passes.   *)
(* Nobody has to send a request.                                           *)
(***************************************************************************)
Fairness ==
  /\ WF_vars(Tick)
  /\ \A r \in Reqs :
       /\ WF_vars(Authenticate(r)) /\ WF_vars(RecordFailure(r))
       /\ WF_vars(BeginHandler(r)) /\ WF_vars(Acquire(r)) /\ WF_vars(Perform(r))

FairSpec == Spec /\ Fairness

-----------------------------------------------------------------------------
JwtConfig == [secret : Secrets, signing_id : {SigningId[m] : m \in Modules}]

ReqState == {"idle", "done", "checked", "unauthorized", "authed", "queued", "holding"}
ReqAnswer == {"none", "rate_limited", "unauthorized", "request_error", "ok", "failed"}

ReqType ==
  [pc : ReqState, client : Clients \cup {None}, token : Tokens \cup {None},
   what : Operations \cup {None}, revoked : BOOLEAN, ans : ReqAnswer,
   signing_id : {SigningId[m] : m \in Modules} \cup {None}]

TypeOK ==
  /\ jwts \in UNION {[D -> JwtConfig] : D \in SUBSET Modules}
  /\ adminSecret \in AdminSecrets /\ revoked \subseteq Modules
  /\ failures \in [Clients -> [count : Nat, age : 0..(FailTimeout + 1)]]
  /\ manager \in [keys : SUBSET Keys, proxies : SUBSET [owner : Modules, key : Keys]]
  /\ queue \in Seq(Reqs) /\ holders \subseteq Reqs
  /\ reqs \in [Reqs -> ReqType]

(***************************************************************************)
(* "Signatures are unique to a particular module": every signature, made   *)
(* through whatever reloads, revocations and waits, carries the signing id *)
(* that the configuration gives to the module whose token was presented.   *)
(***************************************************************************)
OwnSigningId ==
  \A s \in signatures : s.signing_id = SigningId[s.module]

(***************************************************************************)
(* Once its revocation is answered, and until the next reload, a module    *)
(* gets nothing more than what is already beyond its last lookup: a        *)
(* request that authenticates later is refused, and one to sign is even if *)
(* it had authenticated before, since its handler looks the module up      *)
(* again.  Nothing is said about reloads here; see RevokedStaysOut and     *)
(* ReloadAsRestart.                                                        *)
(***************************************************************************)
RevokedGetsNothing ==
  \A r \in Reqs : reqs[r].ans = "ok" => ~ reqs[r].revoked

(***************************************************************************)
(* Once revoked or left out of a reload, a module stays out until the      *)
(* service is restarted: a reload registers none but the modules that are  *)
(* registered already.  The docs announce the opposite for a reload that   *)
(* gives no secrets: see ReloadAsRestart.                                  *)
(***************************************************************************)
RevokedStaysOut == [][DOMAIN jwts' \subseteq DOMAIN jwts]_vars

(***************************************************************************)
(* A read or write of the manager excludes a write of another request, and *)
(* the lock is held by exactly the requests inside the manager.            *)
(***************************************************************************)
ManagerExclusive ==
  /\ holders = {r \in Reqs : reqs[r].pc = "holding"}
  /\ \A r, q \in holders : Writes(r) => r = q

(***************************************************************************)
(* Checking the limit and recording a failure are separate critical        *)
(* sections, so concurrent requests overshoot the limit - but by no more   *)
(* than the other requests in flight: a client never has more than         *)
(* jwt_auth_fail_limit - 1 + (concurrent requests) failures recorded.      *)
(***************************************************************************)
FailuresBounded ==
  \A c \in Clients : failures[c].count < Greater(FailLimit, 1) + Cardinality(Reqs)

(***************************************************************************)
(* A blocked client is let in again after the timeout, even if it goes on  *)
(* sending requests: a request that is refused with "rate limited" does    *)
(* not prolong the block.                                                  *)
(***************************************************************************)
BlockEnds == \A c \in Clients : Limited(c) ~> ~ Limited(c)

(***************************************************************************)
(* Every module request is answered: no order of readers and writers of    *)
(* the manager leaves one waiting forever.                                 *)
(***************************************************************************)
RequestsAnswered == \A r \in Reqs : ~ Free(reqs[r]) ~> Free(reqs[r])

-----------------------------------------------------------------------------
(***************************************************************************)
(* Docs, "Hot Reload": what a reload is not given is regenerated "as       *)
(* though the signer service was being restarted", and changes made by     *)
(* /revoke_jwt or /reload "will be reverted"; the changes of the           *)
(* configuration are applied "without needing to restart the modules".     *)
(* After a restart the modules would be those of the environment, and the  *)
(* keys those found on disk.  A reload that is answered with 200 brings    *)
(* back neither; the property asks for no more than one of the two, so     *)
(* that a counterexample shows that both are missing.                      *)
(***************************************************************************)
ReloadAsRestart ==
  \A a \in Admins :
    (admins[a].ans = "ok" /\ ~ IsRevoke(admins[a].body) /\ admins[a].body.jwt_secrets = None)
      => jwts = EnvJwts \/ manager.keys = admins[a].keys
=============================================================================
