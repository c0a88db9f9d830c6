------------------------ MODULE SignerService_proofs ------------------------
(***************************************************************************)
(* Proofs about SignerService, for any modules, keys, clients and limits   *)
(* and any number of concurrent requests and reloads.                      *)
(***************************************************************************)
EXTENDS SignerService, FiniteSetTheorems, TLAPS

(***************************************************************************)
(* The inductive invariant, part by part.                                  *)
(***************************************************************************)
Jwts == UNION {[D -> JwtConfig] : D \in SUBSET Modules}

Bodies == ReloadRequests \cup {Revoke(m) : m \in Modules}

AdminType ==
  [pc : {"idle", "done", "authed", "loaded", "registered", "starting"},
   body : Bodies \cup {None}, keys : SUBSET Keys,
   ans : {"none", "ok", "unauthorized", "request_error", "internal", "not_found"}]

\* An admin request past admin_auth carries a body; past the first step of a
\* reload it is the body of a reload.
AdminsOk ==
  /\ admins \in [Admins -> AdminType]
  /\ \A a \in Admins :
       /\ admins[a].pc = "authed" => admins[a].body \in Bodies
       /\ admins[a].pc \in {"loaded", "registered", "starting"}
            => admins[a].body \in ReloadRequests

\* What a request in progress carries.
ActiveOk(q) ==
  ~ Free(q) => q.client \in Clients /\ q.token \in Tokens /\ q.what \in Operations

\* Whoever is in the queue waits for the manager, and is there once.
QueueOk ==
  /\ \A i \in 1..Len(queue) : reqs[queue[i]].pc = "queued"
  /\ \A i, j \in 1..Len(queue) : queue[i] = queue[j] => i = j

\* The registry, and each signature under way, has the module's own id.
RegistryIds == \A m \in DOMAIN jwts : jwts[m].signing_id = SigningId[m]

IdOk(q) ==
  (q.pc \in {"queued", "holding"} /\ Signs(q.what)) => q.signing_id = SigningId[q.token.module]

\* Who was revoked since the last reload is not registered, and nobody got past
\* a lookup who was.
RevokedOut == \A m \in revoked : m \notin DOMAIN jwts

ReqsOk == \A r \in Reqs : ActiveOk(reqs[r]) /\ IdOk(reqs[r]) /\ ~ reqs[r].revoked

Inv ==
  /\ TypeOK /\ AdminsOk /\ QueueOk /\ RegistryIds /\ RevokedOut /\ ReqsOk
  /\ ManagerExclusive /\ OwnSigningId

LEMMA InitInv == Init => Inv
<1> SUFFICES ASSUME Init PROVE Inv
  OBVIOUS
<1>1. EnvJwts \in Jwts /\ DOMAIN EnvJwts = Modules
  <2>1. EnvJwts \in [Modules -> JwtConfig]
    BY SignerAssumption DEF EnvJwts, JwtConfig
  <2> QED
    BY <2>1 DEF Jwts
<1>2. NoReq \in ReqType /\ Free(NoReq) /\ ~ NoReq.revoked /\ NoReq.pc = "idle"
  BY DEF NoReq, ReqType, ReqState, ReqAnswer, Free
<1>3. NoAdmin \in AdminType /\ NoAdmin.pc = "idle"
  BY DEF NoAdmin, AdminType
<1>4. TypeOK
  BY <1>1, <1>2, SignerAssumption DEF Init, TypeOK, Jwts, NoFailures
<1>5. AdminsOk
  BY <1>3 DEF Init, AdminsOk
<1>6. RegistryIds /\ RevokedOut
  BY DEF Init, EnvJwts, RegistryIds, RevokedOut
<1>7. ReqsOk
  BY <1>2 DEF Init, ReqsOk, ActiveOk, IdOk
<1> QED
  BY <1>2, <1>4, <1>5, <1>6, <1>7 DEF Init, Inv, QueueOk, ManagerExclusive, OwnSigningId

-----------------------------------------------------------------------------
(***************************************************************************)
(* Admin steps.  They touch the registry and their own slots only; what    *)
(* keeps the invariant is that the registry never gains a module and never *)
(* changes an id.                                                          *)
(***************************************************************************)
LEMMA RegistryStep ==
  ASSUME Inv, jwts' \in Jwts, DOMAIN jwts' \subseteq DOMAIN jwts, RegistryIds',
         revoked' \subseteq Modules, RevokedOut', adminSecret' \in AdminSecrets, AdminsOk',
         UNCHANGED <<failures, manager, lock, reqs, signatures>>
  PROVE  Inv'
<1>1. /\ failures' = failures /\ manager' = manager /\ queue' = queue
      /\ holders' = holders /\ reqs' = reqs /\ signatures' = signatures
  BY DEF lock
<1>2. TypeOK'
  BY <1>1, Zenon DEF Inv, TypeOK, Jwts
<1>3. QueueOk' /\ ManagerExclusive' /\ OwnSigningId'
  BY <1>1 DEF Inv, QueueOk, ManagerExclusive, OwnSigningId, Writes
<1>4. ReqsOk'
  BY <1>1, Zenon DEF Inv, ReqsOk
<1> QED
  BY <1>2, <1>3, <1>4 DEF Inv

\* The registry, untouched.
LEMMA SameRegistry ==
  ASSUME Inv, jwts' = jwts, revoked' = revoked
  PROVE  /\ jwts' \in Jwts /\ DOMAIN jwts' \subseteq DOMAIN jwts /\ RegistryIds'
         /\ revoked' \subseteq Modules /\ RevokedOut'
BY DEF Inv, TypeOK, Jwts, RegistryIds, RevokedOut

LEMMA NoAdminOk == NoAdmin \in AdminType /\ NoAdmin.pc = "idle"
  BY DEF NoAdmin, AdminType

\* An answered slot is in order.
LEMMA AdminAnswerOk ==
  ASSUME AdminsOk, NEW a \in Admins, NEW found \in SUBSET Keys,
         NEW ans \in {"ok", "request_error", "internal", "not_found"},
         \/ admins' = AdminAnswer(a, ans)
         \/ admins' = [AdminAnswer(a, ans) EXCEPT ![a].keys = found]
  PROVE  AdminsOk'
<1> DEFINE slot == [NoAdmin EXCEPT !.pc = "done", !.ans = ans,
     !.body = IF ans = "ok" THEN admins[a].body ELSE None]
           more == [slot EXCEPT !.keys = found]
<1>2. admins[a].body \in Bodies \cup {None}
  BY DEF AdminsOk, AdminType
<1>3. slot \in AdminType
  <2>1. slot.body \in Bodies \cup {None}
    BY <1>2 DEF NoAdmin
  <2> QED
    BY <1>2, <2>1, NoAdminOk, Zenon DEF AdminType
<1>4. slot.pc = "done"
  BY DEF NoAdmin
<1>5. admins' = [admins EXCEPT ![a] = slot] \/ admins' = [admins EXCEPT ![a] = more]
  BY DEF AdminAnswer, AdminsOk
<1> HIDE DEF slot
<1>6. more \in AdminType /\ more.pc = "done"
  BY <1>3, <1>4 DEF AdminType
<1> HIDE DEF more
<1> QED
  BY <1>3, <1>4, <1>5, <1>6 DEF AdminsOk

\* A slot that goes on with its body to the next step of a reload.
LEMMA AdminGoesOn ==
  ASSUME AdminsOk, NEW a \in Admins, admins[a].body \in ReloadRequests,
         NEW pc \in {"loaded", "registered", "starting"},
         admins' = [admins EXCEPT ![a].pc = pc]
  PROVE  AdminsOk'
<1>1. admins[a] \in AdminType
  BY DEF AdminsOk
<1>2. [admins[a] EXCEPT !.pc = pc] \in AdminType
  BY <1>1 DEF AdminType
<1>3. [admins[a] EXCEPT !.pc = pc].body = admins[a].body
  BY <1>1 DEF AdminType
<1>4. admins' = [admins EXCEPT ![a] = [admins[a] EXCEPT !.pc = pc]]
  OBVIOUS
<1> QED
  BY <1>2, <1>3, <1>4 DEF AdminsOk

LEMMA AdminArriveKeeps ==
  ASSUME Inv, NEW a \in Admins, NEW s \in AdminSecrets, NEW b \in Bodies, AdminArrive(a, s, b)
  PROVE  Inv'
<1>1. /\ jwts' = jwts /\ revoked' = revoked /\ adminSecret' = adminSecret
      /\ UNCHANGED <<failures, manager, lock, reqs, signatures>>
  BY DEF AdminArrive, registry
<1> DEFINE good == [NoAdmin EXCEPT !.pc = "authed", !.body = b]
           bad == [NoAdmin EXCEPT !.pc = "done", !.ans = "unauthorized"]
<1>3. good \in AdminType /\ bad \in AdminType
  BY NoAdminOk, Zenon DEF AdminType
<1>4. good.pc = "authed" /\ good.body = b /\ bad.pc = "done"
  BY DEF NoAdmin
<1>5. admins' = [admins EXCEPT ![a] = IF s = adminSecret THEN good ELSE bad]
  BY DEF AdminArrive
<1> HIDE DEF good, bad
<1>6. AdminsOk'
  BY <1>1, <1>3, <1>4, <1>5 DEF Inv, AdminsOk
<1> QED
  BY <1>1, <1>6, SameRegistry, RegistryStep, Zenon DEF Inv, TypeOK

LEMMA RevokeModuleKeeps ==
  ASSUME Inv, NEW a \in Admins, RevokeModule(a)
  PROVE  Inv' /\ DOMAIN jwts' \subseteq DOMAIN jwts
<1> DEFINE m == admins[a].body.revoke
<1>1. /\ adminSecret' = adminSecret
      /\ UNCHANGED <<failures, manager, lock, reqs, signatures>>
      /\ jwts' = [n \in DOMAIN jwts \ {m} |-> jwts[n]]
      /\ revoked' = IF m \in DOMAIN jwts THEN revoked \cup {m} ELSE revoked
      /\ admins' = AdminAnswer(a, IF m \in DOMAIN jwts THEN "ok" ELSE "not_found")
  BY DEF RevokeModule
<1>2. PICK D \in SUBSET Modules : jwts \in [D -> JwtConfig]
  BY DEF Inv, TypeOK
<1>3. jwts' \in [D \ {m} -> JwtConfig]
  BY <1>1, <1>2
<1>4. jwts' \in Jwts /\ DOMAIN jwts' \subseteq DOMAIN jwts
  BY <1>1, <1>2, <1>3 DEF Jwts
<1>5. RegistryIds'
  BY <1>1 DEF Inv, RegistryIds
<1>6. AdminsOk'
  BY <1>1, AdminAnswerOk, Zenon DEF Inv
<1>7. revoked' \subseteq Modules /\ RevokedOut'
  BY <1>1, <1>2 DEF Inv, TypeOK, RevokedOut
<1> QED
  BY <1>1, <1>4, <1>5, <1>6, <1>7, RegistryStep, Zenon DEF Inv, TypeOK

LEMMA ReloadConfigKeeps ==
  ASSUME Inv, NEW a \in Admins, ReloadConfig(a)
  PROVE  Inv'
<1>1. /\ jwts' = jwts /\ revoked' = revoked /\ adminSecret' = adminSecret
      /\ UNCHANGED <<failures, manager, lock, reqs, signatures>>
  BY DEF ReloadConfig, registry
<1>2. admins[a].body \in ReloadRequests
  BY DEF Inv, AdminsOk, ReloadConfig, Bodies, Revoke, IsRevoke
<1>3. CASE admins' = [admins EXCEPT ![a].pc = "loaded"]
  BY <1>1, <1>2, <1>3, AdminGoesOn, SameRegistry, RegistryStep, ZenonT(60) DEF Inv, TypeOK
<1>4. CASE admins' = AdminAnswer(a, "internal")
  BY <1>1, <1>4, AdminAnswerOk, SameRegistry, RegistryStep, Zenon DEF Inv, TypeOK
<1> QED
  BY <1>3, <1>4 DEF ReloadConfig

LEMMA ReloadJwtsKeeps ==
  ASSUME Inv, NEW a \in Admins, ReloadJwts(a)
  PROVE  Inv' /\ DOMAIN jwts' \subseteq DOMAIN jwts
<1> DEFINE secrets == admins[a].body.jwt_secrets
<1>1. /\ adminSecret' = adminSecret
      /\ UNCHANGED <<failures, manager, lock, reqs, signatures>>
  BY DEF ReloadJwts
<1>2. admins[a].body \in ReloadRequests /\ admins[a].body \in ReloadType
  BY SignerAssumption DEF Inv, AdminsOk, ReloadJwts
<1>3. CASE secrets # None /\ ~ Reloadable(secrets)
  BY <1>1, <1>3, AdminAnswerOk, SameRegistry, RegistryStep, Zenon DEF Inv, TypeOK, ReloadJwts
<1>4. CASE secrets = None
  <2>1. jwts' = jwts /\ revoked' = {} /\ admins' = [admins EXCEPT ![a].pc = "registered"]
    BY <1>4 DEF ReloadJwts
  <2>2. /\ jwts' \in Jwts /\ DOMAIN jwts' \subseteq DOMAIN jwts /\ RegistryIds'
        /\ revoked' \subseteq Modules /\ RevokedOut'
    BY <2>1 DEF Inv, TypeOK, Jwts, RegistryIds, RevokedOut
  <2> QED
    BY <1>1, <1>2, <2>1, <2>2, AdminGoesOn, RegistryStep, Zenon DEF Inv, TypeOK
<1>5. CASE secrets # None /\ Reloadable(secrets)
  <2>1. jwts' = Reloaded(secrets) /\ revoked' = {} /\ admins' = [admins EXCEPT ![a].pc = "registered"]
    BY <1>5 DEF ReloadJwts
  <2>a. secrets \in SecretMaps
    BY <1>2, <1>5 DEF ReloadType
  <2>2. PICK D \in SUBSET Modules : secrets \in [D -> Secrets]
    BY <2>a DEF SecretMaps
  <2>3. PICK E \in SUBSET Modules : jwts \in [E -> JwtConfig]
    BY DEF Inv, TypeOK
  <2>4. D \subseteq E
    BY <1>5, <2>2, <2>3, SMTT(30) DEF Reloadable
  <2>5. Reloaded(secrets) \in [D -> JwtConfig]
    BY <2>2, <2>3, <2>4 DEF Reloaded, JwtConfig
  <2>6. jwts' \in Jwts /\ DOMAIN jwts' \subseteq DOMAIN jwts
    BY <2>1, <2>3, <2>4, <2>5, Zenon DEF Jwts
  <2>7. RegistryIds'
    BY <2>1, <2>2, <2>3, <2>4, Zenon DEF Inv, RegistryIds, Reloaded
  <2>8. AdminsOk'
    BY <1>1, <1>2, <2>1, AdminGoesOn, Zenon DEF Inv
  <2>9. revoked' \subseteq Modules /\ RevokedOut'
    BY <2>1, Zenon DEF RevokedOut
  <2> QED
    BY <1>1, <2>6, <2>7, <2>8, <2>9, RegistryStep DEF Inv, TypeOK
<1> QED
  BY <1>3, <1>4, <1>5

LEMMA ReloadAdminKeeps ==
  ASSUME Inv, NEW a \in Admins, ReloadAdmin(a)
  PROVE  Inv'
<1>1. /\ jwts' = jwts /\ revoked' = revoked
      /\ UNCHANGED <<failures, manager, lock, reqs, signatures>>
      /\ admins' = [admins EXCEPT ![a].pc = "starting"]
      /\ adminSecret' = IF admins[a].body.admin_secret = None
                        THEN adminSecret ELSE admins[a].body.admin_secret
  BY DEF ReloadAdmin
<1>2. admins[a].body \in ReloadRequests /\ admins[a].body \in ReloadType
  BY SignerAssumption DEF Inv, AdminsOk, ReloadAdmin
<1>3. adminSecret' \in AdminSecrets
  BY <1>1, <1>2, SMTT(30) DEF Inv, TypeOK, ReloadType
<1> QED
  BY <1>1, <1>2, <1>3, AdminGoesOn, SameRegistry, RegistryStep, Zenon DEF Inv

LEMMA ReloadManagerKeeps ==
  ASSUME Inv, NEW a \in Admins, ReloadManager(a)
  PROVE  Inv'
<1>1. /\ jwts' = jwts /\ revoked' = revoked /\ adminSecret' = adminSecret
      /\ UNCHANGED <<failures, manager, lock, reqs, signatures>>
  BY DEF ReloadManager, registry
<1>2. AdminsOk'
  <2>1. CASE admins' = AdminAnswer(a, "internal")
    BY <2>1, AdminAnswerOk, Zenon DEF Inv
  <2>2. ASSUME NEW found \in KeySets, admins' = [AdminAnswer(a, "ok") EXCEPT ![a].keys = found]
        PROVE  AdminsOk'
    <3>1. found \in SUBSET Keys
      BY SignerAssumption, Zenon
    <3> QED
      BY <2>2, <3>1, AdminAnswerOk, Zenon DEF Inv
  <2> QED
    BY <2>1, <2>2, Zenon DEF ReloadManager
<1> QED
  BY <1>1, <1>2, SameRegistry, RegistryStep, Zenon DEF Inv, TypeOK

-----------------------------------------------------------------------------
(***************************************************************************)
(* Steps of a module's request.                                            *)
(***************************************************************************)
LEMMA ReplaceReq ==
  ASSUME TypeOK, NEW r \in Reqs, NEW q \in ReqType, reqs' = [reqs EXCEPT ![r] = q]
  PROVE  /\ reqs' \in [Reqs -> ReqType]
         /\ \A p \in Reqs : reqs'[p] = IF p = r THEN q ELSE reqs[p]
BY DEF TypeOK

LEMMA NoReqOk == NoReq \in ReqType /\ NoReq.pc = "idle" /\ ~ NoReq.revoked
BY DEF NoReq, ReqType, ReqState, ReqAnswer

\* A request keeps all it carries when only its state changes.
LEMMA MoveReq ==
  ASSUME NEW q \in ReqType, NEW pc \in ReqState
  PROVE  LET n == [q EXCEPT !.pc = pc]
         IN  /\ n \in ReqType /\ n.pc = pc /\ n.client = q.client /\ n.token = q.token
             /\ n.what = q.what /\ n.revoked = q.revoked /\ n.ans = q.ans
             /\ n.signing_id = q.signing_id
<1>1. [q EXCEPT !.pc = pc] \in ReqType
  BY Zenon DEF ReqType
<1> QED
  BY <1>1 DEF ReqType

\* An answered request keeps whether it was revoked.
LEMMA AnswerOk ==
  ASSUME TypeOK, NEW r \in Reqs, NEW ans \in ReqAnswer, reqs' = Answer(r, ans)
  PROVE  \E q \in ReqType : /\ reqs' = [reqs EXCEPT ![r] = q]
                            /\ q.pc = "done" /\ q.ans = ans /\ q.revoked = reqs[r].revoked
<1> DEFINE q == [NoReq EXCEPT !.pc = "done", !.ans = ans, !.revoked = reqs[r].revoked]
<1>1. reqs[r].revoked \in BOOLEAN
  BY DEF TypeOK, ReqType
<1>2. q \in ReqType
  BY <1>1, NoReqOk, Zenon DEF ReqType, ReqState
<1>3. q.pc = "done" /\ q.ans = ans /\ q.revoked = reqs[r].revoked
  BY DEF NoReq
<1>4. reqs' = [reqs EXCEPT ![r] = q]
  BY DEF Answer
<1> HIDE DEF q
<1> QED
  BY <1>2, <1>3, <1>4, Zenon

(***************************************************************************)
(* A step of a request that neither waits for the manager nor holds it.    *)
(***************************************************************************)
LEMMA OutsideStep ==
  ASSUME Inv, NEW r \in Reqs, NEW q \in ReqType, reqs' = [reqs EXCEPT ![r] = q],
         reqs[r].pc \notin {"queued", "holding"}, q.pc \notin {"queued", "holding"},
         ActiveOk(q), ~ q.revoked,
         failures' \in [Clients -> [count : Nat, age : 0..(FailTimeout + 1)]],
         UNCHANGED <<registry, manager, lock, admins, signatures>>
  PROVE  Inv'
<1>1. /\ jwts' = jwts /\ revoked' = revoked /\ adminSecret' = adminSecret /\ manager' = manager
      /\ queue' = queue /\ holders' = holders /\ admins' = admins
      /\ signatures' = signatures
  BY DEF registry, lock
<1>2. /\ reqs' \in [Reqs -> ReqType]
      /\ \A p \in Reqs : reqs'[p] = IF p = r THEN q ELSE reqs[p]
  BY ReplaceReq, Zenon DEF Inv
<1>3. TypeOK'
  BY <1>1, <1>2 DEF Inv, TypeOK
<1>4. QueueOk'
  BY <1>1, <1>2 DEF Inv, TypeOK, QueueOk
<1>5. AdminsOk' /\ RegistryIds' /\ RevokedOut' /\ OwnSigningId'
  BY <1>1 DEF Inv, AdminsOk, RegistryIds, RevokedOut, OwnSigningId
<1>6. ReqsOk'
  BY <1>1, <1>2, Zenon DEF Inv, ReqsOk, IdOk
<1>7. ManagerExclusive'
  BY <1>1, <1>2, SMTT(30) DEF Inv, ManagerExclusive, Writes
<1> QED
  BY <1>3, <1>4, <1>5, <1>6, <1>7 DEF Inv

LEMMA ArriveKeeps ==
  ASSUME Inv, NEW r \in Reqs, NEW c \in Clients, NEW t \in Tokens, NEW w \in Operations,
         Arrive(r, c, t, w)
  PROVE  Inv'
<1> DEFINE in == [NoReq EXCEPT !.pc = "checked", !.client = c, !.token = t, !.what = w]
           out == [NoReq EXCEPT !.pc = "done", !.ans = "rate_limited"]
<1>1. /\ c \in Clients \cup {None} /\ t \in Tokens \cup {None}
      /\ w \in Operations \cup {None} /\ "checked" \in ReqState
  BY DEF ReqState
<1>2. in \in ReqType
  BY <1>1, NoReqOk, Zenon DEF ReqType
<1>3. /\ in.pc = "checked" /\ in.client = c /\ in.token = t /\ in.what = w
      /\ in.revoked = FALSE /\ out.revoked = FALSE
  BY Zenon DEF NoReq
<1>4. out \in ReqType
  BY NoReqOk, Zenon DEF ReqType, ReqState, ReqAnswer
<1>5. out.pc = "done" /\ out.ans = "rate_limited"
  BY DEF NoReq
<1>6. /\ reqs' = [reqs EXCEPT ![r] = IF Limited(c) THEN out ELSE in]
      /\ failures' = [failures EXCEPT ![c] = IF Expired(c) THEN NoFailures ELSE @]
      /\ UNCHANGED <<registry, manager, lock, admins, signatures>>
      /\ reqs[r].pc \in {"idle", "done"}
  BY SMTT(30) DEF Arrive, Free
<1> HIDE DEF in, out
<1>7. failures' \in [Clients -> [count : Nat, age : 0..(FailTimeout + 1)]]
  BY <1>6, SignerAssumption DEF Inv, TypeOK, NoFailures
<1>8. ActiveOk(in) /\ ActiveOk(out) /\ ~ in.revoked /\ ~ out.revoked
  BY <1>3, <1>5, Zenon DEF ActiveOk, Free
<1> QED
  BY <1>2, <1>3, <1>4, <1>5, <1>6, <1>7, <1>8, OutsideStep, Zenon

\* A module whose token is accepted is registered, so it was not revoked.
LEMMA AuthenticateReq ==
  ASSUME Inv, NEW r \in Reqs, Authenticate(r)
  PROVE  \E pc \in {"authed", "unauthorized"} :
           reqs' = [reqs EXCEPT ![r] = [reqs[r] EXCEPT !.pc = pc, !.revoked = FALSE]]
<1>1. reqs[r] \in ReqType /\ reqs[r].revoked = FALSE
  BY DEF Inv, TypeOK, ReqsOk, ReqType
<1>2. CASE /\ TokenOk(reqs[r].token)
           /\ reqs' = [reqs EXCEPT ![r].pc = "authed",
                                   ![r].revoked = reqs[r].token.module \in revoked]
  <2>1. (reqs[r].token.module \in revoked) = FALSE
    <3>1. reqs[r].token.module \in DOMAIN jwts
      BY <1>2, Zenon DEF TokenOk
    <3> QED
      BY <3>1 DEF Inv, RevokedOut
  <2>2. reqs' = [reqs EXCEPT ![r] = [reqs[r] EXCEPT !.pc = "authed", !.revoked = FALSE]]
    <3> DEFINE rev == reqs[r].token.module \in revoked
    <3>1. reqs \in [Reqs -> ReqType] /\ rev = FALSE
      BY <2>1, Zenon DEF Inv, TypeOK
    <3>2. reqs' = [reqs EXCEPT ![r].pc = "authed", ![r].revoked = rev]
      BY <1>2, Zenon
    <3> HIDE DEF rev
    <3> QED
      BY <1>1, <3>1, <3>2, Zenon DEF ReqType
  <2> QED
    BY <2>2
<1>3. CASE reqs' = [reqs EXCEPT ![r].pc = "unauthorized"]
  <2>1. [reqs[r] EXCEPT !.pc = "unauthorized"]
          = [reqs[r] EXCEPT !.pc = "unauthorized", !.revoked = FALSE]
    BY <1>1, Zenon DEF ReqType
  <2>2. reqs' = [reqs EXCEPT ![r] = [reqs[r] EXCEPT !.pc = "unauthorized"]]
    BY <1>3, Zenon
  <2> QED
    BY <2>1, <2>2, Zenon
<1> QED
  BY <1>2, <1>3 DEF Authenticate

LEMMA AuthenticateKeeps ==
  ASSUME Inv, NEW r \in Reqs, Authenticate(r)
  PROVE  Inv'
<1>1. /\ UNCHANGED <<registry, manager, lock, admins, signatures>>
      /\ failures' = failures /\ reqs[r].pc = "checked" /\ reqs[r] \in ReqType
  BY DEF Authenticate, Inv, TypeOK
<1>2. PICK pc \in {"authed", "unauthorized"} :
        reqs' = [reqs EXCEPT ![r] = [reqs[r] EXCEPT !.pc = pc, !.revoked = FALSE]]
  BY AuthenticateReq, Zenon
<1> DEFINE q == [reqs[r] EXCEPT !.pc = pc, !.revoked = FALSE]
<1>3. /\ q \in ReqType /\ q.pc = pc /\ q.client = reqs[r].client /\ q.token = reqs[r].token
      /\ q.what = reqs[r].what /\ q.revoked = FALSE
  <2>1. pc \in ReqState
    BY DEF ReqState
  <2>2. q \in ReqType
    BY <1>1, <2>1, Zenon DEF ReqType
  <2> QED
    BY <1>1, <2>2 DEF ReqType
<1> HIDE DEF q
<1>4. reqs' = [reqs EXCEPT ![r] = q]
  BY <1>2 DEF q
<1>5. ActiveOk(q)
  BY <1>1, <1>3 DEF Inv, ReqsOk, ActiveOk, Free
<1> QED
  BY <1>1, <1>3, <1>4, <1>5, OutsideStep, Zenon DEF Inv, TypeOK

LEMMA RecordFailureKeeps ==
  ASSUME Inv, NEW r \in Reqs, RecordFailure(r)
  PROVE  Inv'
<1>1. PICK q \in ReqType : /\ reqs' = [reqs EXCEPT ![r] = q]
                           /\ q.pc = "done" /\ ~ q.revoked
  BY AnswerOk DEF RecordFailure, Inv, ReqAnswer, ReqsOk
<1>2. failures' \in [Clients -> [count : Nat, age : 0..(FailTimeout + 1)]]
  <2> DEFINE c == reqs[r].client
             more == [count |-> failures[c].count + 1, age |-> 0]
  <2>1. c \in Clients
    BY Zenon DEF RecordFailure, Inv, ReqsOk, ActiveOk, Free
  <2>2. more \in [count : Nat, age : 0..(FailTimeout + 1)]
    <3>1. failures[c] \in [count : Nat, age : 0..(FailTimeout + 1)]
      BY <2>1, Zenon DEF Inv, TypeOK
    <3>2. failures[c].count + 1 \in Nat /\ 0 \in 0..(FailTimeout + 1)
      BY <3>1, SignerAssumption
    <3> QED
      BY <3>2, Zenon
  <2>3. failures' = [failures EXCEPT ![c] = more]
    BY DEF RecordFailure
  <2> HIDE DEF c, more
  <2> QED
    BY <2>1, <2>2, <2>3, SMTT(30) DEF Inv, TypeOK
<1>3. ActiveOk(q)
  BY <1>1 DEF ActiveOk, Free
<1> QED
  BY <1>1, <1>2, <1>3, OutsideStep, Zenon DEF RecordFailure

LEMMA TickKeeps ==
  ASSUME Inv, Tick
  PROVE  Inv'
<1>1. /\ jwts' = jwts /\ revoked' = revoked /\ adminSecret' = adminSecret /\ manager' = manager
      /\ queue' = queue /\ holders' = holders /\ admins' = admins /\ reqs' = reqs
      /\ signatures' = signatures
  BY DEF Tick, registry, lock
<1>2. ASSUME NEW c \in Clients
      PROVE  failures'[c] \in [count : Nat, age : 0..(FailTimeout + 1)]
  <2>1. failures[c] \in [count : Nat, age : 0..(FailTimeout + 1)]
    BY DEF Inv, TypeOK
  <2>2. CASE failures[c].count > 0 /\ failures[c].age <= FailTimeout
    <3>1. failures'[c] = [failures[c] EXCEPT !.age = failures[c].age + 1]
      BY <2>2 DEF Tick
    <3>2. failures[c].age + 1 \in 0..(FailTimeout + 1)
      BY <2>1, <2>2, SignerAssumption
    <3> QED
      BY <2>1, <3>1, <3>2, Zenon
  <2>3. CASE ~ (failures[c].count > 0 /\ failures[c].age <= FailTimeout)
    BY <2>1, <2>3 DEF Tick
  <2> QED
    BY <2>2, <2>3
<1>3. failures' \in [Clients -> [count : Nat, age : 0..(FailTimeout + 1)]]
  <2>1. failures' = [c \in Clients |-> failures'[c]]
    BY DEF Tick
  <2> QED
    BY <1>2, <2>1, Zenon
<1>4. TypeOK'
  BY <1>1, <1>3, SMTT(30) DEF Inv, TypeOK
<1>5. AdminsOk' /\ RegistryIds' /\ RevokedOut' /\ OwnSigningId' /\ ReqsOk' /\ ManagerExclusive' /\ QueueOk'
  BY <1>1 DEF Inv, AdminsOk, RegistryIds, RevokedOut, OwnSigningId, ReqsOk, ManagerExclusive, QueueOk, Writes
<1> QED
  BY <1>4, <1>5 DEF Inv

LEMMA BeginHandlerKeeps ==
  ASSUME Inv, NEW r \in Reqs, BeginHandler(r)
  PROVE  Inv'
<1> DEFINE m == reqs[r].token.module
           id == IF Signs(reqs[r].what) THEN jwts[m].signing_id ELSE None
           rev == IF Signs(reqs[r].what) THEN m \in revoked ELSE reqs[r].revoked
           q == [reqs[r] EXCEPT !.pc = "queued", !.signing_id = id, !.revoked = rev]
<1>1. /\ jwts' = jwts /\ revoked' = revoked /\ adminSecret' = adminSecret /\ manager' = manager
      /\ failures' = failures /\ admins' = admins
      /\ signatures' = signatures
      /\ reqs[r].pc = "authed" /\ reqs[r] \in ReqType
  BY SMTT(30) DEF BeginHandler, registry, Inv, TypeOK
<1>2. CASE Signs(reqs[r].what) /\ m \notin DOMAIN jwts
  <2>1. reqs' = Answer(r, "request_error") /\ UNCHANGED lock
    BY <1>2 DEF BeginHandler
  <2>2. PICK p \in ReqType : /\ reqs' = [reqs EXCEPT ![r] = p]
                             /\ p.pc = "done" /\ ~ p.revoked
    BY <2>1, AnswerOk DEF Inv, ReqAnswer, ReqsOk
  <2>3. ActiveOk(p)
    BY <2>2 DEF ActiveOk, Free
  <2> QED
    BY <1>1, <2>1, <2>2, <2>3, OutsideStep, Zenon DEF Inv, TypeOK, registry
<1>3. CASE ~ (Signs(reqs[r].what) /\ m \notin DOMAIN jwts)
  <2>1. reqs' = [reqs EXCEPT ![r] = q] /\ queue' = Append(queue, r) /\ holders' = holders
    BY <1>3, Zenon DEF BeginHandler
  <2>2. /\ id \in {SigningId[n] : n \in Modules} \cup {None}
        /\ Signs(reqs[r].what) => id = SigningId[m]
    <3>1. \A n \in DOMAIN jwts : jwts[n].signing_id = SigningId[n] /\ n \in Modules
      BY DEF Inv, RegistryIds, TypeOK
    <3> QED
      BY <1>3, <3>1, Zenon
  <2>a. rev = FALSE
    <3>1. reqs[r].revoked = FALSE
      BY <1>1 DEF Inv, ReqsOk, ReqType
    <3>2. Signs(reqs[r].what) => (m \in revoked) = FALSE
      BY <1>3 DEF Inv, RevokedOut
    <3> QED
      BY <3>1, <3>2
  <2>3. q \in ReqType
    <3>1. "queued" \in ReqState /\ rev \in BOOLEAN
      BY <2>a, Zenon DEF ReqState
    <3> HIDE DEF id, rev
    <3> QED
      BY <1>1, <2>2, <3>1, Zenon DEF ReqType
  <2>4. /\ q.pc = "queued" /\ q.client = reqs[r].client /\ q.token = reqs[r].token
        /\ q.what = reqs[r].what /\ q.revoked = rev /\ q.signing_id = id
    BY <1>1 DEF ReqType
  <2> HIDE DEF q
  <2>5. /\ reqs' \in [Reqs -> ReqType]
        /\ \A p \in Reqs : reqs'[p] = IF p = r THEN q ELSE reqs[p]
    BY <2>1, <2>3, ReplaceReq, Zenon DEF Inv
  <2>6. TypeOK'
    BY <1>1, <2>1, <2>5, SMTT(30) DEF Inv, TypeOK
  <2>7. QueueOk'
    <3>1. queue \in Seq(Reqs)
      BY DEF Inv, TypeOK
    <3>2. /\ Len(queue') = Len(queue) + 1 /\ queue'[Len(queue) + 1] = r
          /\ \A i \in 1..Len(queue) : queue'[i] = queue[i] /\ queue[i] \in Reqs
      BY <2>1, <3>1
    <3>3. \A i \in 1..Len(queue) : reqs[queue[i]].pc = "queued" /\ queue[i] # r
      BY <1>1, Zenon DEF Inv, QueueOk
    <3>4. \A i, j \in 1..Len(queue) : queue[i] = queue[j] => i = j
      BY Zenon DEF Inv, QueueOk
    <3>5. \A i \in 1..Len(queue') : i \in 1..Len(queue) \/ i = Len(queue) + 1
      BY <3>1, <3>2, SMTT(30)
    <3>6. \A i \in 1..Len(queue') : reqs'[queue'[i]].pc = "queued"
      <4> TAKE i \in 1..Len(queue')
      <4>1. CASE i \in 1..Len(queue)
        <5>1. /\ queue'[i] = queue[i] /\ queue[i] \in Reqs /\ queue[i] # r
              /\ reqs[queue[i]].pc = "queued"
          BY <3>2, <3>3, <4>1, Zenon
        <5>2. reqs'[queue[i]] = reqs[queue[i]]
          BY <2>5, <5>1, Zenon
        <5> QED
          BY <5>1, <5>2, Zenon
      <4>2. CASE i = Len(queue) + 1
        BY <2>4, <2>5, <3>2, <4>2, Zenon
      <4> QED
        BY <3>5, <4>1, <4>2, Zenon
    <3>7. \A i, j \in 1..Len(queue') : queue'[i] = queue'[j] => i = j
      BY <3>2, <3>3, <3>4, <3>5, Zenon
    <3> QED
      BY <3>6, <3>7, Zenon DEF QueueOk
  <2>8. AdminsOk' /\ RegistryIds' /\ RevokedOut' /\ OwnSigningId'
    BY <1>1, Zenon DEF Inv, AdminsOk, RegistryIds, RevokedOut, OwnSigningId
  <2>9. ReqsOk'
    <3>1. ActiveOk(q) /\ IdOk(q) /\ ~ q.revoked
      BY <1>1, <2>2, <2>4, <2>a, Zenon DEF Inv, ReqsOk, ActiveOk, IdOk, Free
    <3> QED
      BY <1>1, <2>5, <3>1, SMTT(30) DEF Inv, ReqsOk
  <2>10. ManagerExclusive'
    BY <1>1, <2>1, <2>4, <2>5 DEF Inv, ManagerExclusive, Writes
  <2> QED
    BY <2>6, <2>7, <2>8, <2>9, <2>10 DEF Inv
<1> QED
  BY <1>2, <1>3

LEMMA AcquireKeeps ==
  ASSUME Inv, NEW r \in Reqs, Acquire(r)
  PROVE  Inv'
<1> DEFINE q == [reqs[r] EXCEPT !.pc = "holding"]
<1>1. /\ jwts' = jwts /\ revoked' = revoked /\ adminSecret' = adminSecret /\ manager' = manager
      /\ failures' = failures /\ admins' = admins
      /\ signatures' = signatures
      /\ reqs' = [reqs EXCEPT ![r] = q] /\ queue' = Tail(queue)
      /\ holders' = holders \cup {r} /\ queue # <<>> /\ Head(queue) = r
      /\ queue \in Seq(Reqs) /\ reqs[r] \in ReqType
  BY Zenon DEF Acquire, registry, Inv, TypeOK
<1>2. /\ 1 \in 1..Len(queue) /\ queue[1] = r /\ Len(queue') = Len(queue) - 1
      /\ queue' \in Seq(Reqs)
      /\ \A i \in 1..Len(queue') : queue'[i] = queue[i + 1] /\ i + 1 \in 1..Len(queue)
  BY <1>1, SMTT(30)
<1>3. reqs[r].pc = "queued"
  BY <1>2 DEF Inv, QueueOk
<1>4. /\ q \in ReqType /\ q.pc = "holding" /\ q.client = reqs[r].client
      /\ q.token = reqs[r].token /\ q.what = reqs[r].what /\ q.revoked = reqs[r].revoked
      /\ q.ans = reqs[r].ans /\ q.signing_id = reqs[r].signing_id
  <2>1. "holding" \in ReqState
    BY Zenon DEF ReqState
  <2> QED
    BY <1>1, <2>1, MoveReq, ZenonT(60)
<1> HIDE DEF q
<1>5. /\ reqs' \in [Reqs -> ReqType]
      /\ \A p \in Reqs : reqs'[p] = IF p = r THEN q ELSE reqs[p]
  BY <1>1, <1>4, ReplaceReq, Zenon DEF Inv
<1>6. TypeOK'
  BY <1>1, <1>2, <1>5, Zenon DEF Inv, TypeOK
<1>7. QueueOk'
  <2>1. \A i \in 1..Len(queue') : queue'[i] # r /\ queue'[i] \in Reqs
    BY <1>1, <1>2 DEF Inv, QueueOk
  <2> QED
    BY <1>1, <1>2, <1>5, <2>1, SMTT(30) DEF Inv, QueueOk
<1>8. AdminsOk' /\ RegistryIds' /\ RevokedOut' /\ OwnSigningId'
  BY <1>1, Zenon DEF Inv, AdminsOk, RegistryIds, RevokedOut, OwnSigningId
<1>9. ReqsOk'
  <2>1. ActiveOk(q) /\ IdOk(q) /\ ~ q.revoked
    BY <1>3, <1>4, Zenon DEF Inv, ReqsOk, ActiveOk, IdOk, Free
  <2> QED
    BY <1>1, <1>5, <2>1, Zenon DEF Inv, ReqsOk
<1>10. ManagerExclusive'
  <2>1. holders' = {p \in Reqs : reqs'[p].pc = "holding"}
    BY <1>1, <1>4, <1>5 DEF Inv, ManagerExclusive
  <2>2. \A p \in Reqs : Writes(p)' <=> Writes(p)
    BY <1>4, <1>5 DEF Writes
  <2>4. IF Writes(r) THEN holders = {} ELSE \A h \in holders : ~ Writes(h)
    BY SMTT(30) DEF Acquire
  <2>5. holders \subseteq Reqs
    BY Zenon DEF Inv, TypeOK
  <2>6. \A p, s \in holders' : Writes(p) => p = s
    BY <1>1, <2>4
  <2> QED
    BY <1>1, <2>1, <2>2, <2>5, <2>6 DEF ManagerExclusive
<1> QED
  BY <1>6, <1>7, <1>8, <1>9, <1>10 DEF Inv

LEMMA PerformKeeps ==
  ASSUME Inv, NEW r \in Reqs, Perform(r)
  PROVE  Inv'
<1>1. /\ jwts' = jwts /\ revoked' = revoked /\ adminSecret' = adminSecret /\ failures' = failures
      /\ admins' = admins /\ queue' = queue
      /\ holders' = holders \ {r} /\ reqs[r].pc = "holding"
  BY SMTT(30) DEF Perform, registry
<1>2. /\ reqs[r].token \in Tokens /\ reqs[r].token \in TokenType
      /\ reqs[r].what \in Operations /\ reqs[r].what \in OperationType
      /\ ~ reqs[r].revoked
      /\ Signs(reqs[r].what) => reqs[r].signing_id = SigningId[reqs[r].token.module]
  BY <1>1, SignerAssumption, Zenon DEF Inv, ReqsOk, ActiveOk, IdOk, Free
<1>3. PICK ans \in {"ok", "failed"} : reqs' = Answer(r, ans)
  BY DEF Perform
<1>4. PICK q \in ReqType : /\ reqs' = [reqs EXCEPT ![r] = q]
                           /\ q.pc = "done" /\ q.ans = ans /\ q.revoked = reqs[r].revoked
  BY <1>3, AnswerOk DEF Inv, ReqAnswer
<1>5. /\ reqs' \in [Reqs -> ReqType]
      /\ \A p \in Reqs : reqs'[p] = IF p = r THEN q ELSE reqs[p]
  BY <1>4, ReplaceReq, Zenon DEF Inv
<1>6. manager' \in [keys : SUBSET Keys, proxies : SUBSET [owner : Modules, key : Keys]]
  <2>1. NewProxy(r) \in [owner : Modules, key : Keys]
    BY <1>2, Zenon DEF NewProxy, TokenType, OperationType
  <2>2. /\ manager \in [keys : SUBSET Keys, proxies : SUBSET [owner : Modules, key : Keys]]
        /\ manager.proxies \cup {NewProxy(r)} \in SUBSET [owner : Modules, key : Keys]
    BY <2>1 DEF Inv, TypeOK
  <2>3. \/ manager' = manager
        \/ manager' = [manager EXCEPT !.proxies = manager.proxies \cup {NewProxy(r)}]
    BY SMTT(30) DEF Perform
  <2> QED
    BY <2>2, <2>3, Zenon
<1>7. TypeOK'
  BY <1>1, <1>5, <1>6, SMTT(30) DEF Inv, TypeOK
<1>8. QueueOk'
  <2>1. \A i \in 1..Len(queue) : queue[i] # r /\ queue[i] \in Reqs
    BY <1>1, SMTT(30) DEF Inv, TypeOK, QueueOk
  <2> QED
    BY <1>1, <1>5, <2>1, SMTT(30) DEF Inv, QueueOk
<1>9. AdminsOk' /\ RegistryIds' /\ RevokedOut'
  BY <1>1 DEF Inv, AdminsOk, RegistryIds, RevokedOut
<1>10. OwnSigningId'
  <2>1. Signs(reqs[r].what) => Signature(r).signing_id = SigningId[Signature(r).module]
    BY <1>2 DEF Signature
  <2>2. \/ signatures' = signatures
        \/ Signs(reqs[r].what) /\ signatures' = signatures \cup {Signature(r)}
    BY SMTT(30) DEF Perform
  <2> QED
    BY <2>1, <2>2, SMTT(30) DEF Inv, OwnSigningId
<1>11. ReqsOk'
  <2>1. ActiveOk(q) /\ IdOk(q) /\ ~ q.revoked
    BY <1>2, <1>4, Zenon DEF ActiveOk, IdOk, Free
  <2> QED
    BY <1>1, <1>5, <2>1, SMTT(30) DEF Inv, ReqsOk
<1>12. ManagerExclusive'
  BY <1>1, <1>4, <1>5 DEF Inv, ManagerExclusive, Writes
<1> QED
  BY <1>7, <1>8, <1>9, <1>10, <1>11, <1>12 DEF Inv

-----------------------------------------------------------------------------
LEMMA NextInv == Inv /\ [Next]_vars => Inv' /\ DOMAIN jwts' \subseteq DOMAIN jwts
<1> SUFFICES ASSUME Inv, [Next]_vars PROVE Inv' /\ DOMAIN jwts' \subseteq DOMAIN jwts
  BY SMTT(30)
<1>1. ASSUME NEW r \in Reqs, NEW c \in Clients, NEW t \in Tokens, NEW w \in Operations,
             Arrive(r, c, t, w)
      PROVE  Inv' /\ jwts' = jwts
  BY <1>1, ArriveKeeps, Zenon DEF Arrive, registry
<1>2. ASSUME NEW r \in Reqs, \/ Authenticate(r) \/ RecordFailure(r) \/ BeginHandler(r)
                             \/ Acquire(r) \/ Perform(r)
      PROVE  Inv' /\ jwts' = jwts
  <2>1. Inv'
    BY <1>2, AuthenticateKeeps, RecordFailureKeeps, BeginHandlerKeeps, AcquireKeeps, PerformKeeps, Zenon

  <2>2. jwts' = jwts
    BY <1>2, Zenon DEF Authenticate, RecordFailure, BeginHandler, Acquire, Perform, registry
  <2> QED
    BY <2>1, <2>2
<1>3. ASSUME Tick
      PROVE  Inv' /\ jwts' = jwts
  BY <1>3, TickKeeps, SMTT(30) DEF Tick, registry
<1>4. ASSUME NEW a \in Admins, NEW s \in AdminSecrets,
             NEW b \in ReloadRequests \cup {Revoke(m) : m \in Modules}, AdminArrive(a, s, b)
      PROVE  Inv' /\ jwts' = jwts
  BY <1>4, AdminArriveKeeps, Zenon DEF Bodies, AdminArrive, registry
<1>5. ASSUME NEW a \in Admins, RevokeModule(a) \/ ReloadJwts(a)
      PROVE  Inv' /\ DOMAIN jwts' \subseteq DOMAIN jwts
  BY <1>5, RevokeModuleKeeps, ReloadJwtsKeeps
<1>6. ASSUME NEW a \in Admins, ReloadConfig(a) \/ ReloadAdmin(a) \/ ReloadManager(a)
      PROVE  Inv' /\ jwts' = jwts
  BY <1>6, ReloadConfigKeeps, ReloadAdminKeeps, ReloadManagerKeeps, Zenon DEF ReloadConfig, ReloadAdmin, ReloadManager, registry

<1>7. ASSUME UNCHANGED vars
      PROVE  Inv' /\ jwts' = jwts
  <2>1. /\ jwts' = jwts /\ revoked' = revoked /\ adminSecret' = adminSecret /\ manager' = manager
        /\ queue' = queue /\ holders' = holders /\ admins' = admins /\ reqs' = reqs
        /\ signatures' = signatures /\ failures' = failures
    BY <1>7 DEF vars
  <2> QED
    BY <2>1, Zenon DEF Inv, TypeOK, AdminsOk, RegistryIds, RevokedOut, OwnSigningId, ReqsOk, ManagerExclusive,
                QueueOk, Writes
<1> QED
  BY <1>1, <1>2, <1>3, <1>4, <1>5, <1>6, <1>7 DEF Next

\* The invariant holds in every reachable state.
THEOREM Invariance == Spec => []Inv
  BY InitInv, NextInv, PTL DEF Spec

(***************************************************************************)
(* Every variable of the service keeps its type, for any constants.        *)
(***************************************************************************)
THEOREM TypeCorrect == Spec => []TypeOK
<1>1. Inv => TypeOK
  BY DEF Inv
<1> QED
  BY <1>1, Invariance, PTL

(***************************************************************************)
(* Whatever reloads and revocations overtake a request of                  *)
(* handle_request_signature, its signature carries the signing id of the   *)
(* module that was authenticated.                                          *)
(***************************************************************************)
THEOREM SignaturesAreOwn == Spec => []OwnSigningId
<1>1. Inv => OwnSigningId
  BY SMTT(30) DEF Inv
<1> QED
  BY <1>1, Invariance, PTL

(***************************************************************************)
(* check_jwt_auth, and the lookup of handle_request_signature, refuse a    *)
(* module from the moment handle_revoke_module has answered, whatever      *)
(* requests and reloads are under way: what is still done for it was past  *)
(* its last lookup by then, or a reload came after.                        *)
(***************************************************************************)
THEOREM RevokedAreRefused == Spec => []RevokedGetsNothing
<1>1. Inv => RevokedGetsNothing
  BY DEF Inv, ReqsOk, RevokedGetsNothing
<1> QED
  BY <1>1, Invariance, PTL

(***************************************************************************)
(* handle_reload and handle_revoke_module only ever shrink the registry: a *)
(* reload does not revert a revocation, although the docs say so.          *)
(***************************************************************************)
THEOREM RevocationIsFinal == Spec => RevokedStaysOut
<1>1. Inv /\ [Next]_vars => [DOMAIN jwts' \subseteq DOMAIN jwts]_vars
  BY NextInv
<1> QED
  BY <1>1, Invariance, PTL DEF Spec, RevokedStaysOut

(***************************************************************************)
(* The queue of the manager's RwLock keeps writers alone, for any number   *)
(* of concurrent requests.                                                 *)
(***************************************************************************)
THEOREM WritersAreAlone == Spec => []ManagerExclusive
<1>1. Inv => ManagerExclusive
  BY DEF Inv
<1> QED
  BY <1>1, Invariance, PTL

-----------------------------------------------------------------------------
(***************************************************************************)
(* The bound on recorded failures.  A request that has passed the check of *)
(* the limit may still add a failure: counted together with these, the     *)
(* failures of a client stay below the limit plus the number of requests   *)
(* that can be in flight.                                                  *)
(***************************************************************************)
Pending(c) == {r \in Reqs : reqs[r].pc \in {"checked", "unauthorized"} /\ reqs[r].client = c}

FailInv ==
  \A c \in Clients :
    failures[c].count + Cardinality(Pending(c)) < Greater(FailLimit, 1) + Cardinality(Reqs)

LEMMA PendingIsFinite ==
  ASSUME NEW c
  PROVE  /\ IsFiniteSet(Pending(c)) /\ Cardinality(Pending(c)) \in Nat
         /\ Cardinality(Reqs) \in Nat /\ Cardinality(Pending(c)) <= Cardinality(Reqs)
<1>1. Pending(c) \subseteq Reqs
  BY DEF Pending
<1> QED
  BY <1>1, SignerAssumption, FS_Subset, FS_CardinalityType

LEMMA PendingIsFinite2 ==
  ASSUME NEW c
  PROVE  /\ IsFiniteSet(Pending(c)') /\ Cardinality(Pending(c)') \in Nat
         /\ Cardinality(Pending(c)') <= Cardinality(Reqs)
<1>1. Pending(c)' \subseteq Reqs
  BY SMTT(30) DEF Pending
<1> QED
  BY <1>1, SignerAssumption, FS_Subset, FS_CardinalityType

\* Neither more failures nor more requests that may add one.
LEMMA NoMorePending ==
  ASSUME TypeOK, TypeOK', NEW c \in Clients, failures'[c].count <= failures[c].count,
         Pending(c)' \subseteq Pending(c),
         failures[c].count + Cardinality(Pending(c)) < Greater(FailLimit, 1) + Cardinality(Reqs)
  PROVE  failures'[c].count + Cardinality(Pending(c)') < Greater(FailLimit, 1) + Cardinality(Reqs)
<1>1. Cardinality(Pending(c)') <= Cardinality(Pending(c))
  BY PendingIsFinite, FS_Subset, SMTT(30)
<1>2. failures[c].count \in Nat /\ failures'[c].count \in Nat
  BY SMTT(30) DEF TypeOK
<1>3. Greater(FailLimit, 1) \in Nat
  BY SignerAssumption DEF Greater
<1> QED
  BY <1>1, <1>2, <1>3, PendingIsFinite, PendingIsFinite2, SMTT(30)

LEMMA InitFail == Init => FailInv
<1> SUFFICES ASSUME Init, NEW c \in Clients
             PROVE  failures[c].count + Cardinality(Pending(c)) < Greater(FailLimit, 1) + Cardinality(Reqs)
  BY DEF FailInv
<1>1. failures[c].count = 0
  BY DEF Init, NoFailures
<1>2. Greater(FailLimit, 1) \in Nat /\ Greater(FailLimit, 1) > 0
  BY SignerAssumption, SMTT(30) DEF Greater
<1> QED
  BY <1>1, <1>2, PendingIsFinite

LEMMA ArriveFail ==
  ASSUME Inv, Inv', FailInv, NEW r \in Reqs, NEW c \in Clients, NEW t \in Tokens,
         NEW w \in Operations, Arrive(r, c, t, w)
  PROVE  FailInv'
<1> SUFFICES ASSUME NEW d \in Clients
             PROVE  failures'[d].count + Cardinality(Pending(d)')
                      < Greater(FailLimit, 1) + Cardinality(Reqs)
  BY DEF FailInv
<1> DEFINE in == [NoReq EXCEPT !.pc = "checked", !.client = c, !.token = t, !.what = w]
           out == [NoReq EXCEPT !.pc = "done", !.ans = "rate_limited"]
<1>1. in.client = c /\ out.pc = "done"
  BY Zenon DEF NoReq
<1>2. /\ reqs' = [reqs EXCEPT ![r] = IF Limited(c) THEN out ELSE in]
      /\ failures' = [failures EXCEPT ![c] = IF Expired(c) THEN NoFailures ELSE @]
      /\ reqs[r].pc \in {"idle", "done"}
  BY Zenon DEF Arrive, Free
<1> HIDE DEF in, out
<1>3. /\ \A p \in Reqs : reqs'[p] = IF p = r THEN (IF Limited(c) THEN out ELSE in) ELSE reqs[p]
      /\ failures \in [Clients -> [count : Nat, age : 0..(FailTimeout + 1)]]
  BY <1>2, ZenonT(60) DEF Inv, TypeOK
<1>4. CASE d # c \/ Limited(c)
  <2>1. Pending(d)' \subseteq Pending(d)
    BY <1>1, <1>3, <1>4, SMTT(30) DEF Pending
  <2>2. failures'[d].count <= failures[d].count
    BY <1>2, <1>3, <1>4, SMTT(30) DEF Limited, NoFailures
  <2> QED
    BY <2>1, <2>2, NoMorePending, SMTT(30) DEF Inv, FailInv
<1>5. CASE d = c /\ ~ Limited(c)
  <2>1. failures'[d].count \in Nat /\ failures'[d].count < Greater(FailLimit, 1)
    <3>1. d \in Clients /\ failures[d].count \in Nat /\ failures[d].age \in Nat
      BY <1>3, <1>5
    <3>2. failures'[d] = IF Expired(d) THEN NoFailures ELSE failures[d]
      BY <1>2, <1>3, <1>5, <3>1, Zenon
    <3>3. CASE Expired(d)
      BY <3>2, <3>3, SignerAssumption DEF NoFailures, Greater
    <3>4. CASE ~Expired(d)
      BY <1>5, <3>1, <3>2, <3>4, SignerAssumption DEF Limited, Expired, Greater
    <3> QED
      BY <3>3, <3>4
  <2>2. Greater(FailLimit, 1) \in Nat
    BY SignerAssumption DEF Greater
  <2>3. /\ Cardinality(Reqs) \in Nat /\ Cardinality(Pending(d)') \in Nat
        /\ Cardinality(Pending(d)') <= Cardinality(Reqs)
    BY PendingIsFinite, PendingIsFinite2, ZenonT(60)
  <2> QED
    BY <2>1, <2>2, <2>3, SMTT(30)
<1> QED
  BY <1>4, <1>5, SMTT(30)

LEMMA RecordFailureFail ==
  ASSUME Inv, Inv', FailInv, NEW r \in Reqs, RecordFailure(r)
  PROVE  FailInv'
<1> SUFFICES ASSUME NEW d \in Clients
             PROVE  failures'[d].count + Cardinality(Pending(d)')
                      < Greater(FailLimit, 1) + Cardinality(Reqs)
  BY DEF FailInv
<1>1. PICK q \in ReqType : reqs' = [reqs EXCEPT ![r] = q] /\ q.pc = "done"
  BY AnswerOk DEF RecordFailure, Inv, ReqAnswer
<1>2. \A p \in Reqs : reqs'[p] = IF p = r THEN q ELSE reqs[p]
  BY <1>1, ReplaceReq, ZenonT(60) DEF Inv
<1>3. /\ failures' = [failures EXCEPT ![reqs[r].client] = [count |-> @.count + 1, age |-> 0]]
      /\ reqs[r].pc = "unauthorized"
      /\ failures \in [Clients -> [count : Nat, age : 0..(FailTimeout + 1)]]
  BY Zenon DEF RecordFailure, Inv, TypeOK
<1>4. CASE d # reqs[r].client
  <2>1. Pending(d)' \subseteq Pending(d)
    BY <1>1, <1>2, SMTT(30) DEF Pending
  <2>2. failures'[d].count <= failures[d].count
    BY <1>3, <1>4, SMTT(30)
  <2> QED
    BY <2>1, <2>2, NoMorePending DEF Inv, FailInv
<1>5. CASE d = reqs[r].client
  <2>1. r \in Pending(d) /\ Pending(d)' = Pending(d) \ {r}
    BY <1>1, <1>2, <1>3, <1>5, Zenon DEF Pending
  <2>2. Cardinality(Pending(d)') = Cardinality(Pending(d)) - 1
    BY <2>1, PendingIsFinite, FS_RemoveElement, ZenonT(60)
  <2>3. failures'[d].count = failures[d].count + 1 /\ failures[d].count \in Nat
    BY <1>3, <1>5, Zenon
  <2>4. failures[d].count + Cardinality(Pending(d)) < Greater(FailLimit, 1) + Cardinality(Reqs)
    BY Zenon DEF FailInv
  <2>5. Greater(FailLimit, 1) \in Nat
    BY SignerAssumption, Zenon DEF Greater
  <2>6. Cardinality(Pending(d)) \in Nat /\ Cardinality(Reqs) \in Nat
    BY PendingIsFinite, SMTT(30)
  <2> QED
    BY <2>2, <2>3, <2>4, <2>5, <2>6, SMTT(30)
<1> QED
  BY <1>4, <1>5

\* Every other step.
LEMMA OtherFail ==
  ASSUME Inv, Inv', FailInv,
         \A c \in Clients : failures'[c].count <= failures[c].count,
         \A c \in Clients : Pending(c)' \subseteq Pending(c)
  PROVE  FailInv'
BY NoMorePending, Zenon DEF FailInv, Inv

\* The steps of a request after the check of the limit.
LEMMA RequestFail ==
  ASSUME Inv, Inv', FailInv, NEW r \in Reqs,
         Authenticate(r) \/ BeginHandler(r) \/ Acquire(r) \/ Perform(r)
  PROVE  FailInv'
<1>1. failures' = failures
  BY Zenon DEF Authenticate, BeginHandler, Acquire, Perform
<1>2. \A c \in Clients : failures'[c].count <= failures[c].count
  BY <1>1, SMTT(30) DEF Inv, TypeOK
<1>3. reqs[r] \in ReqType /\ reqs \in [Reqs -> ReqType]
  BY Zenon DEF Inv, TypeOK
<1>4. CASE Authenticate(r)
  <2>1. PICK pc \in {"authed", "unauthorized"} :
          reqs' = [reqs EXCEPT ![r] = [reqs[r] EXCEPT !.pc = pc, !.revoked = FALSE]]
    BY <1>4, AuthenticateReq, Zenon
  <2>2. [reqs[r] EXCEPT !.pc = pc, !.revoked = FALSE].client = reqs[r].client
    BY <1>3 DEF ReqType
  <2>3. \A c \in Clients : Pending(c)' \subseteq Pending(c)
    BY <1>3, <1>4, <2>1, <2>2 DEF Pending, Authenticate
  <2> QED
    BY <1>2, <2>3, OtherFail, Zenon
<1>5. CASE BeginHandler(r) \/ Acquire(r) \/ Perform(r)
  <2>1. PICK q : reqs' = [reqs EXCEPT ![r] = q] /\ q.pc \in {"done", "queued", "holding"}
    <3>1. CASE BeginHandler(r) /\ queue' = Append(queue, r) /\ reqs' # Answer(r, "request_error")
      <4> DEFINE id == IF Signs(reqs[r].what) THEN jwts[reqs[r].token.module].signing_id ELSE None
                 rev == IF Signs(reqs[r].what) THEN reqs[r].token.module \in revoked
                                               ELSE reqs[r].revoked
      <4>1. reqs' = [reqs EXCEPT ![r] =
                       [reqs[r] EXCEPT !.pc = "queued", !.signing_id = id, !.revoked = rev]]
        BY <1>3, <3>1, Zenon DEF BeginHandler, ReqType
      <4> HIDE DEF id, rev
      <4>2. [reqs[r] EXCEPT !.pc = "queued", !.signing_id = id, !.revoked = rev].pc = "queued"
        BY <1>3, Zenon DEF ReqType
      <4> QED
        BY <4>1, <4>2, Zenon
    <3>2. CASE Acquire(r)
      <4>1. reqs' = [reqs EXCEPT ![r] = [reqs[r] EXCEPT !.pc = "holding"]]
        BY <3>2, Zenon DEF Acquire
      <4>2. [reqs[r] EXCEPT !.pc = "holding"].pc = "holding"
        BY <1>3, Zenon DEF ReqType
      <4> QED
        BY <4>1, <4>2, Zenon
    <3>3. CASE \E ans \in ReqAnswer : reqs' = Answer(r, ans)
      BY <3>3, AnswerOk DEF Inv
    <3>4. CASE Perform(r)
      BY <3>3, <3>4, Zenon DEF Perform, ReqAnswer
    <3>5. CASE BeginHandler(r) /\ reqs' = Answer(r, "request_error")
      BY <3>3, <3>5, Zenon DEF ReqAnswer
    <3>6. BeginHandler(r) => queue' = Append(queue, r) \/ reqs' = Answer(r, "request_error")
      BY Zenon DEF BeginHandler
    <3> QED
      BY <1>5, <3>1, <3>2, <3>4, <3>5, <3>6, Zenon
  <2>2. \A c \in Clients : Pending(c)' \subseteq Pending(c)
    BY <1>3, <2>1, Zenon DEF Pending
  <2> QED
    BY <1>2, <2>2, OtherFail
<1> QED
  BY <1>4, <1>5, SMTT(30)

LEMMA NextFail == Inv /\ Inv' /\ FailInv /\ [Next]_vars => FailInv'
<1> SUFFICES ASSUME Inv, Inv', FailInv, [Next]_vars PROVE FailInv'
  OBVIOUS
<1>1. ASSUME NEW r \in Reqs, NEW c \in Clients, NEW t \in Tokens, NEW w \in Operations,
             Arrive(r, c, t, w)
      PROVE  FailInv'
  BY <1>1, ArriveFail
<1>2. ASSUME NEW r \in Reqs, \/ Authenticate(r) \/ RecordFailure(r) \/ BeginHandler(r)
                             \/ Acquire(r) \/ Perform(r)
      PROVE  FailInv'
  BY <1>2, RecordFailureFail, RequestFail
<1>3. ASSUME reqs' = reqs, \A c \in Clients : failures'[c].count = failures[c].count
      PROVE  FailInv'
  <2>1. \A c \in Clients : Pending(c)' \subseteq Pending(c)
    BY <1>3, SMTT(30) DEF Pending
  <2>2. \A c \in Clients : failures'[c].count <= failures[c].count
    BY <1>3 DEF Inv, TypeOK
  <2> QED
    BY <2>1, <2>2, OtherFail
<1>4. CASE Tick
  <2>1. \A c \in Clients : failures'[c].count = failures[c].count
    BY <1>4, Zenon DEF Tick, Inv, TypeOK
  <2> QED
    BY <1>3, <1>4, <2>1, SMTT(30) DEF Tick
<1>5. CASE UNCHANGED vars
  BY <1>3, <1>5 DEF vars
<1>6. ASSUME NEW a \in Admins, NEW s \in AdminSecrets,
             NEW b \in ReloadRequests \cup {Revoke(m) : m \in Modules}, AdminArrive(a, s, b)
      PROVE  FailInv'
  BY <1>3, <1>6 DEF AdminArrive
<1>7. ASSUME NEW a \in Admins, \/ RevokeModule(a) \/ ReloadConfig(a) \/ ReloadJwts(a)
                               \/ ReloadAdmin(a) \/ ReloadManager(a)
      PROVE  FailInv'
  BY <1>3, <1>7, Zenon DEF RevokeModule, ReloadConfig, ReloadJwts, ReloadAdmin, ReloadManager
<1> QED
  BY <1>1, <1>2, <1>4, <1>5, <1>6, <1>7, Zenon DEF Next

(***************************************************************************)
(* For any limit and any number of concurrent requests, the gap between    *)
(* check_jwt_rate_limit and the recording of a failure lets a client go    *)
(* past jwt_auth_fail_limit by no more than its requests in flight.        *)
(***************************************************************************)
THEOREM FailuresAreBounded == Spec => []FailuresBounded
<1>1. FailInv /\ Inv => FailuresBounded
  <2> SUFFICES ASSUME FailInv, Inv, NEW c \in Clients
               PROVE  failures[c].count < Greater(FailLimit, 1) + Cardinality(Reqs)
    BY SMTT(30) DEF FailuresBounded
  <2>1. failures[c].count \in Nat /\ Greater(FailLimit, 1) \in Nat
    BY SignerAssumption DEF Inv, TypeOK, Greater
  <2>2. Cardinality(Pending(c)) \in Nat /\ Cardinality(Reqs) \in Nat
    BY PendingIsFinite
  <2> QED
    BY <2>1, <2>2 DEF FailInv
<1>2. Spec => []FailInv
  BY InitFail, NextFail, Invariance, PTL DEF Spec
<1> QED
  BY <1>1, <1>2, Invariance, PTL
=============================================================================
