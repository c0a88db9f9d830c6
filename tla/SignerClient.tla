---------------------------- MODULE SignerClient ----------------------------
(***************************************************************************)
(* The client of commit modules (crates/common/src/commit/client.rs)       *)
(* against the signer's check of its token (jwt_auth in                    *)
(* crates/signer/src/service.rs): the life of a token, its refresh, the    *)
(* leeway of the check and the limit on failures.                          *)
(*                                                                         *)
(* Time is counted in ticks; tokens count in whole seconds.  A client is   *)
(* borrowed mutably by its calls, so it has one request at a time; a       *)
(* module clones it for more.  Secrets are right here: SignerService is    *)
(* about those that are not.                                               *)
(***************************************************************************)
EXTENDS Integers, FiniteSets

CONSTANTS
  Handles,         \* the SignerClients of one module
  PerSecond,       \* ticks in a second
  Expiration,      \* SIGNER_JWT_EXPIRATION, in seconds
  Leeway,          \* leeway of validate_jwt, in seconds
  DefaultRequestTimeout, \* DEFAULT_REQUEST_TIMEOUT, in ticks
  MaxBuild,        \* bound: ticks from create_jwt to Instant::now in new
  FailLimit,       \* jwt_auth_fail_limit
  FailTimeout,     \* jwt_auth_fail_timeout, in ticks
  MaxWire,         \* bound: requests under way
  MaxNow           \* bound: the clock

ASSUME ClientAssumption ==
  /\ PerSecond \in Nat \ {0} /\ Expiration \in Nat /\ Leeway \in Nat
  /\ DefaultRequestTimeout \in Nat \ {0} /\ MaxBuild \in Nat
  /\ FailLimit \in Nat /\ FailTimeout \in Nat
  /\ MaxWire \in Nat \ {0} /\ MaxNow \in Nat
  /\ MaxBuild <= Leeway * PerSecond
  /\ DefaultRequestTimeout <= (Expiration + Leeway) * PerSecond

VARIABLES
  clock,    \* the clock
  handles,  \* handle -> [state, created (its token), build, refreshed]
  wire,     \* requests not yet seen by the signer
  failures, \* jwt_auth_failures of the module: [count, last]
  refused,  \* handle -> how often it was answered 401
  late,     \* requests that needed longer than the leeway, up to FailLimit + 1
  outcome   \* what the signer answered last: [kind, late]

clientVars == <<clock, handles, wire, failures, refused, late, outcome>>

Seconds(t) == t \div PerSecond

NoHandle == [state |-> "none", created |-> 0, build |-> 0, refreshed |-> 0]
NoOutcome == [kind |-> "none", late |-> FALSE]

\* A token made at time t ends Expiration seconds later.
Exp(t) == Seconds(t) + Expiration

(***************************************************************************)
(* jsonwebtoken: the token is refused if its end lies more than the leeway *)
(* in the past.  (decode_jwt checks the same with a larger leeway before.) *)
(***************************************************************************)
ExpiredNoLeeway(t) == Exp(t) < Seconds(clock)

Expired(t) == Exp(t) < Seconds(clock) - Leeway

ClientInit ==
  /\ clock = 0
  /\ handles = [h \in Handles |-> NoHandle]
  /\ wire = {} /\ failures = [count |-> 0, last |-> 0]
  /\ refused = [h \in Handles |-> 0] /\ late = 0 /\ outcome = NoOutcome

-----------------------------------------------------------------------------
\* SignerClient::new makes a token, and notes the time when the client is built.
New(h) ==
  /\ handles[h].state = "none"
  /\ handles' = [handles EXCEPT ![h] = [NoHandle EXCEPT !.state = "building", !.created = clock]]
  /\ UNCHANGED <<clock, wire, failures, refused, late, outcome>>

Built(h) ==
  /\ handles[h].state = "building"
  /\ handles' = [handles EXCEPT ![h] = [@ EXCEPT !.state = "ready", !.refreshed = clock,
                                                !.build = clock - handles[h].created]]
  /\ UNCHANGED <<clock, wire, failures, refused, late, outcome>>

\* A clone has the same token, and the same last_jwt_refresh.
Clone(h, g) ==
  /\ handles[h].state = "ready" /\ handles[g].state = "none"
  /\ handles' = [handles EXCEPT ![g] = handles[h]]
  /\ UNCHANGED <<clock, wire, failures, refused, late, outcome>>

(***************************************************************************)
(* refresh_jwt: a new token once the time since last_jwt_refresh exceeds   *)
(* the expiration.  The code does not move last_jwt_refresh.               *)
(***************************************************************************)
RefreshJwtUnused(h) == [handles[h] EXCEPT !.state = "waiting"]

RefreshJwt(h) ==
  IF clock - handles[h].refreshed > Expiration * PerSecond
  THEN [handles[h] EXCEPT !.state = "waiting", !.created = clock, !.build = 0]
  ELSE [handles[h] EXCEPT !.state = "waiting"]

\* get_pubkeys, request_signature, generate_proxy_key.
Send(h) ==
  /\ handles[h].state = "ready" /\ Cardinality(wire) < MaxWire
  /\ handles' = [handles EXCEPT ![h] = RefreshJwt(h)]
  /\ wire' = wire \cup {[handle |-> h, created |-> RefreshJwt(h).created,
                         build |-> RefreshJwt(h).build, sent |-> clock]}
  /\ UNCHANGED <<clock, failures, refused, late, outcome>>

\* The handle waits for the answer to this request.
Awaited(m) ==
  /\ handles[m.handle].state = "waiting"
  /\ \A o \in wire : o.handle = m.handle => o.sent <= m.sent

\* The client gives up; the signer may still see the request later, or never.
GiveUp(h) ==
  /\ handles[h].state = "waiting"
  /\ \E m \in wire :
       /\ m.handle = h /\ Awaited(m) /\ clock - m.sent >= DefaultRequestTimeout
       /\ wire' \in {wire, wire \ {m}}
  /\ handles' = [handles EXCEPT ![h].state = "ready"]
  /\ UNCHANGED <<clock, failures, refused, late, outcome>>

-----------------------------------------------------------------------------
(***************************************************************************)
(* jwt_auth: an old record of failures is dropped; a client at the limit   *)
(* is turned away; a token that has expired counts as a failure.           *)
(***************************************************************************)
Current == IF clock - failures.last > FailTimeout THEN [count |-> 0, last |-> clock] ELSE failures

Limited == Current.count > 0 /\ Current.count >= FailLimit

FailCountingAll(m) == [count |-> Current.count + 1, last |-> clock]

Fail(m) ==
  IF Expired(m.created) THEN [count |-> Current.count + 1, last |-> clock] ELSE Current

IsLate(m) == m.build + (clock - m.sent) > Leeway * PerSecond

Deliver(m) ==
  /\ m \in wire
  /\ wire' = wire \ {m}
  /\ failures' = IF Limited THEN failures ELSE Fail(m)
  /\ outcome' = [kind |-> IF Limited THEN "limited"
                          ELSE IF Expired(m.created) THEN "unauthorized" ELSE "ok",
                 late |-> IsLate(m)]
  /\ late' = IF IsLate(m) /\ late <= FailLimit THEN late + 1 ELSE late
  /\ IF Awaited(m)
     THEN /\ handles' = [handles EXCEPT ![m.handle].state = "ready"]
          /\ refused' = [refused EXCEPT ![m.handle] =
                           IF outcome'.kind = "unauthorized" THEN @ + 1 ELSE @]
     ELSE UNCHANGED <<handles, refused>>
  /\ UNCHANGED clock

\* Time passes; a client that is building and a request at its timeout do not wait.
ClientTick ==
  /\ clock < MaxNow
  /\ \A h \in Handles : handles[h].state = "building" => clock - handles[h].created < MaxBuild
  /\ \A m \in wire : Awaited(m) => clock - m.sent < DefaultRequestTimeout
  /\ clock' = clock + 1
  /\ UNCHANGED <<handles, wire, failures, refused, late, outcome>>

ClientNext ==
  \/ \E h \in Handles : New(h) \/ Built(h) \/ Send(h) \/ GiveUp(h)
  \/ \E h, g \in Handles : Clone(h, g)
  \/ \E m \in wire : Deliver(m)
  \/ ClientTick

ClientSpec == ClientInit /\ [][ClientNext]_clientVars

-----------------------------------------------------------------------------
HandleRecord ==
  [state : {"none", "building", "ready", "waiting"}, created : Nat, build : Nat, refreshed : Nat]
Message == [handle : Handles, created : Nat, build : Nat, sent : Nat]

ClientTypeOK ==
  /\ clock \in Nat
  /\ handles \in [Handles -> HandleRecord]
  /\ wire \subseteq Message
  /\ \A h \in Handles : handles[h].state = "waiting" => \E m \in wire : m.handle = h
  /\ failures \in [count : Nat, last : Nat] /\ late \in Nat
  /\ refused \in [Handles -> Nat]
  /\ outcome \in [kind : {"none", "ok", "unauthorized", "limited"}, late : BOOLEAN]

(***************************************************************************)
(* The client renews its token only when it may be over, and never notes   *)
(* that it did.  Still no request is refused for its token unless making   *)
(* the client and the way of the request together took longer than the     *)
(* leeway of the check.                                                    *)
(***************************************************************************)
ExpiredOnlyIfLate == outcome.kind = "unauthorized" => outcome.late

(***************************************************************************)
(* last_jwt_refresh is never updated, so after the first refusal every     *)
(* request of a client has a token of its own: a client is told at most    *)
(* once that its token is over.                                            *)
(***************************************************************************)
RefusedAtMostOnce == \A h \in Handles : refused[h] <= 1

(***************************************************************************)
(* The signer's limit on failures is not reached by a module whose tokens  *)
(* merely age: what it counts are requests that came late.                 *)
(***************************************************************************)
LockedOutOnlyByLate ==
  /\ failures.count <= late
  /\ outcome.kind = "limited" => late > 0 /\ late >= FailLimit
=============================================================================
