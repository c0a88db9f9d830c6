--------------------------- MODULE Timing_proofs ---------------------------
(***************************************************************************)
(* Proofs about the two callers whose correctness is a matter of time.     *)
(* SignerClient, which renews its token by the clock, for any number of    *)
(* clients, any lifetime, leeway, timeouts and limit that ClientAssumption *)
(* allows, and for unbounded time.  SubmitBlock, whose retries are bounded *)
(* by the back-off, for any relays, timeout and back-off.                  *)
(***************************************************************************)
EXTENDS SignerClient, SubmitBlock, SequenceTheorems, TLAPS

\* The life of a token and the leeway of its check, in ticks.
Life == Expiration * PerSecond
Slack == Leeway * PerSecond

LEMMA Spans ==
  /\ Life \in Nat /\ Slack \in Nat /\ MaxBuild \in Nat /\ DefaultRequestTimeout \in Nat
  /\ DefaultRequestTimeout > 0 /\ MaxBuild <= Slack /\ DefaultRequestTimeout <= Life + Slack
<1>1. (Expiration + Leeway) * PerSecond = Life + Slack
  BY ClientAssumption DEF Life, Slack
<1>2. Life \in Nat /\ Slack \in Nat
  BY ClientAssumption DEF Life, Slack
<1> QED
  BY <1>1, <1>2, ClientAssumption DEF Slack

\* Whole seconds are rounded down.
LEMMA SecondsBounds ==
  ASSUME NEW t \in Nat
  PROVE  /\ Seconds(t) \in Nat
         /\ Seconds(t) * PerSecond <= t /\ t < (Seconds(t) + 1) * PerSecond
  BY ClientAssumption DEF Seconds

(***************************************************************************)
(* A token that the signer takes for expired is older than its life and    *)
(* the leeway together, although both sides round to seconds.              *)
(***************************************************************************)
LEMMA ExpiredIsOld ==
  ASSUME NEW t \in Nat, clock \in Nat, Expired(t)
  PROVE  clock - t > Life + Slack
<1> DEFINE a == Seconds(t)
           b == Seconds(clock)
<1>1. a \in Nat /\ b \in Nat /\ b * PerSecond <= clock /\ t < (a + 1) * PerSecond
  BY SecondsBounds
<1>2. a + Expiration < b - Leeway
  BY DEF Expired, Exp
<1> HIDE DEF a, b
<1>3. b >= (a + 1) + (Expiration + Leeway)
  BY <1>1, <1>2, ClientAssumption
<1>4. b * PerSecond >= ((a + 1) + (Expiration + Leeway)) * PerSecond
  BY <1>1, <1>3, ClientAssumption
<1>5. ((a + 1) + (Expiration + Leeway)) * PerSecond = (a + 1) * PerSecond + (Life + Slack)
  BY <1>1, ClientAssumption DEF Life, Slack
<1>6. (a + 1) * PerSecond \in Nat /\ b * PerSecond \in Nat
  BY <1>1, ClientAssumption
<1> QED
  BY <1>1, <1>4, <1>5, <1>6, Spans

-----------------------------------------------------------------------------
(***************************************************************************)
(* The inductive invariant.                                                *)
(***************************************************************************)
\* last_jwt_refresh is when the token was made, or so long ago that the next
\* request gets a token of its own; a refused client is of the second kind.
HandlesOk ==
  \A h \in Handles :
    /\ handles[h].created <= clock /\ handles[h].build <= MaxBuild
    /\ handles[h].state = "building" => clock - handles[h].created <= MaxBuild
    /\ handles[h].state \in {"ready", "waiting"} =>
         \/ handles[h].refreshed = handles[h].created + handles[h].build
         \/ clock - handles[h].refreshed > Life
    /\ refused[h] # 0 => /\ refused[h] = 1
                         /\ handles[h].state \in {"ready", "waiting"}
                         /\ clock - handles[h].refreshed > Life

\* A token is sent within its life, counted from the end of new.
MessageOk(m) ==
  /\ m.created <= m.sent /\ m.sent <= clock /\ m.build <= MaxBuild
  /\ m.sent <= m.created + m.build + Life

\* What a client waits for is its last request, within its timeout.
AwaitedOk(m) ==
  /\ clock - m.sent <= DefaultRequestTimeout
  /\ m.created = handles[m.handle].created /\ m.build = handles[m.handle].build
  /\ refused[m.handle] # 0 => m.created = m.sent

WireOk ==
  \A m \in wire :
    /\ MessageOk(m)
    /\ Awaited(m) => AwaitedOk(m)
    /\ ~Awaited(m) => clock - m.sent >= DefaultRequestTimeout
    /\ \A o \in wire : m.handle = o.handle /\ Awaited(m) /\ Awaited(o) => m = o

ClientInv == ClientTypeOK /\ HandlesOk /\ WireOk /\ ExpiredOnlyIfLate /\ LockedOutOnlyByLate
LEMMA ClientInitInv == ClientInit => ClientInv
<1> SUFFICES ASSUME ClientInit PROVE ClientInv
  OBVIOUS
<1>1. ClientTypeOK
  BY ClientAssumption DEF ClientInit, ClientTypeOK, NoHandle, NoOutcome, HandleRecord
<1>2. HandlesOk
  BY Spans DEF ClientInit, HandlesOk, NoHandle
<1> QED
  BY <1>1, <1>2 DEF ClientInv, ClientInit, WireOk, ExpiredOnlyIfLate, LockedOutOnlyByLate, NoOutcome

(***************************************************************************)
(* A step that leaves the wire alone and no client waiting that did not    *)
(* wait before changes nothing about who is awaited.                       *)
(***************************************************************************)
LEMMA SameAwaited ==
  ASSUME ClientTypeOK, wire' = wire,
         \A h \in Handles : handles'[h].state = "waiting" <=> handles[h].state = "waiting"
  PROVE  \A m \in wire : Awaited(m)' <=> Awaited(m)
  BY DEF ClientTypeOK, Message, Awaited

\* New, Built and Clone: one client changes, and it does not wait.
LEMMA HandleStep ==
  ASSUME ClientInv, NEW h \in Handles, NEW r \in HandleRecord,
         handles[h].state \notin {"waiting"}, r.state \notin {"waiting"},
         handles' = [handles EXCEPT ![h] = r],
         UNCHANGED <<clock, wire, failures, refused, late, outcome>>,
         HandlesOk'
  PROVE  ClientInv'
<1>0. ClientTypeOK /\ WireOk
  BY DEF ClientInv
<1>1. ClientTypeOK'
  BY <1>0 DEF ClientTypeOK
<1>2. \A k \in Handles : handles'[k].state = "waiting" <=> handles[k].state = "waiting"
  BY <1>0 DEF ClientTypeOK
<1>3. \A m \in wire : Awaited(m)' <=> Awaited(m)
  BY <1>0, <1>2, SameAwaited
<1>4. \A m \in wire : Awaited(m) => handles'[m.handle] = handles[m.handle]
  BY <1>0 DEF ClientTypeOK, Awaited, Message
<1>5. WireOk'
  BY <1>0, <1>3, <1>4 DEF WireOk, MessageOk, AwaitedOk
<1> QED
  BY <1>1, <1>5 DEF ClientInv, ExpiredOnlyIfLate, LockedOutOnlyByLate

LEMMA NewStep ==
  ASSUME ClientInv, NEW h \in Handles, New(h)
  PROVE  ClientInv'
<1> DEFINE r == [NoHandle EXCEPT !.state = "building", !.created = clock]
<1>1. ClientTypeOK /\ HandlesOk
  BY DEF ClientInv
<1>2. r \in HandleRecord /\ r.state = "building" /\ r.created = clock /\ r.build = 0
  BY <1>1, Zenon DEF ClientTypeOK, HandleRecord, NoHandle
<1>3. /\ handles' = [handles EXCEPT ![h] = r] /\ handles[h].state = "none"
      /\ UNCHANGED <<clock, wire, failures, refused, late, outcome>>
  BY DEF New
<1> HIDE DEF r
<1>4. HandlesOk'
  BY <1>1, <1>2, <1>3, Spans DEF ClientTypeOK, HandlesOk, HandleRecord
<1> QED
  BY <1>2, <1>3, <1>4, HandleStep, Zenon

LEMMA BuiltStep ==
  ASSUME ClientInv, NEW h \in Handles, Built(h)
  PROVE  ClientInv'
<1> DEFINE r == [handles[h] EXCEPT !.state = "ready", !.refreshed = clock,
                                   !.build = clock - handles[h].created]
<1>1. ClientTypeOK /\ HandlesOk
  BY DEF ClientInv
<1>2. /\ handles[h] \in HandleRecord /\ handles[h].created <= clock /\ clock \in Nat
      /\ handles[h].state = "building" /\ clock - handles[h].created <= MaxBuild
      /\ refused[h] = 0
  BY <1>1 DEF ClientTypeOK, HandlesOk, Built
<1>3. r \in HandleRecord
  <2>1. clock - handles[h].created \in Nat
    BY <1>2 DEF HandleRecord
  <2> QED
    BY <1>2, <2>1, Zenon DEF HandleRecord
<1>4. handles' = [handles EXCEPT ![h] = r]
  BY DEF Built
<1>5. UNCHANGED <<clock, wire, failures, refused, late, outcome>>
  BY DEF Built
<1>6. r.state = "ready" /\ r.created = handles[h].created /\ r.build = clock - handles[h].created
      /\ r.refreshed = clock
  BY <1>2 DEF HandleRecord
<1> HIDE DEF r
<1>7. HandlesOk'
  BY <1>1, <1>2, <1>3, <1>4, <1>5, <1>6, Spans DEF ClientTypeOK, HandlesOk, HandleRecord
<1> QED
  BY <1>2, <1>3, <1>4, <1>5, <1>6, <1>7, HandleStep, Zenon

LEMMA CloneStep ==
  ASSUME ClientInv, NEW h \in Handles, NEW g \in Handles, Clone(h, g)
  PROVE  ClientInv'
<1>1. ClientTypeOK /\ HandlesOk
  BY DEF ClientInv
<1>2. /\ handles[h] \in HandleRecord /\ handles' = [handles EXCEPT ![g] = handles[h]]
      /\ handles[h].state = "ready" /\ handles[g].state = "none"
      /\ UNCHANGED <<clock, wire, failures, refused, late, outcome>>
  BY <1>1 DEF ClientTypeOK, Clone
<1>3. refused[g] = 0
  BY <1>1, <1>2 DEF HandlesOk
<1>4. HandlesOk'
  BY <1>1, <1>2, <1>3, ZenonT(60) DEF ClientTypeOK, HandlesOk, HandleRecord
<1> QED
  BY <1>2, <1>4, HandleStep, Zenon

LEMMA TickStep ==
  ASSUME ClientInv, ClientTick
  PROVE  ClientInv'
<1>1. ClientTypeOK /\ HandlesOk /\ WireOk
  BY DEF ClientInv
<1>2. ClientTypeOK'
  BY <1>1 DEF ClientTypeOK, ClientTick
<1>3. HandlesOk'
  BY <1>1, Spans DEF ClientTypeOK, HandlesOk, HandleRecord, ClientTick
<1>4. \A m \in wire : Awaited(m)' <=> Awaited(m)
  BY <1>1, SameAwaited DEF ClientTick
<1>5. WireOk'
  BY <1>1, <1>4, Spans DEF ClientTypeOK, Message, WireOk, MessageOk, AwaitedOk, ClientTick
<1> QED
  BY <1>2, <1>3, <1>5 DEF ClientInv, ClientTick, ExpiredOnlyIfLate, LockedOutOnlyByLate

(***************************************************************************)
(* Send.  The client was ready, so none of its earlier requests is still   *)
(* awaited: they are older than the timeout, and the new one is the last.  *)
(***************************************************************************)
LEMMA SendStep ==
  ASSUME ClientInv, NEW h \in Handles, Send(h)
  PROVE  ClientInv'
<1>1. ClientTypeOK /\ HandlesOk /\ WireOk
  BY DEF ClientInv
<1>2. handles[h].state = "ready" /\ UNCHANGED <<clock, failures, refused, late, outcome>>
  BY DEF Send
<1>3. /\ handles[h] \in HandleRecord /\ clock \in Nat
      /\ handles[h].created <= clock /\ handles[h].build <= MaxBuild
      /\ \/ handles[h].refreshed = handles[h].created + handles[h].build
         \/ clock - handles[h].refreshed > Life
      /\ refused[h] # 0 => refused[h] = 1 /\ clock - handles[h].refreshed > Life
  BY <1>1, <1>2 DEF ClientTypeOK, HandlesOk
<1>4. PICK r \in HandleRecord :
        /\ r = RefreshJwt(h) /\ r.state = "waiting" /\ r.refreshed = handles[h].refreshed
        /\ \/ clock - r.refreshed > Life /\ r.created = clock /\ r.build = 0
           \/ /\ clock - r.refreshed <= Life
              /\ r.created = handles[h].created /\ r.build = handles[h].build
  <2> DEFINE J == RefreshJwt(h)
  <2>1. J \in HandleRecord /\ J.state = "waiting" /\ J.refreshed = handles[h].refreshed
    BY <1>3, Zenon DEF RefreshJwt, HandleRecord
  <2>2. CASE clock - handles[h].refreshed > Life
    <3>1. J.created = clock /\ J.build = 0
      BY <1>3, <2>2 DEF RefreshJwt, HandleRecord, Life
    <3> QED
      BY <2>1, <2>2, <3>1
  <2>3. CASE ~(clock - handles[h].refreshed > Life)
    <3>1. J.created = handles[h].created /\ J.build = handles[h].build
      BY <1>3, <2>3 DEF RefreshJwt, HandleRecord, Life
    <3>2. clock - J.refreshed <= Life
      BY <1>3, <2>1, <2>3, Spans DEF HandleRecord
    <3> QED
      BY <2>1, <3>1, <3>2
  <2> QED
    BY <2>2, <2>3
<1>5. PICK n \in Message :
        /\ wire' = wire \cup {n} /\ handles' = [handles EXCEPT ![h] = r]
        /\ n.handle = h /\ n.sent = clock /\ n.created = r.created /\ n.build = r.build
  <2> DEFINE M == [handle |-> h, created |-> r.created, build |-> r.build, sent |-> clock]
  <2>1. M \in Message
    BY <1>3, <1>4 DEF Message, HandleRecord
  <2>2. M.handle = h /\ M.sent = clock /\ M.created = r.created /\ M.build = r.build
    OBVIOUS
  <2>3. wire' = wire \cup {M} /\ handles' = [handles EXCEPT ![h] = r]
    BY <1>4 DEF Send
  <2> HIDE DEF M
  <2> QED
    BY <2>1, <2>2, <2>3
<1>6. ClientTypeOK'
  BY <1>1, <1>2, <1>4, <1>5 DEF ClientTypeOK
<1>7. HandlesOk'
  <2>1. handles \in [Handles -> HandleRecord] /\ handles' = [handles EXCEPT ![h] = r]
    BY <1>1, <1>5, Zenon DEF ClientTypeOK
  <2>2. handles'[h] = r /\ \A k \in Handles : k # h => handles'[k] = handles[k]
    BY <2>1, Zenon
  <2> QED
    BY <1>1, <1>2, <1>3, <1>4, <2>2, Spans DEF HandlesOk, HandleRecord
<1>8. handles'[h] = r /\ \A k \in Handles : k # h => handles'[k] = handles[k]
  BY <1>1, <1>5, Zenon DEF ClientTypeOK
<1>9. \A m \in wire : m.handle = h => m.sent < clock /\ m \in Message
  BY <1>1, <1>2, <1>3, Spans DEF WireOk, Awaited, ClientTypeOK, Message
<1>10. \A m \in wire : m.handle # h => (Awaited(m)' <=> Awaited(m))
  BY <1>1, <1>2, <1>5, <1>8, Zenon DEF Awaited, ClientTypeOK, Message
<1>11. \A m \in wire : m.handle = h => ~Awaited(m) /\ ~Awaited(m)'
  BY <1>1, <1>2, <1>3, <1>5, <1>9 DEF Awaited, Message
<1>12. \A m \in wire : MessageOk(m)'
  BY <1>1, <1>2, Zenon DEF WireOk, MessageOk
<1>13. MessageOk(n)' /\ AwaitedOk(n)'
  <2>1. n.created <= n.sent /\ n.build <= MaxBuild
    BY <1>3, <1>4, <1>5, Spans
  <2>2. n.sent <= n.created + n.build + Life
    BY <1>3, <1>4, <1>5, Spans DEF HandleRecord
  <2>3. refused[h] # 0 => n.created = n.sent
    BY <1>3, <1>4, <1>5, Spans DEF HandleRecord
  <2> QED
    BY <2>1, <2>2, <2>3, <1>2, <1>3, <1>5, <1>8, Spans DEF MessageOk, AwaitedOk
<1>14. \A m \in wire : Awaited(m)' => AwaitedOk(m)'
  BY <1>1, <1>2, <1>8, <1>10, <1>11 DEF WireOk, AwaitedOk, ClientTypeOK, Message
<1>15. \A m \in wire : ~Awaited(m)' => clock' - m.sent >= DefaultRequestTimeout
  BY <1>1, <1>2, <1>10, <1>11, Zenon DEF WireOk
<1>16. Awaited(n)'
  BY <1>2, <1>3, <1>4, <1>5, <1>8, <1>9 DEF Awaited, Message
<1>17. \A m, o \in wire' : m.handle = o.handle /\ Awaited(m)' /\ Awaited(o)' => m = o
  BY <1>1, <1>2, <1>5, <1>10, <1>11, Zenon DEF WireOk
<1>18. WireOk'
  BY <1>5, <1>12, <1>13, <1>14, <1>15, <1>16, <1>17 DEF WireOk
<1> QED
  BY <1>2, <1>6, <1>7, <1>18, Zenon DEF ClientInv, ExpiredOnlyIfLate, LockedOutOnlyByLate

(***************************************************************************)
(* The end of a wait: the client of m is ready again, and m is off the     *)
(* wire, or older than the timeout.                                        *)
(***************************************************************************)
LEMMA EndOfWait ==
  ASSUME ClientInv, NEW m \in wire, Awaited(m), UNCHANGED clock,
         handles' = [handles EXCEPT ![m.handle].state = "ready"],
         \/ wire' = wire \ {m}
         \/ wire' = wire /\ clock - m.sent >= DefaultRequestTimeout,
         refused' \in [Handles -> Nat],
         \A k \in Handles : k # m.handle => refused'[k] = refused[k]
  PROVE  WireOk'
<1>1. ClientTypeOK /\ WireOk /\ m \in Message
  BY Zenon DEF ClientInv, ClientTypeOK
<1> DEFINE h == m.handle
<1>2. /\ h \in Handles /\ handles'[h].state = "ready"
      /\ \A k \in Handles : k # h => handles'[k] = handles[k]
  BY <1>1 DEF ClientTypeOK, Message, HandleRecord
<1>3. \A o \in wire' : o \in wire /\ o \in Message
  BY <1>1, Zenon DEF ClientTypeOK
<1>4. \A o \in wire' : o.handle = h => ~Awaited(o)'
  BY <1>2, Zenon DEF Awaited
<1>5. \A o \in wire' : o.handle # h => (Awaited(o)' <=> Awaited(o))
  BY <1>1, <1>2, <1>3, Zenon DEF Awaited, Message
<1>6. \A o \in wire' : o.handle = h => clock - o.sent >= DefaultRequestTimeout
  BY <1>1, <1>3, Zenon DEF WireOk
<1>7. \A o \in wire' : o.handle # h /\ Awaited(o) => AwaitedOk(o)'
  BY <1>1, <1>2, <1>3, Zenon DEF WireOk, AwaitedOk, Message
<1> QED
  BY <1>1, <1>3, <1>4, <1>5, <1>6, <1>7, Zenon DEF WireOk, MessageOk

LEMMA GiveUpStep ==
  ASSUME ClientInv, NEW h \in Handles, GiveUp(h)
  PROVE  ClientInv'
<1>1. ClientTypeOK /\ HandlesOk /\ WireOk
  BY DEF ClientInv
<1>2. PICK m \in wire :
        /\ m.handle = h /\ Awaited(m) /\ clock - m.sent >= DefaultRequestTimeout
        /\ wire' \in {wire, wire \ {m}}
  BY DEF GiveUp
<1>3. /\ handles' = [handles EXCEPT ![h].state = "ready"] /\ handles[h].state = "waiting"
      /\ UNCHANGED <<clock, failures, refused, late, outcome>>
  BY Zenon DEF GiveUp
<1>4. ClientTypeOK'
  BY <1>1, <1>2, <1>3 DEF ClientTypeOK, HandleRecord, Message
<1>5. HandlesOk'
  BY <1>1, <1>3 DEF ClientTypeOK, HandlesOk, HandleRecord
<1>6. WireOk'
  <2>1. refused' \in [Handles -> Nat] /\ \A k \in Handles : k # m.handle => refused'[k] = refused[k]
    BY <1>1, <1>3, Zenon DEF ClientTypeOK
  <2> QED
    BY <1>2, <1>3, <2>1, EndOfWait, Zenon
<1> QED
  BY <1>3, <1>4, <1>5, <1>6, Zenon DEF ClientInv, ExpiredOnlyIfLate, LockedOutOnlyByLate

(***************************************************************************)
(* A request whose token is refused is late: it was sent within the life   *)
(* of its token after new had ended, and is seen later than life and       *)
(* leeway after the token was made.                                        *)
(***************************************************************************)
LEMMA ExpiredIsLate ==
  ASSUME ClientInv, NEW m \in wire, Expired(m.created)
  PROVE  IsLate(m)
<1>1. m \in Message /\ MessageOk(m) /\ clock \in Nat
  BY Zenon DEF ClientInv, ClientTypeOK, WireOk
<1>2. clock - m.created > Life + Slack
  BY <1>1, ExpiredIsOld, Zenon DEF Message
<1>3. m.build + (clock - m.sent) > Slack
  BY <1>1, <1>2, Spans DEF Message, MessageOk
<1> QED
  BY <1>3 DEF IsLate, Slack

(***************************************************************************)
(* A client whose awaited request is refused had not been refused before:  *)
(* it would have sent a token of its own, which outlives the wait.  And    *)
(* its last_jwt_refresh is more than a life ago.                           *)
(***************************************************************************)
LEMMA FirstRefusal ==
  ASSUME ClientInv, NEW m \in wire, Awaited(m), Expired(m.created)
  PROVE  refused[m.handle] = 0 /\ clock - handles[m.handle].refreshed > Life
<1>1. /\ m \in Message /\ MessageOk(m) /\ AwaitedOk(m) /\ clock \in Nat /\ m.handle \in Handles
      /\ handles[m.handle] \in HandleRecord /\ handles[m.handle].state = "waiting"
  BY Zenon DEF ClientInv, ClientTypeOK, WireOk, Message, Awaited
<1>2. clock - m.created > Life + Slack
  BY <1>1, ExpiredIsOld DEF Message
<1>3. refused[m.handle] = 0
  BY <1>1, <1>2, Spans DEF AwaitedOk, Message
<1>4. \/ handles[m.handle].refreshed = m.created + m.build
      \/ clock - handles[m.handle].refreshed > Life
  BY <1>1 DEF ClientInv, HandlesOk, AwaitedOk
<1> QED
  BY <1>1, <1>2, <1>3, <1>4, Spans DEF Message, MessageOk, HandleRecord

\* What the signer counts and answers.
LEMMA AnswerStep ==
  ASSUME ClientInv, NEW m \in wire, Deliver(m)
  PROVE  /\ failures' \in [count : Nat, last : Nat] /\ late' \in Nat
         /\ outcome' \in [kind : {"none", "ok", "unauthorized", "limited"}, late : BOOLEAN]
         /\ ExpiredOnlyIfLate' /\ LockedOutOnlyByLate'
         /\ outcome'.kind = "unauthorized" => Expired(m.created)
<1>1. /\ clock \in Nat /\ failures \in [count : Nat, last : Nat] /\ late \in Nat
      /\ failures.count <= late /\ FailLimit \in Nat
  BY ClientAssumption DEF ClientInv, ClientTypeOK, LockedOutOnlyByLate
<1>2. Current \in [count : Nat, last : Nat] /\ Current.count <= failures.count
  BY <1>1 DEF Current
<1>3. IsLate(m) \in BOOLEAN
  BY DEF IsLate
<1>4. /\ failures' = IF Limited THEN failures ELSE Fail(m)
      /\ late' = IF IsLate(m) /\ late <= FailLimit THEN late + 1 ELSE late
      /\ outcome' = [kind |-> IF Limited THEN "limited"
                              ELSE IF Expired(m.created) THEN "unauthorized" ELSE "ok",
                     late |-> IsLate(m)]
  BY DEF Deliver
<1>5. Expired(m.created) => IsLate(m)
  BY ExpiredIsLate
<1>6. late' \in Nat /\ late' >= late
  BY <1>1, <1>4
<1>7. CASE Limited
  <2>1. outcome'.kind = "limited" /\ failures' = failures
    BY <1>4, <1>7
  <2>2. late > 0 /\ late >= FailLimit
    BY <1>1, <1>2, <1>7 DEF Limited
  <2> QED
    BY <1>1, <1>3, <1>4, <1>6, <1>7, <2>1, <2>2 DEF ExpiredOnlyIfLate, LockedOutOnlyByLate
<1>8. CASE ~Limited /\ Expired(m.created)
  <2>1. /\ outcome' = [kind |-> "unauthorized", late |-> IsLate(m)] /\ IsLate(m)
        /\ failures' = [count |-> Current.count + 1, last |-> clock]
    BY <1>4, <1>5, <1>8 DEF Fail
  <2>2. Current.count = 0 \/ Current.count < FailLimit
    BY <1>1, <1>2, <1>8 DEF Limited
  <2>3. Current.count + 1 <= late'
    BY <1>1, <1>2, <1>4, <2>1, <2>2
  <2> QED
    BY <1>1, <1>2, <1>3, <1>6, <1>8, <2>1, <2>3 DEF ExpiredOnlyIfLate, LockedOutOnlyByLate
<1>9. CASE ~Limited /\ ~Expired(m.created)
  <2>1. outcome' = [kind |-> "ok", late |-> IsLate(m)] /\ failures' = Current
    BY <1>4, <1>9 DEF Fail
  <2>2. failures'.count <= late'
    BY <1>1, <1>2, <1>6, <2>1
  <2> QED
    BY <1>1, <1>2, <1>3, <1>6, <2>1, <2>2 DEF ExpiredOnlyIfLate, LockedOutOnlyByLate
<1> QED
  BY <1>7, <1>8, <1>9

LEMMA DeliverStep ==
  ASSUME ClientInv, NEW m \in wire, Deliver(m)
  PROVE  ClientInv'
<1>1. ClientTypeOK /\ HandlesOk /\ WireOk /\ m \in Message
  BY DEF ClientInv, ClientTypeOK
<1>2. wire' = wire \ {m} /\ clock' = clock
  BY Zenon DEF Deliver
<1>3. CASE Awaited(m)
  <2>1. /\ handles' = [handles EXCEPT ![m.handle].state = "ready"]
        /\ refused' = [refused EXCEPT ![m.handle] =
                         IF outcome'.kind = "unauthorized" THEN @ + 1 ELSE @]
    BY <1>3 DEF Deliver
  <2>2. refused' \in [Handles -> Nat] /\ \A k \in Handles : k # m.handle => refused'[k] = refused[k]
    <3>1. m.handle \in Handles /\ refused \in [Handles -> Nat]
      BY <1>1 DEF ClientTypeOK, Message
    <3>2. CASE outcome'.kind = "unauthorized"
      BY <2>1, <3>1, <3>2
    <3>3. CASE outcome'.kind # "unauthorized"
      BY <2>1, <3>1, <3>3
    <3> QED
      BY <3>2, <3>3
  <2>3. WireOk'
    BY <1>2, <1>3, <2>1, <2>2, EndOfWait, Zenon
  <2>4. ClientTypeOK'
    BY <1>1, <1>2, <2>1, <2>2, AnswerStep DEF ClientTypeOK, HandleRecord, Message
  <2>5. m.handle \in Handles /\ handles[m.handle].state = "waiting"
    BY <1>1, <1>3 DEF Message, Awaited
  <2>6. \/ refused'[m.handle] = refused[m.handle]
        \/ refused'[m.handle] = 1 /\ clock - handles[m.handle].refreshed > Life
    <3>1. CASE outcome'.kind = "unauthorized"
      <4>1. refused[m.handle] = 0 /\ clock - handles[m.handle].refreshed > Life
        BY <1>3, <3>1, AnswerStep, FirstRefusal
      <4> QED
        BY <1>1, <2>1, <2>5, <3>1, <4>1 DEF ClientTypeOK
    <3>2. CASE outcome'.kind # "unauthorized"
      BY <1>1, <2>1, <2>5, <3>2 DEF ClientTypeOK
    <3> QED
      BY <3>1, <3>2
  <2>7. HandlesOk'
    <3>1. handles \in [Handles -> HandleRecord]
      BY <1>1 DEF ClientTypeOK
    <3>2. /\ \A k \in Handles : k # m.handle => handles'[k] = handles[k]
          /\ handles'[m.handle] = [handles[m.handle] EXCEPT !.state = "ready"]
      BY <2>1, <2>5, <3>1, Zenon
    <3>3. /\ handles'[m.handle].state = "ready"
          /\ handles'[m.handle].created = handles[m.handle].created
          /\ handles'[m.handle].build = handles[m.handle].build
          /\ handles'[m.handle].refreshed = handles[m.handle].refreshed
      BY <2>5, <3>1, <3>2 DEF HandleRecord
    <3> DEFINE Ok(H, R, k) ==
                 /\ H[k].created <= clock /\ H[k].build <= MaxBuild
                 /\ H[k].state = "building" => clock - H[k].created <= MaxBuild
                 /\ H[k].state \in {"ready", "waiting"} =>
                      \/ H[k].refreshed = H[k].created + H[k].build
                      \/ clock - H[k].refreshed > Life
                 /\ R[k] # 0 => /\ R[k] = 1 /\ H[k].state \in {"ready", "waiting"}
                                /\ clock - H[k].refreshed > Life
    <3>4. \A k \in Handles : Ok(handles, refused, k)
      BY <1>1, Zenon DEF HandlesOk
    <3>5. Ok(handles', refused', m.handle)
      BY <2>5, <2>6, <3>3, <3>4
    <3>6. ASSUME NEW k \in Handles, k # m.handle PROVE Ok(handles', refused', k)
      BY <2>2, <3>2, <3>4, <3>6, Zenon
    <3> QED
      BY <1>2, <3>5, <3>6, Zenon DEF HandlesOk
  <2> QED
    BY <2>3, <2>4, <2>7, AnswerStep DEF ClientInv
<1>4. CASE ~Awaited(m)
  <2>1. UNCHANGED <<handles, refused>>
    BY <1>4 DEF Deliver
  <2>2. handles[m.handle].state = "waiting" => \E o \in wire' : o.handle = m.handle /\ o.sent > m.sent
    BY <1>1, <1>2, <1>4 DEF Awaited, ClientTypeOK, Message
  <2>3. \A o \in wire' : Awaited(o)' <=> Awaited(o)
    BY <1>1, <1>2, <2>1, <2>2 DEF Awaited, ClientTypeOK, Message
  <2>4. WireOk'
    BY <1>1, <1>2, <2>1, <2>3, Zenon DEF WireOk, MessageOk, AwaitedOk
  <2>5. ClientTypeOK'
    BY <1>1, <1>2, <2>1, <2>2, AnswerStep DEF ClientTypeOK
  <2>6. HandlesOk'
    BY <1>1, <1>2, <2>1 DEF HandlesOk
  <2> QED
    BY <2>4, <2>5, <2>6, AnswerStep DEF ClientInv
<1> QED
  BY <1>3, <1>4

LEMMA ClientNextInv == ClientInv /\ [ClientNext]_clientVars => ClientInv'
<1> SUFFICES ASSUME ClientInv, [ClientNext]_clientVars PROVE ClientInv'
  OBVIOUS
<1>1. ASSUME NEW h \in Handles, New(h) PROVE ClientInv'
  BY <1>1, NewStep
<1>2. ASSUME NEW h \in Handles, Built(h) PROVE ClientInv'
  BY <1>2, BuiltStep
<1>3. ASSUME NEW h \in Handles, Send(h) PROVE ClientInv'
  BY <1>3, SendStep
<1>4. ASSUME NEW h \in Handles, GiveUp(h) PROVE ClientInv'
  BY <1>4, GiveUpStep
<1>5. ASSUME NEW h \in Handles, NEW g \in Handles, Clone(h, g) PROVE ClientInv'
  BY <1>5, CloneStep
<1>6. ASSUME NEW m \in wire, Deliver(m) PROVE ClientInv'
  BY <1>6, DeliverStep
<1>7. CASE ClientTick
  BY <1>7, TickStep, SMTT(30)
<1>8. CASE UNCHANGED clientVars
  <2>1. ClientTypeOK' /\ HandlesOk'
    BY <1>8, Zenon DEF clientVars, ClientInv, ClientTypeOK, HandlesOk
  <2>2. WireOk'
    BY <1>8, ZenonT(60) DEF clientVars, ClientInv, WireOk, MessageOk, AwaitedOk, Awaited
  <2>3. ExpiredOnlyIfLate' /\ LockedOutOnlyByLate'
    BY <1>8, Zenon DEF clientVars, ClientInv, ExpiredOnlyIfLate, LockedOutOnlyByLate
  <2> QED
    BY <2>1, <2>2, <2>3, Zenon DEF ClientInv
<1> QED
  BY <1>1, <1>2, <1>3, <1>4, <1>5, <1>6, <1>7, <1>8 DEF ClientNext

LEMMA SpecInv == ClientSpec => []ClientInv
  BY ClientInitInv, ClientNextInv, PTL DEF ClientSpec

(***************************************************************************)
(* The clients' tokens, the requests under way and the signer's record of  *)
(* failures keep their types, and a client waits only while its request is *)
(* under way (SignerClient, jwt_auth).                                     *)
(***************************************************************************)
THEOREM ClientTypeCorrect == ClientSpec => []ClientTypeOK
  BY SpecInv, PTL DEF ClientInv

(***************************************************************************)
(* Although refresh_jwt never moves last_jwt_refresh, jwt_auth refuses a   *)
(* token of the client as expired only if new and the way of the request   *)
(* together took longer than the leeway of validate_jwt.                   *)
(***************************************************************************)
THEOREM RefusalsAreLate == ClientSpec => []ExpiredOnlyIfLate
  BY SpecInv, PTL DEF ClientInv

(***************************************************************************)
(* A SignerClient is told at most once in its life that its token is over, *)
(* because every request after the first refusal has a new token.          *)
(***************************************************************************)
THEOREM RefusedOnce == ClientSpec => []RefusedAtMostOnce
<1>1. ClientInv => RefusedAtMostOnce
  <2> SUFFICES ASSUME ClientInv, NEW h \in Handles PROVE refused[h] <= 1
    BY DEF RefusedAtMostOnce
  <2> QED
    BY DEF ClientInv, HandlesOk
<1> QED
  BY SpecInv, <1>1, PTL

(***************************************************************************)
(* check_jwt_rate_limit turns a module with the right secret away only     *)
(* after as many late requests as its limit: tokens that age do not count. *)
(***************************************************************************)
THEOREM LockOutsAreLate == ClientSpec => []LockedOutOnlyByLate
  BY SpecInv, PTL DEF ClientInv

-----------------------------------------------------------------------------
(***************************************************************************)
(* submit_block.                                                           *)
(***************************************************************************)
(***************************************************************************)
(* What holds of a task at every point of the retry loop: the back-off has *)
(* grown by one step per retry, a sleep lasts at least the back-off, and   *)
(* an attempt has what is left of the timeout after the retries' sleeps.   *)
(***************************************************************************)
LoopInv(t) ==
  /\ t \in Task
  /\ t.backoff = (t.retry + 1) * BackoffStep
  /\ t.retry * BackoffStep < Timeout
  /\ t.pc = "sending" => t.remaining > 0 /\ t.remaining + t.retry * BackoffStep <= Timeout
  /\ t.pc = "sleeping" => t.wake >= t.backoff

\* A new task, and a finished one, are in order.
LEMMA FreshTask ==
  /\ LoopInv(NewTask)
  /\ \A v \in {"ok", "failed"} : LoopInv(Finish(v)) /\ Finish(v).pc = v
<1>1. NewTask \in Task
  BY RetryAssumption DEF NewTask, Task, TaskState
<1>2. LoopInv(NewTask)
  BY <1>1, RetryAssumption DEF LoopInv, NewTask
<1>3. ASSUME NEW v \in {"ok", "failed"}
      PROVE  LoopInv(Finish(v)) /\ Finish(v).pc = v
  <2>1. Finish(v) = [pc |-> v, retry |-> 0, backoff |-> BackoffStep,
                     remaining |-> Timeout, elapsed |-> 0, wake |-> 0]
    BY DEF Finish, NewTask
  <2>2. Finish(v) \in Task
    BY <2>1, RetryAssumption DEF Task, TaskState
  <2> QED
    BY <2>1, <2>2, RetryAssumption DEF LoopInv
<1> QED
  BY <1>2, <1>3

\* Time passes: the loop's invariant does not depend on the elapsed time.
LEMMA ElapseKeeps ==
  ASSUME NEW t, LoopInv(t)
  PROVE  LoopInv(Elapse(t)) /\ Elapse(t).pc = t.pc
<1>1. CASE Running(t)
  <2>1. Elapse(t) = [t EXCEPT !.elapsed = t.elapsed + 1]
    BY <1>1 DEF Elapse
  <2>a. t \in Task
    BY DEF LoopInv
  <2>2. Elapse(t) \in Task
    BY <2>1, <2>a DEF Task
  <2> QED
    BY <2>1, <2>2, Zenon DEF LoopInv, Task
<1>2. CASE ~ Running(t)
  BY <1>2 DEF Elapse
<1> QED
  BY <1>1, <1>2

\* An error that is worth a retry sends the task to sleep for the back-off.
LEMMA AfterErrorKeeps ==
  ASSUME NEW t, LoopInv(t), NEW err
  PROVE  LoopInv(AfterError(t, err)) /\ AfterError(t, err).pc \in {"sleeping", "failed"}
<1>1. CASE ShouldRetry(err)
  <2>1. AfterError(t, err) = [t EXCEPT !.pc = "sleeping", !.wake = t.elapsed + t.backoff]
    BY <1>1 DEF AfterError, Sleep
  <2>a. t \in Task
    BY DEF LoopInv
  <2>b. t.elapsed + t.backoff \in Nat /\ "sleeping" \in TaskState
    BY <2>a DEF Task, TaskState
  <2>2. AfterError(t, err) \in Task
    BY <2>1, <2>a, <2>b, Zenon DEF Task
  <2> QED
    BY <2>1, <2>2 DEF LoopInv, Task
<1>2. CASE ~ ShouldRetry(err)
  BY <1>2, FreshTask DEF AfterError
<1> QED
  BY <1>1, <1>2

\* The heart of the bound: a task that wakes up has slept (retry + 1) steps
\* in this iteration alone, and these are taken off the timeout.
LEMMA WakeUpKeeps ==
  ASSUME NEW t, LoopInv(t), t.pc = "sleeping", Due(t)
  PROVE  LoopInv(WakeUp(t)) /\ WakeUp(t).pc \in {"sending", "failed"}
<1> DEFINE left == SaturatingSub(Timeout, t.elapsed)
<1>1. t.retry \in Nat /\ t.elapsed \in Nat /\ t.wake \in Nat /\ t.backoff \in Nat
  BY DEF LoopInv, Task
<1>2. t.elapsed >= (t.retry + 1) * BackoffStep
  BY <1>1 DEF LoopInv, Due
<1>3. CASE left = 0
  BY <1>3, FreshTask DEF WakeUp
<1>4. CASE left # 0
  <2>1. left = Timeout - t.elapsed /\ left > 0 /\ left \in Nat
    BY <1>1, <1>4, RetryAssumption DEF SaturatingSub
  <2>2. left + (t.retry + 1) * BackoffStep <= Timeout
    <3> HIDE DEF left
    <3>1. (t.retry + 1) * BackoffStep \in Nat
      BY <1>1, RetryAssumption
    <3> QED
      BY <1>1, <1>2, <2>1, <3>1, RetryAssumption
  <2>3. t.backoff + BackoffStep = ((t.retry + 1) + 1) * BackoffStep
    BY <1>1, RetryAssumption DEF LoopInv
  <2>4. WakeUp(t) = [t EXCEPT !.pc = "sending", !.retry = t.retry + 1,
                       !.backoff = t.backoff + BackoffStep, !.remaining = left,
                       !.elapsed = 0, !.wake = 0]
    BY <1>4 DEF WakeUp
  <2> HIDE DEF left
  <2>a. t \in Task
    BY DEF LoopInv
  <2>b. /\ t.retry + 1 \in Nat /\ t.backoff + BackoffStep \in Nat
        /\ left \in Nat /\ 0 \in Nat /\ "sending" \in TaskState
    BY <1>1, <2>1, RetryAssumption DEF TaskState
  <2>5. WakeUp(t) \in Task
    BY <2>4, <2>a, <2>b, Zenon DEF Task
  <2>6. /\ WakeUp(t).pc = "sending" /\ WakeUp(t).retry = t.retry + 1
        /\ WakeUp(t).backoff = t.backoff + BackoffStep /\ WakeUp(t).remaining = left
    BY <2>4 DEF LoopInv, Task
  <2>7. (t.retry + 1) * BackoffStep < Timeout
    <3>1. (t.retry + 1) * BackoffStep \in Nat
      BY <1>1, RetryAssumption
    <3> QED
      BY <2>1, <2>2, <3>1, RetryAssumption
  <2> QED
    BY <2>1, <2>2, <2>3, <2>5, <2>6, <2>7 DEF LoopInv
<1> QED
  BY <1>3, <1>4
-----------------------------------------------------------------------------
(***************************************************************************)
(* The inductive invariant: every task is in order, the call is open as    *)
(* long as some task is not failed and none is ok, and what it answers     *)
(* with was checked.                                                       *)
(***************************************************************************)
TasksInv == tasks \in [Relays -> Task] /\ \A r \in Relays : LoopInv(tasks[r])

AnswerInv ==
  /\ resp \in {"pending", "ok", "accepted", "no_payload"}
  /\ resp = "no_payload" <=> AllFailed(tasks)
  /\ "missed_payload" \in events <=> resp = "no_payload"

Inv == TypeOK /\ TasksInv /\ AnswerInv /\ DeliveredMatchesBlock /\ AttemptsInTime

\* What AttemptsInTime says of one task.
InTime(t, time) == Running(t) => time <= t.retry * (Timeout - 1) + t.elapsed

\* Replacing the task of one relay by one in order keeps all in order.
LEMMA ReplaceTask ==
  ASSUME TasksInv, NEW r \in Relays, NEW t, LoopInv(t)
  PROVE  /\ [tasks EXCEPT ![r] = t] \in [Relays -> Task]
         /\ \A q \in Relays : LoopInv([tasks EXCEPT ![r] = t][q])
         /\ [tasks EXCEPT ![r] = t][r] = t
<1>1. t \in Task
  BY DEF LoopInv
<1>2. \A q \in Relays : [tasks EXCEPT ![r] = t][q] = IF q = r THEN t ELSE tasks[q]
  BY DEF TasksInv
<1> QED
  BY <1>1, <1>2 DEF TasksInv

\* A task that is over has no time to keep.
LEMMA FinishedInTime ==
  \A v \in {"ok", "failed"} : InTime(Finish(v), now)
  BY FreshTask DEF InTime, Running

\* The sleep after an error belongs to the iteration of the attempt.
LEMMA AfterErrorInTime ==
  ASSUME NEW t, LoopInv(t), Running(t), InTime(t, now), NEW err
  PROVE  InTime(AfterError(t, err), now)
<1>1. CASE ShouldRetry(err)
  <2>1. AfterError(t, err) = [t EXCEPT !.pc = "sleeping", !.wake = t.elapsed + t.backoff]
    BY <1>1 DEF AfterError, Sleep
  <2>2. AfterError(t, err).retry = t.retry /\ AfterError(t, err).elapsed = t.elapsed
    BY <2>1 DEF LoopInv, Task
  <2> QED
    BY <2>2 DEF InTime
<1>2. CASE ~ ShouldRetry(err)
  BY <1>2, FinishedInTime DEF AfterError
<1> QED
  BY <1>1, <1>2

\* A task goes on only if this iteration took less than the timeout.
LEMMA WakeUpInTime ==
  ASSUME NEW t, LoopInv(t), Running(t), InTime(t, now), now \in Nat
  PROVE  InTime(WakeUp(t), now)
<1> DEFINE left == SaturatingSub(Timeout, t.elapsed)
<1>1. t.retry \in Nat /\ t.elapsed \in Nat
  BY DEF LoopInv, Task
<1>2. CASE left = 0
  BY <1>2, FinishedInTime DEF WakeUp
<1>3. CASE left # 0
  <2>1. t.elapsed <= Timeout - 1
    BY <1>1, <1>3, RetryAssumption DEF SaturatingSub
  <2>2. WakeUp(t) = [t EXCEPT !.pc = "sending", !.retry = t.retry + 1,
                       !.backoff = t.backoff + BackoffStep, !.remaining = left,
                       !.elapsed = 0, !.wake = 0]
    BY <1>3 DEF WakeUp
  <2>3. WakeUp(t).retry = t.retry + 1 /\ WakeUp(t).elapsed = 0
    BY <2>2 DEF LoopInv, Task
  <2>4. now <= t.retry * (Timeout - 1) + t.elapsed
    BY DEF InTime
  <2>5. (t.retry + 1) * (Timeout - 1) = t.retry * (Timeout - 1) + (Timeout - 1)
    BY <1>1, RetryAssumption
  <2>6. t.retry * (Timeout - 1) \in Nat
    BY <1>1, RetryAssumption
  <2>7. now <= (t.retry + 1) * (Timeout - 1) + 0
    BY <1>1, <2>1, <2>4, <2>5, <2>6, RetryAssumption
  <2> QED
    BY <2>3, <2>7 DEF InTime
<1> QED
  BY <1>2, <1>3

\* The end of one future of select_ok in an error, or its going on.
LEMMA SelectErrKeeps ==
  ASSUME Inv, resp = "pending", NEW r \in Relays, NEW t, LoopInv(t), InTime(t, now),
         SelectErr([tasks EXCEPT ![r] = t])
  PROVE  Inv'
<1> DEFINE T == [tasks EXCEPT ![r] = t]
<1>1. T \in [Relays -> Task] /\ \A q \in Relays : LoopInv(T[q])
  BY ReplaceTask DEF Inv
<1>2. /\ tasks' = T /\ api' = api /\ payload' = payload /\ now' = now
      /\ resp' = IF AllFailed(T) THEN "no_payload" ELSE resp
      /\ events' = IF AllFailed(T) THEN events \cup {"missed_payload"} ELSE events
  BY DEF SelectErr
<1> HIDE DEF T
<1>3. TasksInv'
  BY <1>1, <1>2 DEF TasksInv
<1>4. AnswerInv'
  BY <1>2 DEF Inv, AnswerInv, AllFailed
<1>5. TypeOK'
  BY <1>1, <1>2 DEF Inv, TypeOK
<1>6. DeliveredMatchesBlock'
  BY <1>2 DEF Inv, DeliveredMatchesBlock
<1>7. \A q \in Relays : T[q] = IF q = r THEN t ELSE tasks[q]
  BY DEF T, Inv, TasksInv
<1>8. AttemptsInTime'
  BY <1>2, <1>7 DEF Inv, AttemptsInTime, InTime
<1> QED
  BY <1>3, <1>4, <1>5, <1>6, <1>8 DEF Inv

\* The checks on a V1 body establish what the beacon node relies on.
LEMMA ValidBodyMatches ==
  ASSUME NEW body \in Payloads, ValidBody(body)
  PROVE  /\ body.hash = Block.hash
         /\ body.commitments = Block.commitments
         /\ body.blobs = Len(Block.commitments)
         /\ body.proofs = Len(Block.commitments)
<1>1. body.commitments \in Seq(Nat) /\ Block.commitments \in Seq(Nat)
  BY SubmitAssumption DEF PayloadType
<1>2. Len(body.commitments) = Len(Block.commitments)
  BY DEF ValidBody, KzgOk
<1>3. \A i \in 1..Len(Block.commitments) : body.commitments[i] = Block.commitments[i]
  BY DEF ValidBody, KzgOk
<1>4. body.commitments = Block.commitments
  BY <1>1, <1>2, <1>3, SeqEqual, Zenon
<1> QED
  BY <1>4 DEF ValidBody, KzgOk

LEMMA InitInv == Init => Inv
<1> SUFFICES ASSUME Init PROVE Inv
  OBVIOUS
<1>1. TasksInv
  BY FreshTask DEF Init, TasksInv, LoopInv
<1>2. \A r \in Relays : tasks[r].pc = "sending"
  BY DEF Init, NewTask
<1>3. AnswerInv
  BY <1>2, SubmitAssumption DEF Init, AnswerInv, AllFailed
<1>4. TypeOK
  BY <1>1, RetryAssumption DEF Init, TypeOK, TasksInv
<1>5. AttemptsInTime
  BY <1>2, RetryAssumption DEF Init, NewTask, AttemptsInTime
<1> QED
  BY <1>1, <1>3, <1>4, <1>5 DEF Init, Inv, DeliveredMatchesBlock

LEMMA NextInv == Inv /\ [Next]_vars => Inv'
<1> SUFFICES ASSUME Inv, [Next]_vars PROVE Inv'
  OBVIOUS
<1>a. \A r \in Relays : LoopInv(tasks[r])
  BY DEF Inv, TasksInv
<1>b. \A r \in Relays : InTime(tasks[r], now)
  BY DEF Inv, AttemptsInTime, InTime
<1>c. \A r \in Relays : \A t :
        tasks' = [tasks EXCEPT ![r] = t] /\ InTime(t, now) /\ now' = now => AttemptsInTime'
  <2> SUFFICES ASSUME NEW r \in Relays, NEW t, tasks' = [tasks EXCEPT ![r] = t],
                      InTime(t, now), now' = now
               PROVE  AttemptsInTime'
    BY Zenon
  <2>1. \A q \in Relays : tasks'[q] = IF q = r THEN t ELSE tasks[q]
    BY DEF Inv, TasksInv
  <2> QED
    BY <1>b, <2>1 DEF AttemptsInTime, InTime
<1>1. ASSUME NEW r \in Relays, NEW body \in Payloads, RelayBodyV1(r, body)
      PROVE  Inv'
  <2>1. CASE ValidBody(body)
    <3>1. LoopInv(Finish("ok")) /\ Finish("ok").pc = "ok"
      BY FreshTask
    <3>2. /\ tasks' = [tasks EXCEPT ![r] = Finish("ok")] /\ resp = "pending"
          /\ resp' = "ok" /\ payload' = body /\ api' = api /\ now' = now
          /\ events' = events \cup {"submit_block_response_v1"}
      BY <1>1, <2>1 DEF RelayBodyV1, Sending
    <3>3. TasksInv' /\ tasks'[r] = Finish("ok")
      BY <3>1, <3>2, ReplaceTask DEF Inv, TasksInv
    <3>4. AnswerInv'
      BY <3>1, <3>2, <3>3 DEF Inv, AnswerInv, AllFailed
    <3>5. TypeOK'
      BY <3>2, <3>3 DEF Inv, TypeOK, TasksInv
    <3>6. DeliveredMatchesBlock'
      BY <2>1, <3>2, ValidBodyMatches DEF DeliveredMatchesBlock
    <3>7. AttemptsInTime'
      BY <1>c, <3>2, FinishedInTime, Zenon
    <3> QED
      BY <3>3, <3>4, <3>5, <3>6, <3>7 DEF Inv
  <2>2. CASE ~ ValidBody(body)
    <3> DEFINE t == AfterError(tasks[r], Transport("validation"))
    <3>0. Running(tasks[r])
      BY <1>1 DEF RelayBodyV1, Sending, Running
    <3>1. LoopInv(t) /\ InTime(t, now)
      BY <1>a, <1>b, <3>0, AfterErrorKeeps, AfterErrorInTime
    <3>2. SelectErr([tasks EXCEPT ![r] = t]) /\ resp = "pending"
      BY <1>1, <2>2 DEF RelayBodyV1, Sending
    <3> QED
      BY <3>1, <3>2, SelectErrKeeps
  <2> QED
    BY <2>1, <2>2
<1>2. ASSUME NEW r \in Relays, RelayAcceptV2(r)
      PROVE  Inv'
  <2>1. LoopInv(Finish("ok")) /\ Finish("ok").pc = "ok"
    BY FreshTask
  <2>2. /\ tasks' = [tasks EXCEPT ![r] = Finish("ok")] /\ resp = "pending"
        /\ resp' = "accepted" /\ payload' = payload /\ api' = api /\ now' = now
        /\ events' = events \cup {"submit_block_response_v2"}
    BY <1>2 DEF RelayAcceptV2, Sending
  <2>3. TasksInv' /\ tasks'[r] = Finish("ok")
    BY <2>1, <2>2, ReplaceTask DEF Inv, TasksInv
  <2>4. AnswerInv'
    BY <2>1, <2>2, <2>3 DEF Inv, AnswerInv, AllFailed
  <2>5. TypeOK'
    BY <2>2, <2>3 DEF Inv, TypeOK, TasksInv
  <2>6. AttemptsInTime'
    BY <1>c, <2>2, FinishedInTime, Zenon
  <2> QED
    BY <2>2, <2>3, <2>4, <2>5, <2>6 DEF Inv, DeliveredMatchesBlock
<1>3. ASSUME NEW r \in Relays, NEW err \in RelayErrors, RelayErr(r, err)
      PROVE  Inv'
  <2>0. Running(tasks[r])
    BY <1>3 DEF RelayErr, Sending, Running
  <2>1. LoopInv(AfterError(tasks[r], err)) /\ InTime(AfterError(tasks[r], err), now)
    BY <1>a, <1>b, <2>0, AfterErrorKeeps, AfterErrorInTime
  <2> QED
    BY <1>3, <2>1, SelectErrKeeps DEF RelayErr, Sending
<1>4. ASSUME NEW r \in Relays, RequestTimeout(r)
      PROVE  Inv'
  <2>1. PICK kind \in {"timeout", "read_response"} :
          SelectErr([tasks EXCEPT ![r] = AfterError(tasks[r], Transport(kind))])
    BY <1>4, Zenon DEF RequestTimeout
  <2>0. Running(tasks[r])
    BY <1>4 DEF RequestTimeout, Sending, Running
  <2>2. /\ LoopInv(AfterError(tasks[r], Transport(kind)))
        /\ InTime(AfterError(tasks[r], Transport(kind)), now)
    BY <1>a, <1>b, <2>0, AfterErrorKeeps, AfterErrorInTime
  <2> QED
    BY <1>4, <2>1, <2>2, SelectErrKeeps DEF RequestTimeout, Sending
<1>5. ASSUME NEW r \in Relays, Wake(r)
      PROVE  Inv'
  <2>0. Running(tasks[r]) /\ now \in Nat
    BY <1>5 DEF Wake, Running, Inv, TypeOK
  <2>1. LoopInv(WakeUp(tasks[r])) /\ InTime(WakeUp(tasks[r]), now)
    BY <1>a, <1>b, <1>5, <2>0, WakeUpKeeps, WakeUpInTime DEF Wake
  <2> QED
    BY <1>5, <2>1, SelectErrKeeps DEF Wake
<1>6. CASE Tick
  <2>1. \A r \in Relays : LoopInv(Elapse(tasks[r])) /\ Elapse(tasks[r]).pc = tasks[r].pc
    BY <1>a, ElapseKeeps
  <2>2. /\ tasks' = [r \in Relays |-> Elapse(tasks[r])] /\ now' = now + 1
        /\ api' = api /\ resp' = resp /\ payload' = payload /\ events' = events
    BY <1>6 DEF Tick
  <2>3. TasksInv'
    BY <2>1, <2>2 DEF TasksInv, LoopInv
  <2>4. AnswerInv'
    BY <2>1, <2>2 DEF Inv, AnswerInv, AllFailed
  <2>5. now + 1 \in Nat
    BY DEF Inv, TypeOK
  <2>6. TypeOK'
    BY <2>2, <2>3, <2>5 DEF Inv, TypeOK, TasksInv
  <2>7. ASSUME NEW r \in Relays, Running(Elapse(tasks[r]))
        PROVE  now + 1 <= Elapse(tasks[r]).retry * (Timeout - 1) + Elapse(tasks[r]).elapsed
    <3>1. tasks[r] \in Task /\ Running(tasks[r])
      BY <1>a, <2>1, <2>7 DEF LoopInv, Running
    <3>2. Elapse(tasks[r]) = [tasks[r] EXCEPT !.elapsed = tasks[r].elapsed + 1]
      BY <3>1 DEF Elapse
    <3>3. /\ Elapse(tasks[r]).retry = tasks[r].retry
          /\ Elapse(tasks[r]).elapsed = tasks[r].elapsed + 1
          /\ tasks[r].retry \in Nat /\ tasks[r].elapsed \in Nat
      BY <3>1, <3>2 DEF Task
    <3>4. now <= tasks[r].retry * (Timeout - 1) + tasks[r].elapsed
      BY <1>b, <3>1 DEF InTime
    <3>5. tasks[r].retry * (Timeout - 1) \in Nat
      BY <3>3, RetryAssumption
    <3> QED
      BY <3>3, <3>4, <3>5 DEF Inv, TypeOK
  <2>8. AttemptsInTime'
    BY <2>2, <2>7 DEF AttemptsInTime
  <2> QED
    BY <2>2, <2>3, <2>4, <2>6, <2>8 DEF Inv, DeliveredMatchesBlock
<1>7. CASE UNCHANGED vars
  BY <1>7 DEF vars, Inv, TypeOK, TasksInv, AnswerInv, AllFailed, DeliveredMatchesBlock,
              AttemptsInTime
<1> QED
  BY <1>1, <1>2, <1>3, <1>4, <1>5, <1>6, <1>7 DEF Next

\* The invariant holds in every reachable state.
THEOREM Invariance == Spec => []Inv
  BY InitInv, NextInv, PTL DEF Spec

(***************************************************************************)
(* Every variable of a submit_block call keeps its type; in particular no  *)
(* time left is ever negative (saturating_sub).                            *)
(***************************************************************************)
THEOREM TypeCorrect == Spec => []TypeOK
<1>1. Inv => TypeOK
  BY DEF Inv
<1> QED
  BY <1>1, Invariance, PTL

(***************************************************************************)
(* For any timeout and back-off, the loop without a retry limit makes      *)
(* fewer than Timeout / BackoffStep retries per relay.                     *)
(***************************************************************************)
THEOREM RetriesAreBounded == Spec => []RetriesBounded
<1>1. Inv => RetriesBounded
  BY DEF Inv, TasksInv, LoopInv, RetriesBounded
<1> QED
  BY <1>1, Invariance, PTL

(***************************************************************************)
(* For any timeout and back-off, the k-th retry begins before k timeouts   *)
(* have passed since the call.                                             *)
(***************************************************************************)
THEOREM AttemptsAreInTime == Spec => []AttemptsInTime
<1>1. Inv => AttemptsInTime
  BY DEF Inv
<1> QED
  BY <1>1, Invariance, PTL

(***************************************************************************)
(* For any relays, a payload is reported missed exactly when every relay's *)
(* loop has ended in an error.                                             *)
(***************************************************************************)
THEOREM MissedExactly == Spec => []MissedOnlyIfAllFailed
<1>1. Inv => MissedOnlyIfAllFailed
  BY DEF Inv, AnswerInv, AllFailed, MissedOnlyIfAllFailed
<1> QED
  BY <1>1, Invariance, PTL

(***************************************************************************)
(* For any block and any bodies the relays may send, what a V1 call hands  *)
(* to the beacon node is what the blinded block commits to.                *)
(***************************************************************************)
THEOREM DeliversTheBlock == Spec => []DeliveredMatchesBlock
<1>1. Inv => DeliveredMatchesBlock
  BY DEF Inv
<1> QED
  BY <1>1, Invariance, PTL
=============================================================================
