------------------------- MODULE RegisterValidator -------------------------
(***************************************************************************)
(* One call of register_validator (crates/pbs/src/mev_boost): the batch of *)
(* registrations is cut into chunks per relay, one task is spawned per     *)
(* (relay, chunk), and the call answers either when all tasks are finished *)
(* (wait_all_registrations) or when the first one is.  Spawned tasks keep  *)
(* running after the answer.                                               *)
(***************************************************************************)
EXTENDS RetryLoop, FiniteSets

CONSTANTS
  Relays,          \* all_relays() of the state the request runs on
  BatchConfigs,    \* settings of validator_registration_batch_size, by relay
  NoBatch,         \* the option is not set
  RegCounts,       \* numbers of registrations a beacon node may send
  WaitAllSettings, \* settings of wait_all_registrations
  RetryLimit,      \* register_validator_retry_limit
  RelayAnswers     \* what a relay may answer to one attempt: "ok" or a PbsError

ASSUME RegisterAssumption ==
  /\ IsFiniteSet(Relays)
  /\ NoBatch \notin Nat
  /\ BatchConfigs \subseteq [Relays -> Nat \cup {NoBatch}]
  /\ RegCounts \subseteq Nat
  /\ WaitAllSettings \subseteq BOOLEAN
  /\ RetryLimit \in Nat \ {0}
  /\ RelayAnswers \subseteq [ok : {TRUE}] \cup [err : PbsError]

VARIABLES
  waitAll,   \* wait_all_registrations
  batchSize, \* relay -> its batch size, or NoBatch
  regs,      \* number of registrations of the call
  tasks,     \* <<relay, batch index>> -> the task's loop state
  resp       \* "pending", or what handle_register_validator answers

registerVars == <<waitAll, batchSize, regs, tasks, resp>>

(***************************************************************************)
(* slice::chunks: consecutive pieces of batch_size, the last may be short. *)
(***************************************************************************)
ChunksDropLast(size, n) ==
  IF size = NoBatch
  THEN {<<1, n>>}
  ELSE {<<(i - 1) * size + 1, i * size>> : i \in 1..(n \div size)}

Chunks(size, n) ==
  IF size = NoBatch
  THEN {<<1, n>>}
  ELSE {<<lo, IF lo + size - 1 < n THEN lo + size - 1 ELSE n>> :
          lo \in {k \in 1..n : (k - 1) % size = 0}}

TaskIds(relays, sizes, n) == UNION {{<<r, c>> : c \in Chunks(sizes[r], n)} : r \in relays}

\* chunks(0) panics.
Panics(sizes) == {r \in Relays : sizes[r] = 0}

(***************************************************************************)
(* The loop that spawns the tasks.  A panic ends the handler, but not the  *)
(* tasks of the relays before.                                             *)
(***************************************************************************)
RegisterInit ==
  /\ waitAll \in WaitAllSettings
  /\ batchSize \in BatchConfigs
  /\ regs \in RegCounts
  /\ \E asked \in SUBSET (Relays \ Panics(batchSize)) :
       /\ Panics(batchSize) = {} => asked = Relays
       /\ tasks = [id \in TaskIds(asked, batchSize, regs) |-> NewTask]
  /\ resp = IF Panics(batchSize) = {} THEN "pending" ELSE "panic"

(***************************************************************************)
(* The result of one attempt: success, an error worth another attempt, or  *)
(* any other error.                                                        *)
(***************************************************************************)
AfterErrorOffByOne(t, err) ==
  IF ShouldRetry(err) /\ t.retry < RetryLimit
  THEN Sleep(t)
  ELSE Finish("failed")

AfterError(t, err) ==
  IF ShouldRetry(err) /\ t.retry + 1 < RetryLimit
  THEN Sleep(t)
  ELSE Finish("failed")

RelayOk(id) ==
  /\ tasks[id].pc = "sending"
  /\ [ok |-> TRUE] \in RelayAnswers
  /\ tasks' = [tasks EXCEPT ![id] = Finish("ok")]
  /\ UNCHANGED <<waitAll, batchSize, regs, resp>>

RelayErr(id, err) ==
  /\ tasks[id].pc = "sending"
  /\ [err |-> err] \in RelayAnswers
  /\ tasks' = [tasks EXCEPT ![id] = AfterError(@, err)]
  /\ UNCHANGED <<waitAll, batchSize, regs, resp>>

(***************************************************************************)
(* The client's timeout fires.  While waiting for the status line that is  *)
(* a reqwest timeout; while reading the body of an error answer it is a    *)
(* ReadResponse error.                                                     *)
(***************************************************************************)
RequestTimeout(id) ==
  /\ tasks[id].pc = "sending" /\ Due(tasks[id])
  /\ \E kind \in {"timeout", "read_response"} :
       tasks' = [tasks EXCEPT ![id] = AfterError(@, Transport(kind))]
  /\ UNCHANGED <<waitAll, batchSize, regs, resp>>

Wake(id) ==
  /\ tasks[id].pc = "sleeping" /\ Due(tasks[id])
  /\ tasks' = [tasks EXCEPT ![id] = WakeUp(@)]
  /\ UNCHANGED <<waitAll, batchSize, regs, resp>>

\* Time passes for every running task; a timer that is due fires first.
Tick ==
  /\ \E id \in DOMAIN tasks : Running(tasks[id])
  /\ \A id \in DOMAIN tasks : ~ Due(tasks[id])
  /\ tasks' = [id \in DOMAIN tasks |-> Elapse(tasks[id])]
  /\ UNCHANGED <<waitAll, batchSize, regs, resp>>

(***************************************************************************)
(* The answer.  select_ok runs over JoinHandles, whose own result is Ok    *)
(* for every task that did not panic, so the first finished task decides,  *)
(* whatever its verdict; with no handle at all it panics.                  *)
(***************************************************************************)
RespondAllEarly ==
  /\ waitAll /\ resp = "pending"
  /\ DOMAIN tasks = {} \/ \E id \in DOMAIN tasks : Finished(tasks[id])
  /\ resp' = IF \E id \in DOMAIN tasks : tasks[id].pc = "ok"
             THEN "ok" ELSE "no_response"
  /\ UNCHANGED <<waitAll, batchSize, regs, tasks>>

RespondAll ==
  /\ waitAll /\ resp = "pending"
  /\ \A id \in DOMAIN tasks : Finished(tasks[id])
  /\ resp' = IF \E id \in DOMAIN tasks : tasks[id].pc = "ok"
             THEN "ok" ELSE "no_response"
  /\ UNCHANGED <<waitAll, batchSize, regs, tasks>>

RespondFirst ==
  /\ ~ waitAll /\ resp = "pending"
  /\ \E id \in DOMAIN tasks :
       /\ Finished(tasks[id])
       /\ resp' = IF tasks[id].pc = "ok" THEN "ok" ELSE "no_response"
  /\ UNCHANGED <<waitAll, batchSize, regs, tasks>>

RespondPanic ==
  /\ ~ waitAll /\ resp = "pending"
  /\ DOMAIN tasks = {}
  /\ resp' = "panic"
  /\ UNCHANGED <<waitAll, batchSize, regs, tasks>>

Done == resp # "pending" /\ \A id \in DOMAIN tasks : Finished(tasks[id])

RegisterNext ==
  \/ \E id \in DOMAIN tasks :
       \/ RelayOk(id)
       \/ \E err \in {a.err : a \in RelayAnswers \ {[ok |-> TRUE]}} : RelayErr(id, err)
       \/ RequestTimeout(id)
       \/ Wake(id)
  \/ Tick
  \/ RespondAll
  \/ RespondFirst
  \/ RespondPanic
  \/ Done /\ UNCHANGED registerVars

RegisterSpec == RegisterInit /\ [][RegisterNext]_registerVars

(***************************************************************************)
(* The runtime polls every spawned task and its timers; no fairness is     *)
(* assumed of the relays.                                                  *)
(***************************************************************************)
AllIds == UNION {TaskIds(Relays \ Panics(sizes), sizes, n) : sizes \in BatchConfigs, n \in RegCounts}

RegisterFairness ==
  /\ WF_registerVars(Tick)
  /\ WF_registerVars(RespondAll) /\ WF_registerVars(RespondFirst) /\ WF_registerVars(RespondPanic)
  /\ \A id \in AllIds :
       /\ WF_registerVars(id \in DOMAIN tasks /\ RequestTimeout(id))
       /\ WF_registerVars(id \in DOMAIN tasks /\ Wake(id))

RegisterFairSpec == RegisterSpec /\ RegisterFairness

-----------------------------------------------------------------------------
RegisterTypeOK ==
  /\ waitAll \in WaitAllSettings
  /\ batchSize \in BatchConfigs
  /\ regs \in RegCounts
  /\ DOMAIN tasks \subseteq TaskIds(Relays \ Panics(batchSize), batchSize, regs)
  /\ \A id \in DOMAIN tasks : tasks[id] \in Task
  /\ resp \in {"pending", "ok", "no_response", "panic"}

(***************************************************************************)
(* The registrations one relay is sent are all of those of the call, each  *)
(* in exactly one chunk (registrations.chunks(batch_size)); only a panic   *)
(* of the call leaves relays out.                                          *)
(***************************************************************************)
ChunksPartition ==
  \A r \in Relays :
    (resp # "panic" \/ \E id \in DOMAIN tasks : id[1] = r) => \A k \in 1..regs :
      Cardinality({id \in DOMAIN tasks : id[1] = r /\ k \in id[2][1]..id[2][2]}) = 1

(***************************************************************************)
(* Every attempt is one of at most register_validator_retry_limit, and     *)
(* starts with a strictly positive timeout that already discounts the      *)
(* back-off slept before it: the k-th retry has waited k back-off steps.   *)
(***************************************************************************)
AttemptsBounded ==
  \A id \in DOMAIN tasks :
    LET t == tasks[id]
    IN  /\ t.retry < RetryLimit
        /\ t.pc = "sending" =>
             /\ t.remaining > 0
             /\ t.remaining + t.retry * BackoffStep <= Timeout

(***************************************************************************)
(* With wait_all_registrations the 200 of register_validator means that    *)
(* some relay took a registration, and the error answer that none took any *)
(* (doc comment: "Returns 200 if at least one relay returns 200").         *)
(***************************************************************************)
WaitAllAnswer ==
  waitAll =>
    /\ resp = "ok" => \E id \in DOMAIN tasks : tasks[id].pc = "ok"
    /\ resp = "no_response" => \A id \in DOMAIN tasks : tasks[id].pc = "failed"

(***************************************************************************)
(* The call is answered and every spawned task, also those left running in *)
(* the background after an early answer or a panic, comes to an end.       *)
(***************************************************************************)
EverythingFinishes ==
  <>(resp # "pending" /\ \A id \in DOMAIN tasks : Finished(tasks[id]))
=============================================================================
