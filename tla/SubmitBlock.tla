---------------------------- MODULE SubmitBlock ----------------------------
(***************************************************************************)
(* One call of submit_block (crates/pbs/src/mev_boost): the signed blinded *)
(* block goes to every relay at once, each through the retry loop, and     *)
(* select_ok answers with the first success and drops the other futures.   *)
(***************************************************************************)
EXTENDS RetryLoop, Sequences

CONSTANTS
  Relays,         \* all_relays() of the state the request runs on, never empty
  Block,          \* the blinded block: [hash, commitments]
  Payloads,       \* bodies a relay may send: [hash, blobs, commitments, proofs]
  RelayErrors     \* errors a relay may answer an attempt with

PayloadType == [hash : STRING, blobs : Nat, commitments : Seq(Nat), proofs : Nat]

ASSUME SubmitAssumption ==
  /\ Relays # {}
  /\ Block.commitments \in Seq(Nat)
  /\ Payloads \subseteq PayloadType
  /\ RelayErrors \subseteq PbsError

VARIABLES
  api,        \* the BuilderApiVersion of the route: "V1" or "V2"
  tasks,      \* relay -> its retry loop
  resp,       \* "pending", "ok", "accepted" or "no_payload"
  payload,    \* the body handed to the beacon node, or NoBody
  events,     \* BuilderEvents published after the request event
  now         \* time since the call began

vars == <<api, tasks, resp, payload, events, now>>

NoBody == [hash |-> "none", blobs |-> 0, commitments |-> <<>>, proofs |-> 0]

Init ==
  /\ api \in {"V1", "V2"}
  /\ tasks = [r \in Relays |-> NewTask]
  /\ resp = "pending" /\ payload = NoBody /\ events = {}
  /\ now = 0

(***************************************************************************)
(* validate_unblinded_block_electra and the block-hash check before it.    *)
(***************************************************************************)
KzgLengthOnly(body) ==
  LET n == Len(Block.commitments)
  IN  /\ n = body.blobs /\ n = Len(body.commitments) /\ n = body.proofs

KzgOk(body) ==
  LET n == Len(Block.commitments)
  IN  /\ n = body.blobs /\ n = Len(body.commitments) /\ n = body.proofs
      /\ \A i \in 1..n : Block.commitments[i] = body.commitments[i]

ValidBody(body) == body.hash = Block.hash /\ KzgOk(body)

(***************************************************************************)
(* select_ok: an Ok ends the call at once; an Err removes its future, and  *)
(* the last Err becomes the error of the call.                             *)
(***************************************************************************)
FirstErrorEnds(t) == \E r \in Relays : t[r].pc = "failed"

AllFailedRetried(t) == \A r \in Relays : t[r].pc = "failed" /\ t[r].retry > 0

AllFailed(t) == \A r \in Relays : t[r].pc = "failed"

SelectErr(t) ==
  /\ tasks' = t
  /\ resp' = IF AllFailed(t) THEN "no_payload" ELSE resp
  /\ events' = IF AllFailed(t) THEN events \cup {"missed_payload"} ELSE events
  /\ UNCHANGED <<api, payload, now>>

AfterError(t, err) == IF ShouldRetry(err) THEN Sleep(t) ELSE Finish("failed")

Sending(r) == resp = "pending" /\ tasks[r].pc = "sending"

RelayBodyV1(r, body) ==
  /\ Sending(r) /\ api = "V1"
  /\ IF ValidBody(body)
     THEN /\ tasks' = [tasks EXCEPT ![r] = Finish("ok")]
          /\ resp' = "ok" /\ payload' = body
          /\ events' = events \cup {"submit_block_response_v1"}
          /\ UNCHANGED <<api, now>>
     ELSE SelectErr([tasks EXCEPT ![r] = AfterError(@, Transport("validation"))])

\* The body of a V2 answer is not looked at.
RelayAcceptV2(r) ==
  /\ Sending(r) /\ api = "V2"
  /\ tasks' = [tasks EXCEPT ![r] = Finish("ok")]
  /\ resp' = "accepted"
  /\ events' = events \cup {"submit_block_response_v2"}
  /\ UNCHANGED <<api, payload, now>>

RelayErr(r, err) ==
  /\ Sending(r)
  /\ SelectErr([tasks EXCEPT ![r] = AfterError(@, err)])

\* The client timeout fires before, or after, the status line has arrived.
RequestTimeout(r) ==
  /\ Sending(r) /\ Due(tasks[r])
  /\ \E kind \in {"timeout", "read_response"} :
       SelectErr([tasks EXCEPT ![r] = AfterError(@, Transport(kind))])

Wake(r) ==
  /\ resp = "pending" /\ tasks[r].pc = "sleeping" /\ Due(tasks[r])
  /\ SelectErr([tasks EXCEPT ![r] = WakeUp(@)])

Tick ==
  /\ resp = "pending"
  /\ \E r \in Relays : Running(tasks[r])
  /\ \A r \in Relays : ~ Due(tasks[r])
  /\ tasks' = [r \in Relays |-> Elapse(tasks[r])]
  /\ now' = now + 1
  /\ UNCHANGED <<api, resp, payload, events>>

Next ==
  \/ \E r \in Relays :
       \/ \E body \in Payloads : RelayBodyV1(r, body)
       \/ RelayAcceptV2(r)
       \/ \E err \in RelayErrors : RelayErr(r, err)
       \/ RequestTimeout(r)
       \/ Wake(r)
  \/ Tick
  \/ resp # "pending" /\ UNCHANGED vars

Spec == Init /\ [][Next]_vars

\* The futures are polled and their timers fire; the relays owe nothing.
Fairness ==
  /\ WF_vars(Tick)
  /\ \A r \in Relays : WF_vars(RequestTimeout(r)) /\ WF_vars(Wake(r))

FairSpec == Spec /\ Fairness

-----------------------------------------------------------------------------
TypeOK ==
  /\ api \in {"V1", "V2"}
  /\ tasks \in [Relays -> Task]
  /\ resp \in {"pending", "ok", "accepted", "no_payload"}
  /\ payload \in Payloads \cup {NoBody}
  /\ events \subseteq {"submit_block_response_v1", "submit_block_response_v2",
                       "missed_payload"}
  /\ now \in Nat

(***************************************************************************)
(* A body handed to the beacon node is the one its blinded block commits   *)
(* to, whichever relay was first: same block hash, and one blob and one    *)
(* proof for each commitment of the block, in the block's order.           *)
(***************************************************************************)
DeliveredMatchesBlock ==
  resp = "ok" =>
    /\ payload.hash = Block.hash
    /\ payload.commitments = Block.commitments
    /\ payload.blobs = Len(Block.commitments)
    /\ payload.proofs = Len(Block.commitments)

(***************************************************************************)
(* The MissedPayload event and the 502 occur exactly when the loop of      *)
(* every relay has ended in an error: no relay was still being asked and   *)
(* none had succeeded.                                                     *)
(***************************************************************************)
MissedOnlyIfAllFailed ==
  /\ resp = "no_payload" <=> \A r \in Relays : tasks[r].pc = "failed"
  /\ "missed_payload" \in events <=> resp = "no_payload"

(***************************************************************************)
(* Without a retry limit it is the growing back-off that bounds the loop:  *)
(* a k-th retry is made only if k back-off steps fit into the timeout, and *)
(* its own timeout is what they leave.                                     *)
(***************************************************************************)
RetriesBounded ==
  \A r \in Relays :
    /\ tasks[r].backoff = (tasks[r].retry + 1) * BackoffStep
    /\ tasks[r].retry * BackoffStep < Timeout
    /\ tasks[r].pc = "sending" =>
         /\ tasks[r].remaining > 0
         /\ tasks[r].remaining + tasks[r].retry * BackoffStep <= Timeout

(***************************************************************************)
(* The k-th retry begins before k timeouts have passed since the call: the *)
(* time left is counted from the start of an iteration, not of the call,   *)
(* so the timeout as such is no bound ("retry connection errors until the  *)
(* given timeout has passed"), but an iteration never exceeds it.          *)
(***************************************************************************)
AttemptsInTime ==
  \A r \in Relays :
    Running(tasks[r]) => now <= tasks[r].retry * (Timeout - 1) + tasks[r].elapsed

(***************************************************************************)
(* The beacon node gets its answer although relays may stay silent and     *)
(* nothing but the back-off limits the retries.                            *)
(***************************************************************************)
Answered == <>(resp # "pending")
=============================================================================
