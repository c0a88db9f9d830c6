----------------------------- MODULE RetryLoop -----------------------------
(***************************************************************************)
(* The retry loop that the PBS module runs once per relay (and, for        *)
(* registrations, once per batch): send_register_validator_with_timeout    *)
(* and submit_block_with_timeout share it.  A task is one run of the loop. *)
(* Time is discrete; `elapsed' is start_request.elapsed() of the current   *)
(* iteration, which the code takes anew in every iteration.                *)
(***************************************************************************)
EXTENDS Integers

CONSTANTS
  Timeout,       \* timeout_ms, the configured budget of the endpoint
  BackoffStep    \* the 250 ms that the back-off starts with and grows by

\* PbsConfig::validate refuses a zero timeout; the back-off step is a literal.
ASSUME RetryAssumption ==
  /\ Timeout \in Nat \ {0}
  /\ BackoffStep \in Nat \ {0}

SaturatingSub(a, b) == IF a > b THEN a - b ELSE 0

(***************************************************************************)
(* PbsError, reduced to what should_retry tells apart.                     *)
(***************************************************************************)
Transport(kind) == [kind |-> kind, code |-> 0]
RelayResponse(code) == [kind |-> "relay_response", code |-> code]

TransportKinds == {"timeout", "connect", "read_response", "json_decode", "validation"}
PbsError == [kind : TransportKinds \cup {"relay_response"}, code : Nat]

ShouldRetry(err) ==
  \/ err.kind \in {"timeout", "connect"}
  \/ err.kind = "relay_response" /\ err.code \in 500..508

(***************************************************************************)
(* One run of the loop.                                                    *)
(***************************************************************************)
TaskState == {"sending", "sleeping", "ok", "failed"}

Task == [pc : TaskState, retry : Nat, backoff : Nat, remaining : Nat,
         elapsed : Nat, wake : Nat]

NewTask == [pc |-> "sending", retry |-> 0, backoff |-> BackoffStep,
            remaining |-> Timeout, elapsed |-> 0, wake |-> 0]

Running(t) == t.pc \in {"sending", "sleeping"}
Finished(t) == ~ Running(t)

\* A finished task keeps only its verdict.
Finish(verdict) == [NewTask EXCEPT !.pc = verdict]

Sleep(t) == [t EXCEPT !.pc = "sleeping", !.wake = t.elapsed + t.backoff]

(***************************************************************************)
(* The end of tokio::time::sleep(backoff): the back-off grows, and the     *)
(* time left is computed from this iteration's elapsed time alone.         *)
(***************************************************************************)
WakeRestarting(t) ==
  LET left == SaturatingSub(Timeout, t.elapsed)
  IN  IF left = 0 THEN Finish("failed") ELSE [NewTask EXCEPT !.remaining = left]

WakeSameBudget(t) ==
  [t EXCEPT !.pc = "sending", !.retry = @ + 1, !.backoff = @ + BackoffStep,
            !.elapsed = 0, !.wake = 0]

WakeUp(t) ==
  LET left == SaturatingSub(Timeout, t.elapsed)
  IN  IF left = 0
      THEN Finish("failed")
      ELSE [t EXCEPT !.pc = "sending", !.retry = @ + 1,
                     !.backoff = @ + BackoffStep, !.remaining = left,
                     !.elapsed = 0, !.wake = 0]

\* The timer of a task is due: the client's request timeout, or the sleep.
Due(t) ==
  \/ t.pc = "sending" /\ t.elapsed >= t.remaining
  \/ t.pc = "sleeping" /\ t.elapsed >= t.wake

Elapse(t) == IF Running(t) THEN [t EXCEPT !.elapsed = @ + 1] ELSE t
=============================================================================
