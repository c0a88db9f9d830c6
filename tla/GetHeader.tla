----------------------------- MODULE GetHeader -----------------------------
(***************************************************************************)
(* One call of get_header (crates/pbs/src/mev_boost/get_header.rs): the    *)
(* relays are asked concurrently, some of them several times ("timing      *)
(* games"), the parent block is fetched in the background for extra        *)
(* validation, and the most valuable bid is the answer.  Time counts       *)
(* milliseconds (in a coarse unit) since the call began.                   *)
(***************************************************************************)
EXTENDS HeaderValidation, Sequences

CONSTANTS
  NRelays,          \* number of relays of the validator's mux, or default ones
  RelayConfig,      \* relay -> [timing_games, target, frequency]
  Unset,            \* target or frequency is None
  TimeoutGetHeader, \* timeout_get_header_ms
  LateInSlot,       \* late_in_slot_time_ms
  StartTimes,       \* values of ms_into_slot at which a call may come
  Headers,          \* headers a relay may send
  ExtraValidationEnabled

Relays == 1..NRelays

Option(S) == S \cup {Unset}

\* PbsConfig::validate.
ASSUME GetHeaderAssumption ==
  /\ NRelays \in Nat
  /\ Unset \notin Nat
  /\ RelayConfig \in [Relays -> [timing_games : BOOLEAN, target : Option(Nat),
                                 frequency : Option(Nat)]]
  /\ TimeoutGetHeader \in Nat \ {0}
  /\ LateInSlot \in Nat \ {0}
  /\ TimeoutGetHeader < LateInSlot
  /\ StartTimes \subseteq Nat
  /\ Headers \subseteq HeaderType
  /\ ExtraValidationEnabled \in BOOLEAN
  /\ RelayPubkey \in [Relays -> STRING]
  /\ ParentBlock \in [number : Nat, gas_limit : Nat]

VARIABLES
  ms,      \* ms_into_slot when the call came
  now,     \* time since then
  fetch,   \* fetch_parent_block: "off", "pending", "found" or "missing"
  tasks,   \* relay -> send_timed_get_header: [pc, left, wake]
  reqs,    \* relay -> its requests, in the order they were sent
  bids,    \* relay -> the header its task returned, or NoHeader
  resp,    \* "new", "pending", "header" or "no_content"
  best     \* the header of the answer

vars == <<ms, now, fetch, tasks, reqs, bids, resp, best>>

NoHeader ==
  [block_hash |-> ZeroHash, parent_hash |-> "none", tx_root |-> EmptyTxRoot,
   value |-> 0, timestamp |-> 0, pubkey |-> "none", signer |-> "none",
   number |-> 0, gas_limit |-> 0]

Sub(a, b) == IF a > b THEN a - b ELSE 0
Lesser(a, b) == IF a < b THEN a ELSE b

MaxTimeoutNoLateness == TimeoutGetHeader

MaxTimeout == Lesser(TimeoutGetHeader, Sub(LateInSlot, ms))

(***************************************************************************)
(* Timing games: the wait before the first request, and what is left of    *)
(* the timeout after it.                                                   *)
(***************************************************************************)
Delay(r) ==
  LET c == RelayConfig[r]
  IN  IF c.timing_games /\ c.target # Unset THEN Sub(c.target, ms) ELSE 0

Repeats(r) == RelayConfig[r].timing_games /\ RelayConfig[r].frequency # Unset

NewTask(r) == [pc |-> "waiting", left |-> Sub(MaxTimeout, Delay(r)), wake |-> Delay(r)]

Init ==
  /\ ms \in StartTimes
  /\ now = 0
  /\ fetch = IF ExtraValidationEnabled THEN "pending" ELSE "off"
  /\ tasks = [r \in Relays |-> NewTask(r)]
  /\ reqs = [r \in Relays |-> <<>>]
  /\ bids = [r \in Relays |-> NoHeader]
  /\ resp = "new" /\ best = NoHeader

\* A call late in the slot is answered at once; otherwise the relays are asked.
Start ==
  /\ resp = "new"
  /\ resp' = IF MaxTimeout = 0 THEN "no_content" ELSE "pending"
  /\ UNCHANGED <<ms, now, fetch, tasks, reqs, bids, best>>

(***************************************************************************)
(* fetch_parent_block may end at any time, or never.                       *)
(***************************************************************************)
FetchParentBlock ==
  /\ fetch = "pending"
  /\ fetch' \in {"found", "missing"}
  /\ UNCHANGED <<ms, now, tasks, reqs, bids, resp, best>>

(***************************************************************************)
(* One turn of the sending loop, or the only request of a relay that is    *)
(* asked once.                                                             *)
(***************************************************************************)
Request(r) ==
  [start |-> now, deadline |-> now + tasks[r].left, st |-> "inflight",
   header |-> NoHeader, checked |-> FALSE]

AfterSendNoDeduction(r) ==
  LET t == tasks[r] IN
  IF Repeats(r) /\ t.left > RelayConfig[r].frequency
  THEN [t EXCEPT !.wake = now + RelayConfig[r].frequency]
  ELSE [t EXCEPT !.pc = "joining", !.wake = 0]

AfterSend(r) ==
  LET t == tasks[r] IN
  IF Repeats(r) /\ t.left > RelayConfig[r].frequency
  THEN [t EXCEPT !.left = @ - RelayConfig[r].frequency,
                 !.wake = now + RelayConfig[r].frequency]
  ELSE [t EXCEPT !.pc = "joining", !.wake = 0]

SendDue(r) == tasks[r].pc = "waiting" /\ tasks[r].wake <= now

(***************************************************************************)
(* With frequency 0 the loop takes nothing off the time left and does not  *)
(* end; it goes on while time passes.                                      *)
(***************************************************************************)
Endless(r) == Repeats(r) /\ RelayConfig[r].frequency = 0 /\ Sub(MaxTimeout, Delay(r)) > 0

Resends(r) == Endless(r) /\ reqs[r] # <<>>

SendRequest(r) ==
  /\ resp = "pending" /\ SendDue(r)
  /\ reqs' = [reqs EXCEPT ![r] = Append(@, Request(r))]
  /\ tasks' = [tasks EXCEPT ![r] = AfterSend(r)]
  /\ UNCHANGED <<ms, now, fetch, bids, resp, best>>

InFlight(r, i) == i \in DOMAIN reqs[r] /\ reqs[r][i].st = "inflight"

Settle(r, i, st, h, checked) ==
  /\ reqs' = [reqs EXCEPT ![r][i].st = st, ![r][i].header = h, ![r][i].checked = checked]
  /\ UNCHANGED <<ms, now, fetch, tasks, bids, resp, best>>

(***************************************************************************)
(* send_one_get_header receives a 200 with a header: the extra validation  *)
(* runs against the parent block only if that has been found by now.       *)
(***************************************************************************)
ReceiveUnchecked(r, i, h) ==
  /\ InFlight(r, i) /\ reqs[r][i].start < reqs[r][i].deadline
  /\ IF ValidateHeaderData(h) /\ (fetch = "found" => ExtraValidation(ParentBlock, h))
     THEN Settle(r, i, "header", h, fetch = "found")
     ELSE Settle(r, i, "err", NoHeader, FALSE)

ReceiveHeader(r, i, h) ==
  /\ InFlight(r, i) /\ reqs[r][i].start < reqs[r][i].deadline
  /\ IF Accepts(r, h) /\ (fetch = "found" => ExtraValidation(ParentBlock, h))
     THEN Settle(r, i, "header", h, fetch = "found")
     ELSE Settle(r, i, "err", NoHeader, FALSE)

\* A 204, or any transport, status or decoding error.
ReceiveNothing(r, i) ==
  /\ InFlight(r, i) /\ reqs[r][i].start < reqs[r][i].deadline
  /\ \E st \in {"empty", "err"} : Settle(r, i, st, NoHeader, FALSE)

RequestTimeout(r, i) ==
  /\ InFlight(r, i) /\ now >= reqs[r][i].deadline
  /\ Settle(r, i, "err", NoHeader, FALSE)

(***************************************************************************)
(* The task of a relay joins its requests: of the headers received, it     *)
(* returns the one that was asked for last.                                *)
(***************************************************************************)
Received(sent) == {i \in DOMAIN sent : sent[i].st = "header"}

Latest(sent) ==
  CHOOSE i \in Received(sent) : \A j \in Received(sent) :
    \/ sent[j].start < sent[i].start
    \/ sent[j].start = sent[i].start /\ j <= i

BidOfFirst(sent) ==
  IF Received(sent) = {} THEN NoHeader
  ELSE sent[CHOOSE i \in Received(sent) : \A j \in Received(sent) : i <= j].header

BidOf(sent) == IF Received(sent) = {} THEN NoHeader ELSE sent[Latest(sent)].header

JoinAfterFetch(r) ==
  /\ tasks[r].pc = "joining" /\ fetch # "pending"
  /\ \A i \in DOMAIN reqs[r] : reqs[r][i].st # "inflight"
  /\ bids' = [bids EXCEPT ![r] = BidOf(reqs[r])]
  /\ tasks' = [tasks EXCEPT ![r].pc = "done"]
  /\ UNCHANGED <<ms, now, fetch, reqs, resp, best>>

JoinRequests(r) ==
  /\ tasks[r].pc = "joining"
  /\ \A i \in DOMAIN reqs[r] : reqs[r][i].st # "inflight"
  /\ bids' = [bids EXCEPT ![r] = BidOf(reqs[r])]
  /\ tasks' = [tasks EXCEPT ![r].pc = "done"]
  /\ UNCHANGED <<ms, now, fetch, reqs, resp, best>>

(***************************************************************************)
(* join_all over the relays, then max_by_key, which keeps the last of      *)
(* equal bids.                                                             *)
(***************************************************************************)
Bidders == {r \in Relays : bids[r] # NoHeader}

AnyBid == CHOOSE r \in Bidders : TRUE

MaxBid ==
  CHOOSE r \in Bidders : \A q \in Bidders :
    \/ bids[q].value < bids[r].value
    \/ bids[q].value = bids[r].value /\ q <= r

RespondEarly ==
  /\ resp = "pending"
  /\ \E r \in Relays : tasks[r].pc = "done"
  /\ IF Bidders = {}
     THEN resp' = "no_content" /\ best' = NoHeader
     ELSE resp' = "header" /\ best' = bids[MaxBid]
  /\ UNCHANGED <<ms, now, fetch, tasks, reqs, bids>>

Respond ==
  /\ resp = "pending"
  /\ \A r \in Relays : tasks[r].pc = "done"
  /\ IF Bidders = {}
     THEN resp' = "no_content" /\ best' = NoHeader
     ELSE resp' = "header" /\ best' = bids[MaxBid]
  /\ UNCHANGED <<ms, now, fetch, tasks, reqs, bids>>

\* Time passes while a timer runs; timers that are due fire before it does.
Tick ==
  /\ resp = "pending"
  /\ \E r \in Relays : tasks[r].pc = "waiting" \/ \E i \in DOMAIN reqs[r] : InFlight(r, i)
  /\ \A r \in Relays :
       /\ SendDue(r) => Resends(r)
       /\ \A i \in DOMAIN reqs[r] : InFlight(r, i) => now < reqs[r][i].deadline
  /\ now' = now + 1
  /\ UNCHANGED <<ms, fetch, tasks, reqs, bids, resp, best>>

Answered == resp \in {"header", "no_content"}

Next ==
  \/ Start
  \/ FetchParentBlock
  \/ \E r \in Relays :
       \/ SendRequest(r)
       \/ \E i \in DOMAIN reqs[r] :
            \/ \E h \in Headers : ReceiveHeader(r, i, h)
            \/ ReceiveNothing(r, i)
            \/ RequestTimeout(r, i)
       \/ JoinRequests(r)
  \/ Respond
  \/ Tick
  \/ Answered /\ UNCHANGED vars

Spec == Init /\ [][Next]_vars

(***************************************************************************)
(* The runtime polls every future and its timers fire.  Neither the relays *)
(* nor the execution client have to answer.                                *)
(***************************************************************************)
Fairness ==
  /\ WF_vars(Start) /\ WF_vars(Respond) /\ WF_vars(Tick)
  /\ \A r \in Relays :
       /\ WF_vars(SendRequest(r)) /\ WF_vars(JoinRequests(r))
       /\ WF_vars(\E i \in DOMAIN reqs[r] : RequestTimeout(r, i))

FairSpec == Spec /\ Fairness

-----------------------------------------------------------------------------
RequestType ==
  [start : Nat, deadline : Nat, st : {"inflight", "empty", "err", "header"},
   header : Headers \cup {NoHeader}, checked : BOOLEAN]

TypeOK ==
  /\ ms \in StartTimes /\ now \in Nat
  /\ fetch \in {"off", "pending", "found", "missing"}
  /\ tasks \in [Relays -> [pc : {"waiting", "joining", "done"}, left : Nat, wake : Nat]]
  /\ reqs \in [Relays -> Seq(RequestType)]
  /\ bids \in [Relays -> Headers \cup {NoHeader}]
  /\ resp \in {"new", "pending", "header", "no_content"}
  /\ best \in Headers \cup {NoHeader}

LastRequest(r) == reqs[r][Len(reqs[r])]

(***************************************************************************)
(* The header handed to the beacon node builds on the parent it asked for, *)
(* is worth at least the minimum bid and is signed by the relay it came    *)
(* from.  No relay whose last request brought a header was outbid by a     *)
(* lower one: with timing games a relay's earlier, higher bid may be       *)
(* dropped, its last one never is.                                         *)
(* "Returns 200 if at least one relay returns 200, else 204": the answer   *)
(* is empty only if no request to any relay brought an acceptable header.  *)
(***************************************************************************)
BestBid ==
  /\ resp = "header" =>
       /\ best.parent_hash = ParentHash /\ best.value >= MinBid
       /\ \E r \in Relays : best = bids[r] /\ (SkipSigverify \/ best.signer = RelayPubkey[r])
       /\ \A r \in Relays :
            (reqs[r] # <<>> /\ LastRequest(r).st = "header") =>
              LastRequest(r).header.value <= best.value
  /\ resp = "no_content" => \A r \in Relays : Received(reqs[r]) = {}

(***************************************************************************)
(* A header that arrived after the parent block was found has the next     *)
(* block number and a gas limit within the bounds of the execution specs:  *)
(* it differs from the parent's by less than 1/1024 of it.                 *)
(***************************************************************************)
CheckedAgainstParent ==
  \A r \in Relays : \A i \in Received(reqs[r]) :
    reqs[r][i].checked =>
      LET h == reqs[r][i].header
          diff == IF h.gas_limit > ParentBlock.gas_limit
                  THEN h.gas_limit - ParentBlock.gas_limit
                  ELSE ParentBlock.gas_limit - h.gas_limit
      IN  /\ h.number = ParentBlock.number + 1
          /\ diff < ParentBlock.gas_limit \div 1024

(***************************************************************************)
(* A call is over when its timeout has passed, and by late_in_slot_time_ms *)
(* at the latest, unless a relay with timing games is to be asked first    *)
(* only after that: then it waits for that moment, and no longer.  A relay *)
(* that is asked again and again without a pause (frequency 0, which no    *)
(* validation rules out) takes the bound away.                             *)
(***************************************************************************)
AnswerInTime ==
  resp = "pending" =>
    \/ now <= TimeoutGetHeader /\ ms + now <= LateInSlot
    \/ \E r \in Relays : now <= Delay(r) \/ Endless(r)

(***************************************************************************)
(* Every call is answered, though relays and the execution client may stay *)
(* silent, unless a relay is asked without end.                            *)
(***************************************************************************)
EventuallyAnswered == <>(Answered \/ \E r \in Relays : Endless(r))

(***************************************************************************)
(* get_header implements the auction.                                      *)
(***************************************************************************)
Outcome == IF Answered THEN resp ELSE "open"

TheAuction == INSTANCE Auction WITH
  Acceptable <- [r \in Relays |-> {h \in Headers : Accepts(r, h)}],
  offers <- bids, outcome <- Outcome

\* Every step of get_header is a step of the auction or leaves it unchanged.
ImplementsAuction == TheAuction!Spec
=============================================================================
