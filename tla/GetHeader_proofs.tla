------------------------- MODULE GetHeader_proofs -------------------------
(***************************************************************************)
(* Proofs about GetHeader, for any relays, timing games, timeouts and      *)
(* headers: what the answer is worth, when it comes, and that the call     *)
(* implements the auction.                                                 *)
(***************************************************************************)
EXTENDS GetHeader, WellFoundedInduction, TLAPS

-----------------------------------------------------------------------------
(***************************************************************************)
(* Greatest elements, by minimal counterexample: the order of the natural  *)
(* numbers is well-founded.                                                *)
(***************************************************************************)
Less == {p \in Nat \X Nat : p[1] < p[2]}

\* Every set of naturals has a least element.
LEMMA LeastElement ==
  ASSUME NEW T \in SUBSET Nat, T # {}
  PROVE  \E x \in T : \A y \in T : x <= y
<1>1. IsWellFoundedOn(Less, Nat)
  BY NatLessThanWellFounded DEF OpToRel, Less
<1>2. PICK x \in T : \A y \in T : ~ (<<y, x>> \in Less)
  BY <1>1, WFMin, Zenon
<1>3. \A y \in T : <<y, x>> \in Less <=> y < x
  BY DEF Less
<1>4. \A y \in T : ~ (y < x)
  BY <1>2, <1>3, Zenon
<1> QED
  BY <1>4

\* Every set of indices up to n has a greatest one.
LEMMA GreatestIndex ==
  ASSUME NEW n \in Nat, NEW S \in SUBSET (1..n), S # {}
  PROVE  \E i \in S : \A j \in S : j <= i
<1> DEFINE T == {k \in Nat : n - k \in S}
<1>1. \A i \in S : n - i \in Nat /\ n - (n - i) = i
  OBVIOUS
<1>2. T \in SUBSET Nat /\ T # {}
  BY <1>1, Zenon
<1>3. PICK k \in T : \A y \in T : k <= y
  BY <1>2, LeastElement, Zenon
<1>4. \A j \in S : k <= n - j
  BY <1>1, <1>3, Zenon
<1>5. n - k \in S /\ k \in Nat
  BY <1>3
<1> QED
  BY <1>4, <1>5

(***************************************************************************)
(* Every set of indices has one of greatest value, and of these a last     *)
(* one: the maximum that max_by_key returns exists.                        *)
(***************************************************************************)
LEMMA LastOfGreatest ==
  ASSUME NEW n \in Nat, NEW S \in SUBSET (1..n), S # {},
         NEW v, \A i \in S : v[i] \in Nat
  PROVE  \E i \in S : \A j \in S : v[j] < v[i] \/ (v[j] = v[i] /\ j <= i)
<1> DEFINE Top(k, i) == \A j \in S : j <= k => v[j] < v[i] \/ (v[j] = v[i] /\ j <= i)
           Some(k) == \E j \in S : j <= k
           Has(k) == \E i \in S : i <= k /\ Top(k, i)
           Bad == {k \in 0..n : Some(k) /\ ~ Has(k)}
<1>1. \A k \in 1..n : Some(k - 1) /\ Has(k - 1) => Has(k)
  <2> SUFFICES ASSUME NEW k \in 1..n, Has(k - 1) PROVE Has(k)
    BY Zenon
  <2>1. PICK i \in S : i <= k - 1 /\ Top(k - 1, i)
    OBVIOUS
  <2>2. CASE k \notin S \/ v[k] < v[i]
    <3>1. Top(k, i)
      BY <2>1, <2>2
    <3> QED
      BY <2>1, <3>1
  <2>3. CASE k \in S /\ ~ (v[k] < v[i])
    <3>1. v[k] >= v[i] /\ v[k] \in Nat /\ v[i] \in Nat
      BY <2>1, <2>3
    <3>2. Top(k, k)
      BY <2>1, <2>3, <3>1
    <3> QED
      BY <2>3, <3>2
  <2> QED
    BY <2>2, <2>3
<1>2. \A k \in 1..n : ~ Some(k - 1) /\ Some(k) => Has(k)
  <2> SUFFICES ASSUME NEW k \in 1..n, ~ Some(k - 1), Some(k) PROVE Has(k)
    OBVIOUS
  <2>1. k \in S /\ \A j \in S : j <= k => j = k
    OBVIOUS
  <2> QED
    BY <2>1
<1>3. ~ Some(0) /\ Some(n) /\ n \in 0..n
  <2>1. PICK j \in S : TRUE
    BY Zenon
  <2> QED
    BY <2>1
<1>4. Bad \in SUBSET Nat
  OBVIOUS
<1>5. Bad = {}
  <2> HIDE DEF Some, Has, Bad
  <2> SUFFICES ASSUME Bad # {} PROVE FALSE
    OBVIOUS
  <2>1. PICK k \in Bad : \A y \in Bad : k <= y
    BY <1>4, LeastElement
  <2>2. k \in 1..n /\ Some(k) /\ ~ Has(k)
    BY <1>3 DEF Bad
  <2>3. k - 1 \notin Bad /\ k - 1 \in 0..n
    BY <1>4, <2>1, <2>2
  <2> QED
    BY <1>1, <1>2, <2>2, <2>3 DEF Bad
<1>6. Has(n)
  <2> HIDE DEF Some, Has
  <2> QED
    BY <1>3, <1>5
<1> QED
  BY <1>6
-----------------------------------------------------------------------------
(***************************************************************************)
(* The inductive invariant.  A request or a wait may last until the        *)
(* timeout of the call, or until the relay's first request is due if that  *)
(* comes later; for a relay that is asked without end there is no bound.   *)
(***************************************************************************)
Window(r) == IF Endless(r) THEN Unset
             ELSE IF MaxTimeout < Delay(r) THEN Delay(r) ELSE MaxTimeout

Within(time, window) == window # Unset => time <= window

RequestOk(r, q, time, window) ==
  /\ q.start <= time
  /\ Within(q.deadline, window)
  /\ q.st = "inflight" => time <= q.deadline
  /\ q.st = "header" => /\ q.header \in Headers /\ Accepts(r, q.header)
                        /\ q.checked => ExtraValidation(ParentBlock, q.header)

InOrder(sent) == \A i, j \in DOMAIN sent : i <= j => sent[i].start <= sent[j].start

Settled(sent) == \A i \in DOMAIN sent : sent[i].st # "inflight"

WaitOk(t, time, window) ==
  t.pc = "waiting" /\ window # Unset => time <= t.wake /\ t.wake + t.left <= window

RelayOk(r, t, sent, bid, time, window) ==
  /\ InOrder(sent)
  /\ \A i \in DOMAIN sent : RequestOk(r, sent[i], time, window)
  /\ WaitOk(t, time, window)
  /\ t.pc # "done" => bid = NoHeader
  /\ t.pc = "done" => Settled(sent) /\ bid = BidOf(sent)

RelayInv(r) == RelayOk(r, tasks[r], reqs[r], bids[r], now, Window(r))

Untouched == \A r \in Relays : tasks[r].pc = "waiting" /\ reqs[r] = <<>>
AllDone == \A r \in Relays : tasks[r].pc = "done"

AnswerInv ==
  /\ resp = "new" => now = 0 /\ Untouched /\ best = NoHeader
  /\ resp = "pending" =>
       /\ 0 < MaxTimeout
       /\ now <= MaxTimeout \/ \E r \in Relays : now <= Delay(r) \/ Endless(r)
  /\ resp = "header" =>
       /\ AllDone
       /\ \E m \in Bidders : best = bids[m] /\ \A q \in Bidders : bids[q].value <= best.value
  /\ resp = "no_content" => Untouched \/ (AllDone /\ Bidders = {})

Inv == TypeOK /\ (\A r \in Relays : RelayInv(r)) /\ AnswerInv

\* The two times that bound a call.
LEMMA TimesAreNatural ==
  ASSUME ms \in StartTimes
  PROVE  /\ ms \in Nat /\ MaxTimeout \in Nat /\ MaxTimeout <= TimeoutGetHeader
         /\ 0 < MaxTimeout => ms + MaxTimeout <= LateInSlot
         /\ \A r \in Relays : Delay(r) \in Nat /\ Window(r) \in Option(Nat)
<1>1. ms \in Nat /\ TimeoutGetHeader \in Nat /\ LateInSlot \in Nat
  BY GetHeaderAssumption
<1>2. /\ MaxTimeout \in Nat /\ MaxTimeout <= TimeoutGetHeader
      /\ 0 < MaxTimeout => ms + MaxTimeout <= LateInSlot
  BY <1>1 DEF MaxTimeout, Lesser, Sub
<1>3. ASSUME NEW r \in Relays PROVE Delay(r) \in Nat /\ Window(r) \in Option(Nat)
  <2>1. RelayConfig[r].target \in Option(Nat)
    BY GetHeaderAssumption
  <2> QED
    BY <1>1, <1>2, <2>1 DEF Delay, Sub, Option, Window
<1> QED
  BY <1>1, <1>2, <1>3

\* The latest request that brought a header is the last of these in the list.
LEMMA LatestIsLast ==
  ASSUME NEW sent \in Seq(RequestType), InOrder(sent), Received(sent) # {}
  PROVE  /\ Latest(sent) \in Received(sent)
         /\ \A j \in Received(sent) : j <= Latest(sent)
<1> DEFINE After(j, i) ==
             sent[j].start < sent[i].start \/ (sent[j].start = sent[i].start /\ j <= i)
<1>1. DOMAIN sent = 1..Len(sent) /\ Len(sent) \in Nat
  OBVIOUS
<1>2. \A i \in DOMAIN sent : sent[i].start \in Nat
  <2>1. \A i \in DOMAIN sent : sent[i] \in RequestType
    BY <1>1
  <2> QED
    BY <2>1 DEF RequestType
<1>3. Received(sent) \in SUBSET (1..Len(sent))
  BY <1>1 DEF Received
<1>4. PICK m \in Received(sent) : \A j \in Received(sent) : j <= m
  BY <1>1, <1>3, GreatestIndex, Zenon
<1>5. \A j \in Received(sent) : After(j, m)
  BY <1>1, <1>2, <1>3, <1>4 DEF InOrder
<1>6. Latest(sent) \in Received(sent) /\ \A j \in Received(sent) : After(j, Latest(sent))
  BY <1>5 DEF Latest
<1> HIDE DEF After
<1>7. After(m, Latest(sent)) => m <= Latest(sent)
  BY <1>1, <1>2, <1>3, <1>4, <1>6 DEF After, InOrder
<1> QED
  BY <1>1, <1>3, <1>4, <1>6, <1>7

\* A header that passed the checks is not the mark of a missing one.
LEMMA AcceptedIsHeader ==
  ASSUME NEW r, NEW h, Accepts(r, h)
  PROVE  h # NoHeader /\ h.parent_hash = ParentHash /\ h.value >= MinBid
  BY DEF Accepts, ValidateHeaderData, NoHeader

\* What a relay's task returns was received and accepted, or is missing
\* because nothing was received.
LEMMA BidIsAccepted ==
  ASSUME TypeOK, NEW r \in Relays, RelayInv(r)
  PROVE  /\ Received(reqs[r]) = {} => BidOf(reqs[r]) = NoHeader
         /\ Received(reqs[r]) # {} =>
              BidOf(reqs[r]) \in Headers /\ Accepts(r, BidOf(reqs[r]))
<1>1. reqs[r] \in Seq(RequestType) /\ InOrder(reqs[r])
  BY DEF TypeOK, RelayInv, RelayOk
<1>2. CASE Received(reqs[r]) # {}
  <2>1. Latest(reqs[r]) \in Received(reqs[r])
    BY <1>1, <1>2, LatestIsLast
  <2>2. /\ RequestOk(r, reqs[r][Latest(reqs[r])], now, Window(r))
        /\ reqs[r][Latest(reqs[r])].st = "header"
    BY <2>1 DEF RelayInv, RelayOk, Received
  <2> QED
    BY <1>2, <2>2, Zenon DEF RequestOk, BidOf
<1>3. CASE Received(reqs[r]) = {}
  BY <1>3 DEF BidOf
<1> QED
  BY <1>2, <1>3

-----------------------------------------------------------------------------
LEMMA InitInv == Init => Inv
<1> SUFFICES ASSUME Init PROVE Inv
  OBVIOUS
<1>1. ms \in StartTimes
  BY DEF Init
<1>2. /\ MaxTimeout \in Nat /\ \A r \in Relays : Delay(r) \in Nat
      /\ \A r \in Relays : Sub(MaxTimeout, Delay(r)) \in Nat
  BY <1>1, TimesAreNatural DEF Sub
<1>3. tasks \in [Relays -> [pc : {"waiting", "joining", "done"}, left : Nat, wake : Nat]]
  BY <1>2 DEF Init, NewTask
<1>4. reqs \in [Relays -> Seq(RequestType)] /\ \A r \in Relays : reqs[r] = <<>>
  BY DEF Init
<1>5. TypeOK
  BY <1>1, <1>3, <1>4, GetHeaderAssumption DEF Init, TypeOK
<1>6. ASSUME NEW r \in Relays PROVE RelayInv(r)
  <2>1. tasks[r] = NewTask(r) /\ reqs[r] = <<>> /\ bids[r] = NoHeader /\ now = 0
    BY DEF Init
  <2>2. /\ Window(r) # Unset => Delay(r) + Sub(MaxTimeout, Delay(r)) <= Window(r)
        /\ 0 <= Delay(r)
    BY <1>2 DEF Sub, Window
  <2> QED
    BY <1>2, <2>1, <2>2 DEF RelayInv, RelayOk, WaitOk, NewTask, InOrder
<1>7. AnswerInv
  BY DEF Init, AnswerInv, Untouched, NewTask
<1> QED
  BY <1>5, <1>6, <1>7 DEF Inv

\* The window of a relay does not move.
LEMMA SameWindow == ASSUME ms' = ms PROVE \A r \in Relays : Window(r)' = Window(r)
  BY DEF Window, Endless, MaxTimeout, Delay

TaskType == [pc : {"waiting", "joining", "done"}, left : Nat, wake : Nat]

\* A step that concerns one relay of an open call.
LEMMA OneRelay ==
  ASSUME Inv, NEW r \in Relays, resp = "pending", UNCHANGED <<ms, now, resp, best>>,
         fetch' \in {"off", "pending", "found", "missing"},
         NEW t \in TaskType, NEW sent \in Seq(RequestType), NEW b \in Headers \cup {NoHeader},
         tasks' = [tasks EXCEPT ![r] = t], reqs' = [reqs EXCEPT ![r] = sent],
         bids' = [bids EXCEPT ![r] = b],
         RelayOk(r, t, sent, b, now, Window(r))
  PROVE  Inv'
<1>1. TypeOK'
  BY DEF Inv, TypeOK, TaskType
<1>2. ASSUME NEW q \in Relays PROVE RelayInv(q)'
  <2>1. /\ tasks'[q] = IF q = r THEN t ELSE tasks[q]
        /\ reqs'[q] = IF q = r THEN sent ELSE reqs[q]
        /\ bids'[q] = IF q = r THEN b ELSE bids[q]
    BY DEF Inv, TypeOK
  <2>2. Window(q)' = Window(q)
    BY SameWindow
  <2> QED
    BY <2>1, <2>2 DEF Inv, RelayInv
<1>3. AnswerInv'
  BY DEF Inv, AnswerInv, Endless, MaxTimeout, Delay
<1> QED
  BY <1>1, <1>2, <1>3 DEF Inv

LEMMA StartKeeps == ASSUME Inv, Start PROVE Inv'
<1>1. TypeOK'
  BY DEF Inv, TypeOK, Start
<1>2. \A q \in Relays : RelayInv(q)'
  BY SameWindow DEF Inv, Start, RelayInv
<1>3. now = 0 /\ Untouched /\ MaxTimeout \in Nat
  BY TimesAreNatural DEF Inv, TypeOK, AnswerInv, Start
<1>4. MaxTimeout' = MaxTimeout /\ Untouched'
  BY <1>3 DEF MaxTimeout, Untouched, Start
<1>5. AnswerInv'
  BY <1>3, <1>4 DEF AnswerInv, Start
<1> QED
  BY <1>1, <1>2, <1>5 DEF Inv

LEMMA FetchKeeps == ASSUME Inv, FetchParentBlock PROVE Inv'
<1>1. TypeOK'
  BY DEF Inv, TypeOK, FetchParentBlock
<1>2. \A q \in Relays : RelayInv(q)'
  BY SameWindow DEF Inv, FetchParentBlock, RelayInv
<1>3. AnswerInv'
  BY DEF Inv, AnswerInv, FetchParentBlock, Endless, MaxTimeout, Delay, Untouched, AllDone, Bidders
<1> QED
  BY <1>1, <1>2, <1>3 DEF Inv

\* A request takes what is left of the time; a wait for the next one is
\* taken off it.
LEMMA SendKeeps == ASSUME Inv, NEW r \in Relays, SendRequest(r) PROVE Inv'
<1> DEFINE t == tasks[r]
           f == RelayConfig[r].frequency
           sent == Append(reqs[r], Request(r))
<1>1. /\ t \in TaskType /\ reqs[r] \in Seq(RequestType)
      /\ bids \in [Relays -> Headers \cup {NoHeader}]
      /\ now \in Nat /\ RelayInv(r) /\ Window(r) \in Option(Nat)
  BY TimesAreNatural DEF Inv, TypeOK, TaskType
<1>2. t.pc = "waiting" /\ t.wake <= now /\ bids[r] = NoHeader /\ WaitOk(t, now, Window(r))
  BY <1>1 DEF SendRequest, SendDue, RelayInv, RelayOk
<1>a. Window(r) # Unset => Window(r) \in Nat /\ now + t.left <= Window(r)
  <2>1. t.wake \in Nat /\ t.left \in Nat /\ now \in Nat
    BY <1>1 DEF TaskType
  <2>2. Window(r) # Unset => Window(r) \in Nat /\ now <= t.wake /\ t.wake + t.left <= Window(r)
    BY <1>1, <1>2, Zenon DEF WaitOk, Option
  <2> HIDE DEF t
  <2> QED
    BY <1>2, <2>1, <2>2
<1>3. Request(r) \in RequestType /\ Request(r).start = now
  BY <1>1 DEF Request, RequestType, TaskType
<1>4. RequestOk(r, Request(r), now, Window(r))
  BY <1>1, <1>a DEF RequestOk, Within, Request, TaskType
<1>5. /\ sent \in Seq(RequestType) /\ DOMAIN sent = 1..(Len(reqs[r]) + 1)
      /\ \A i \in DOMAIN sent : sent[i] = IF i = Len(reqs[r]) + 1 THEN Request(r) ELSE reqs[r][i]
  BY <1>1, <1>3, SMTT(30)
<1> HIDE DEF sent
<1>6. \A i \in DOMAIN sent : RequestOk(r, sent[i], now, Window(r))
  BY <1>1, <1>4, <1>5, SMTT(30) DEF RelayInv, RelayOk
<1>7. InOrder(sent)
  <2>1. \A i \in DOMAIN sent : sent[i].start <= now
    BY <1>6 DEF RequestOk
  <2>2. \A i, j \in 1..Len(reqs[r]) : i <= j => sent[i].start <= sent[j].start
    <3>1. \A i \in 1..Len(reqs[r]) : i \in DOMAIN sent /\ sent[i] = reqs[r][i]
      <4>1. \A i \in 1..Len(reqs[r]) : i \in 1..(Len(reqs[r]) + 1) /\ i # Len(reqs[r]) + 1
        <5>1. Len(reqs[r]) \in Nat
          BY <1>1
        <5> QED
          BY <5>1
      <4> QED
        BY <1>5, <4>1, Zenon
    <3>2. InOrder(reqs[r]) /\ DOMAIN reqs[r] = 1..Len(reqs[r])
      BY <1>1 DEF RelayInv, RelayOk
    <3> QED
      BY <3>1, <3>2, Zenon DEF InOrder
  <2>3. sent[Len(reqs[r]) + 1].start = now
    BY <1>3, <1>5
  <2> QED
    <3> SUFFICES ASSUME NEW i \in DOMAIN sent, NEW j \in DOMAIN sent, i <= j
                 PROVE  sent[i].start <= sent[j].start
      BY DEF InOrder
    <3>1. Len(reqs[r]) \in Nat
      BY <1>1
    <3>2. CASE j = Len(reqs[r]) + 1
      BY <2>1, <2>3, <3>2
    <3>3. CASE j # Len(reqs[r]) + 1
      <4>1. i \in 1..(Len(reqs[r]) + 1) /\ j \in 1..(Len(reqs[r]) + 1)
        BY <1>5, Zenon
      <4>2. i \in 1..Len(reqs[r]) /\ j \in 1..Len(reqs[r])
        BY <3>1, <3>3, <4>1
      <4> QED
        BY <2>2, <4>2, Zenon
    <3> QED
      BY <3>2, <3>3
<1>8. /\ AfterSend(r) \in TaskType /\ AfterSend(r).pc # "done"
      /\ WaitOk(AfterSend(r), now, Window(r))
  <2>1. CASE Repeats(r) /\ t.left > f
    <3>1. f \in Nat /\ t.left \in Nat
      BY <1>1, <2>1, GetHeaderAssumption DEF Repeats, Option, TaskType
    <3>2. AfterSend(r) = [t EXCEPT !.left = t.left - f, !.wake = now + f]
      BY <2>1 DEF AfterSend
    <3>3. t.left - f \in Nat /\ now + f \in Nat /\ (now + f) + (t.left - f) = now + t.left
      <4>1. now \in Nat /\ t.left > f
        BY <1>1, <2>1
      <4> HIDE DEF t, f
      <4> QED
        BY <3>1, <4>1
    <3>4. AfterSend(r) \in TaskType /\ AfterSend(r).pc = t.pc
          /\ AfterSend(r).left = t.left - f /\ AfterSend(r).wake = now + f
      <4> HIDE DEF t, f
      <4> QED
        BY <1>1, <3>2, <3>3, Zenon DEF TaskType
    <3>5. t.pc # "done" /\ now <= now + f
      <4>1. now \in Nat /\ t.pc = "waiting"
        BY <1>1, <1>2, Zenon
      <4> HIDE DEF t, f
      <4> QED
        BY <3>1, <4>1
    <3> QED
      BY <1>a, <3>3, <3>4, <3>5, Zenon DEF WaitOk
  <2>2. CASE ~ (Repeats(r) /\ t.left > f)
    <3>1. AfterSend(r) = [t EXCEPT !.pc = "joining", !.wake = 0]
      BY <2>2 DEF AfterSend
    <3>2. AfterSend(r) \in TaskType /\ AfterSend(r).pc = "joining"
      <4>1. t \in TaskType /\ 0 \in Nat /\ "joining" \in {"waiting", "joining", "done"}
        BY <1>1
      <4> HIDE DEF t
      <4>2. [t EXCEPT !.pc = "joining", !.wake = 0] \in TaskType
        BY <4>1, Zenon DEF TaskType
      <4> QED
        BY <3>1, <4>1, <4>2 DEF TaskType
    <3> QED
      BY <3>2 DEF WaitOk
  <2> QED
    BY <2>1, <2>2
<1>9. RelayOk(r, AfterSend(r), sent, NoHeader, now, Window(r))
  BY <1>6, <1>7, <1>8 DEF RelayOk
<1>10. /\ tasks' = [tasks EXCEPT ![r] = AfterSend(r)] /\ reqs' = [reqs EXCEPT ![r] = sent]
       /\ bids' = [bids EXCEPT ![r] = NoHeader]
       /\ resp = "pending" /\ UNCHANGED <<ms, now, resp, best>>
       /\ fetch' \in {"off", "pending", "found", "missing"}
  BY <1>1, <1>2 DEF SendRequest, Inv, TypeOK, sent
<1> QED
  BY <1>5, <1>8, <1>9, <1>10, OneRelay, Zenon

\* Requests are in flight, and tasks are joining, only while the call is open.
LEMMA BusyWhileOpen ==
  ASSUME Inv, NEW r \in Relays,
         tasks[r].pc = "joining" \/ \E i \in DOMAIN reqs[r] : reqs[r][i].st = "inflight"
  PROVE  resp = "pending"
<1>1. CASE Untouched
  BY <1>1 DEF Untouched
<1>2. CASE AllDone
  BY <1>2, Zenon DEF AllDone, Inv, RelayInv, RelayOk, Settled
<1> QED
  BY <1>1, <1>2, Zenon DEF Inv, TypeOK, AnswerInv

\* A request ends, in a header that passed the checks or without one.
LEMMA SettleKeeps ==
  ASSUME Inv, NEW r \in Relays, NEW i \in DOMAIN reqs[r], InFlight(r, i),
         NEW st \in {"empty", "err", "header"}, NEW h \in Headers \cup {NoHeader},
         NEW checked \in BOOLEAN, Settle(r, i, st, h, checked),
         st = "header" => /\ h \in Headers /\ Accepts(r, h)
                          /\ checked => ExtraValidation(ParentBlock, h)
  PROVE  Inv'
<1> DEFINE q == [reqs[r][i] EXCEPT !.st = st, !.header = h, !.checked = checked]
           sent == [reqs[r] EXCEPT ![i] = q]
<1>1. /\ reqs[r] \in Seq(RequestType) /\ reqs[r][i] \in RequestType /\ RelayInv(r)
      /\ tasks \in [Relays -> TaskType] /\ bids \in [Relays -> Headers \cup {NoHeader}]
  BY DEF Inv, TypeOK, TaskType
<1>2. /\ q \in RequestType /\ q.start = reqs[r][i].start /\ q.deadline = reqs[r][i].deadline
      /\ q.st = st /\ q.header = h /\ q.checked = checked
  BY <1>1, Zenon DEF RequestType
<1>3. reqs' = [reqs EXCEPT ![r] = sent]
  BY <1>1, ZenonT(60) DEF Settle, Inv, TypeOK, RequestType
<1>4. UNCHANGED <<ms, now, fetch, tasks, bids, resp, best>>
  BY Zenon DEF Settle
<1> HIDE DEF q
<1>5. /\ sent \in Seq(RequestType) /\ DOMAIN sent = DOMAIN reqs[r]
      /\ \A k \in DOMAIN sent : sent[k] = IF k = i THEN q ELSE reqs[r][k]
  BY <1>1, <1>2
<1> HIDE DEF sent
<1>6. RequestOk(r, q, now, Window(r))
  BY <1>1, <1>2, Zenon DEF RelayInv, RelayOk, RequestOk
<1>7. \A k \in DOMAIN sent : RequestOk(r, sent[k], now, Window(r))
  BY <1>1, <1>5, <1>6, SMTT(30) DEF RelayInv, RelayOk
<1>8. InOrder(sent)
  BY <1>1, <1>2, <1>5, Zenon DEF InOrder, RelayInv, RelayOk
<1>9. resp = "pending" /\ tasks[r].pc # "done"
  BY <1>1, BusyWhileOpen DEF InFlight, RelayInv, RelayOk, Settled
<1>10. RelayOk(r, tasks[r], sent, bids[r], now, Window(r))
  BY <1>1, <1>7, <1>8, <1>9 DEF RelayInv, RelayOk
<1>11. tasks' = [tasks EXCEPT ![r] = tasks[r]] /\ bids' = [bids EXCEPT ![r] = bids[r]]
  BY <1>1, <1>4
<1>12. /\ tasks[r] \in TaskType /\ bids[r] \in Headers \cup {NoHeader}
       /\ fetch' \in {"off", "pending", "found", "missing"}
  BY <1>1, <1>4 DEF Inv, TypeOK
<1> QED
  BY <1>3, <1>4, <1>5, <1>9, <1>10, <1>11, <1>12, OneRelay, ZenonT(60)

LEMMA ReceiveKeeps ==
  ASSUME Inv, NEW r \in Relays, NEW i \in DOMAIN reqs[r],
         \/ \E h \in Headers : ReceiveHeader(r, i, h)
         \/ ReceiveNothing(r, i)
         \/ RequestTimeout(r, i)
  PROVE  Inv'
<1>1. ASSUME NEW st \in {"empty", "err"}, InFlight(r, i), Settle(r, i, st, NoHeader, FALSE)
      PROVE  Inv'
  BY <1>1, SettleKeeps, Zenon
<1>2. ASSUME NEW h \in Headers, ReceiveHeader(r, i, h)
      PROVE  Inv'
  <2>1. CASE Accepts(r, h) /\ (fetch = "found" => ExtraValidation(ParentBlock, h))
    <3>1. InFlight(r, i) /\ Settle(r, i, "header", h, fetch = "found")
      BY <1>2, <2>1, Zenon DEF ReceiveHeader
    <3> QED
      BY <2>1, <3>1, SettleKeeps, Zenon
  <2>2. CASE ~ (Accepts(r, h) /\ (fetch = "found" => ExtraValidation(ParentBlock, h)))
    <3>1. InFlight(r, i) /\ Settle(r, i, "err", NoHeader, FALSE)
      BY <1>2, <2>2, Zenon DEF ReceiveHeader
    <3> QED
      BY <1>1, <3>1
  <2> QED
    BY <2>1, <2>2
<1>3. CASE ReceiveNothing(r, i)
  BY <1>1, <1>3, Zenon DEF ReceiveNothing
<1>4. CASE RequestTimeout(r, i)
  BY <1>1, <1>4 DEF RequestTimeout
<1> QED
  BY <1>2, <1>3, <1>4

LEMMA JoinKeeps == ASSUME Inv, NEW r \in Relays, JoinRequests(r) PROVE Inv'
<1> DEFINE t == [tasks[r] EXCEPT !.pc = "done"]
           b == BidOf(reqs[r])
<1>1. /\ tasks[r] \in TaskType /\ tasks[r].pc = "joining" /\ Settled(reqs[r])
      /\ reqs \in [Relays -> Seq(RequestType)] /\ RelayInv(r) /\ TypeOK
  BY Zenon DEF Inv, TypeOK, TaskType, JoinRequests, Settled
<1>2. resp = "pending"
  BY <1>1, BusyWhileOpen, Zenon
<1>3. t \in TaskType /\ t.pc = "done"
  BY <1>1, Zenon DEF TaskType
<1>4. b \in Headers \cup {NoHeader}
  BY <1>1, BidIsAccepted, Zenon
<1>5. RelayOk(r, t, reqs[r], b, now, Window(r))
  BY <1>1, <1>3 DEF RelayInv, RelayOk, WaitOk
<1>6. /\ tasks' = [tasks EXCEPT ![r] = t] /\ reqs' = [reqs EXCEPT ![r] = reqs[r]]
      /\ bids' = [bids EXCEPT ![r] = b] /\ UNCHANGED <<ms, now, resp, best>>
      /\ fetch' \in {"off", "pending", "found", "missing"} /\ reqs[r] \in Seq(RequestType)
  BY <1>1, Zenon DEF JoinRequests, Inv, TypeOK
<1> HIDE DEF t, b
<1> QED
  BY <1>2, <1>3, <1>4, <1>5, <1>6, OneRelay, Zenon

\* max_by_key: the chosen bid is the highest.
LEMMA MaxBidIsHighest ==
  ASSUME TypeOK, Bidders # {}
  PROVE  MaxBid \in Bidders /\ \A q \in Bidders : bids[q].value <= bids[MaxBid].value
<1> DEFINE v == [q \in Bidders |-> bids[q].value]
<1>1. Bidders \in SUBSET (1..NRelays) /\ NRelays \in Nat
  BY GetHeaderAssumption DEF Bidders, Relays
<1>2. \A q \in Bidders : bids[q].value \in Nat
  BY GetHeaderAssumption DEF Bidders, TypeOK, HeaderType
<1>3. PICK m \in Bidders : \A q \in Bidders : v[q] < v[m] \/ (v[q] = v[m] /\ q <= m)
  <2>1. \A q \in Bidders : v[q] \in Nat
    BY <1>2
  <2> HIDE DEF v
  <2> QED
    BY <1>1, <2>1, LastOfGreatest, Zenon
<1>4. /\ MaxBid \in Bidders
      /\ \A q \in Bidders : bids[q].value < bids[MaxBid].value
                           \/ (bids[q].value = bids[MaxBid].value /\ q <= MaxBid)
  BY <1>3, Zenon DEF MaxBid
<1> QED
  BY <1>2, <1>4

LEMMA RespondKeeps == ASSUME Inv, Respond PROVE Inv'
<1>1. UNCHANGED <<ms, now, fetch, tasks, reqs, bids>> /\ AllDone /\ AllDone' /\ Bidders' = Bidders
  BY DEF Respond, AllDone, Bidders
<1>2. \A q \in Relays : RelayInv(q)'
  BY <1>1, SameWindow DEF Inv, RelayInv
<1>3. CASE Bidders = {}
  <2>1. resp' = "no_content" /\ best' = NoHeader
    BY <1>3 DEF Respond
  <2>2. TypeOK'
    BY <1>1, <2>1 DEF Inv, TypeOK
  <2>3. AnswerInv'
    BY <1>1, <1>3, <2>1 DEF AnswerInv
  <2> QED
    BY <1>2, <2>2, <2>3 DEF Inv
<1>4. CASE Bidders # {}
  <2>1. resp' = "header" /\ best' = bids[MaxBid]
    BY <1>4 DEF Respond
  <2>2. MaxBid \in Bidders /\ \A q \in Bidders : bids[q].value <= bids[MaxBid].value
    BY <1>4, MaxBidIsHighest DEF Inv
  <2>3. TypeOK'
    BY <1>1, <2>1, <2>2 DEF Inv, TypeOK, Bidders
  <2>4. AnswerInv'
    BY <1>1, <2>1, <2>2, Zenon DEF AnswerInv
  <2> QED
    BY <1>2, <2>3, <2>4 DEF Inv
<1> QED
  BY <1>3, <1>4

LEMMA NotYetDue ==
  ASSUME NEW t \in Nat, NEW wake \in Nat, NEW left \in Nat, NEW w \in Nat,
         ~ (wake <= t), wake + left <= w
  PROVE  t + 1 <= wake /\ t + 1 <= w
  OBVIOUS

LEMMA RequestLater ==
  ASSUME NEW r, NEW q, NEW t \in Nat, NEW w, RequestOk(r, q, t, w), q.start \in Nat,
         q.st = "inflight" => t + 1 <= q.deadline
  PROVE  RequestOk(r, q, t + 1, w)
  BY DEF RequestOk

\* The clock moves only if no timer is due, so none is missed.
LEMMA TickKeeps == ASSUME Inv, Tick PROVE Inv'
<1>1. /\ now' = now + 1 /\ now \in Nat /\ resp = "pending"
      /\ UNCHANGED <<ms, fetch, tasks, reqs, bids, resp, best>>
  BY Zenon DEF Inv, TypeOK, Tick
<1>2. MaxTimeout \in Nat /\ \A r \in Relays : Delay(r) \in Nat /\ Window(r) \in Option(Nat)
  BY TimesAreNatural DEF Inv, TypeOK
<1>3. ASSUME NEW r \in Relays
      PROVE  /\ tasks[r].pc = "waiting" /\ Window(r) # Unset =>
                  now + 1 <= tasks[r].wake /\ now + 1 <= Window(r)
             /\ \A i \in DOMAIN reqs[r] : reqs[r][i].st = "inflight" =>
                  now + 1 <= reqs[r][i].deadline /\ Within(now + 1, Window(r))
  <2>1. tasks[r] \in TaskType /\ reqs[r] \in Seq(RequestType) /\ RelayInv(r)
    BY DEF Inv, TypeOK, TaskType
  <2>2. tasks[r].wake \in Nat /\ tasks[r].left \in Nat
    BY <2>1 DEF TaskType
  <2>3. \A i \in DOMAIN reqs[r] : reqs[r][i].deadline \in Nat /\ reqs[r][i].start \in Nat
    <3>1. \A i \in DOMAIN reqs[r] : reqs[r][i] \in RequestType
      BY <2>1
    <3> QED
      BY <3>1 DEF RequestType
  <2>4. tasks[r].pc = "waiting" /\ Window(r) # Unset => ~ (tasks[r].wake <= now)
    BY Zenon DEF Tick, SendDue, Resends, Window
  <2>5. tasks[r].pc = "waiting" /\ Window(r) # Unset =>
          now + 1 <= tasks[r].wake /\ now + 1 <= Window(r)
    <3>1. tasks[r].pc = "waiting" /\ Window(r) # Unset =>
            now <= tasks[r].wake /\ tasks[r].wake + tasks[r].left <= Window(r)
      BY <2>1, Zenon DEF RelayInv, RelayOk, WaitOk
    <3>2. now \in Nat /\ (Window(r) # Unset => Window(r) \in Nat)
      BY <1>1, <1>2, Zenon DEF Option
    <3> QED
      BY <2>2, <2>4, <3>1, <3>2, NotYetDue, Zenon
  <2>6. \A i \in DOMAIN reqs[r] : reqs[r][i].st = "inflight" =>
          now < reqs[r][i].deadline /\ Within(reqs[r][i].deadline, Window(r))
    BY <2>1, Zenon DEF Tick, InFlight, RelayInv, RelayOk, RequestOk
  <2>7. Window(r) # Unset => Window(r) \in Nat
    BY <1>2, Zenon DEF Option
  <2> QED
    BY <1>1, <2>3, <2>5, <2>6, <2>7 DEF Within
<1>4. \E r \in Relays : Within(now + 1, Window(r))
  BY <1>3, SMTT(30) DEF Tick, InFlight, Within
<1>5. ASSUME NEW r \in Relays PROVE RelayInv(r)'
  <2>1. RelayOk(r, tasks[r], reqs[r], bids[r], now, Window(r)) /\ reqs[r] \in Seq(RequestType)
    BY SMTT(30) DEF Inv, RelayInv, TypeOK
  <2>2. \A i \in DOMAIN reqs[r] : reqs[r][i].start \in Nat
    <3>1. \A i \in DOMAIN reqs[r] : reqs[r][i] \in RequestType
      BY <2>1, SMTT(30)
    <3> QED
      BY <3>1, Zenon DEF RequestType
  <2>3. \A i \in DOMAIN reqs[r] : RequestOk(r, reqs[r][i], now + 1, Window(r))
    <3> TAKE i \in DOMAIN reqs[r]
    <3>1. RequestOk(r, reqs[r][i], now, Window(r))
      BY <2>1, Zenon DEF RelayOk
    <3>2. reqs[r][i].st = "inflight" => now + 1 <= reqs[r][i].deadline
      BY <1>3, Zenon
    <3> QED
      BY <1>1, <2>2, <3>1, <3>2, RequestLater
  <2>4. RelayOk(r, tasks[r], reqs[r], bids[r], now + 1, Window(r))
    BY <1>3, <2>1, <2>3 DEF RelayOk, WaitOk
  <2> QED
    BY <1>1, <2>4, SameWindow DEF RelayInv
<1>6. TypeOK'
  BY <1>1 DEF Inv, TypeOK
<1>7. AnswerInv'
  <2>1. \E r \in Relays : now + 1 <= MaxTimeout \/ now + 1 <= Delay(r) \/ Endless(r)
    <3>1. ASSUME NEW r \in Relays, ~ Endless(r) PROVE Window(r) # Unset
      BY <1>2, <3>1, GetHeaderAssumption DEF Window
    <3> QED
      BY <1>4, <3>1 DEF Window, Within
  <2>2. MaxTimeout' = MaxTimeout /\ \A r \in Relays : Delay(r)' = Delay(r) /\ Endless(r)' = Endless(r)
    BY <1>1 DEF Endless, MaxTimeout, Delay
  <2>3. 0 < MaxTimeout
    BY <1>1, Zenon DEF Inv, AnswerInv
  <2> QED
    BY <1>1, <2>1, <2>2, <2>3, Zenon DEF AnswerInv
<1> QED
  BY <1>5, <1>6, <1>7, SMTT(30) DEF Inv

LEMMA NextInv == Inv /\ [Next]_vars => Inv'
<1> SUFFICES ASSUME Inv, [Next]_vars PROVE Inv'
  BY SMTT(30)
<1>1. CASE UNCHANGED vars
  BY <1>1, Zenon DEF vars, Inv, TypeOK, RelayInv, Window, AnswerInv, Endless, MaxTimeout, Delay,
              Untouched, AllDone, Bidders
<1>2. ASSUME NEW r \in Relays,
             \/ SendRequest(r)
             \/ \E i \in DOMAIN reqs[r] :
                  \/ \E h \in Headers : ReceiveHeader(r, i, h)
                  \/ ReceiveNothing(r, i)
                  \/ RequestTimeout(r, i)
             \/ JoinRequests(r)
      PROVE  Inv'
  BY <1>2, SendKeeps, ReceiveKeeps, JoinKeeps
<1> QED
  BY <1>1, <1>2, StartKeeps, FetchKeeps, RespondKeeps, TickKeeps DEF Next
-----------------------------------------------------------------------------
LEMMA Invariance == Spec => []Inv
  BY InitInv, NextInv, PTL DEF Spec

\* Type correctness.
THEOREM TypeCorrect == Spec => []TypeOK
<1>1. Inv => TypeOK
  BY DEF Inv
<1> QED
  BY <1>1, Invariance, PTL

(***************************************************************************)
(* The answer of get_header is a header that the relay it came from signed *)
(* and that passed the checks, no relay's last header is worth more, and   *)
(* it is empty only if no acceptable header came.                          *)
(***************************************************************************)
THEOREM BestBidWins == Spec => []BestBid
<1>1. Inv => BestBid
  <2> SUFFICES ASSUME Inv PROVE BestBid
    OBVIOUS
  <2>1. ASSUME NEW r \in Relays
        PROVE  /\ TypeOK /\ RelayInv(r) /\ reqs[r] \in Seq(RequestType) /\ InOrder(reqs[r])
               /\ Received(reqs[r]) # {} =>
                    /\ BidOf(reqs[r]) # NoHeader /\ BidOf(reqs[r]) \in Headers
                    /\ Accepts(r, BidOf(reqs[r]))
               /\ Received(reqs[r]) = {} => BidOf(reqs[r]) = NoHeader
    BY BidIsAccepted, AcceptedIsHeader, Zenon DEF Inv, TypeOK, RelayInv, RelayOk
  <2>2. CASE resp = "header"
    <3>1. AllDone
      BY <2>2, Zenon DEF Inv, AnswerInv
    <3>2. PICK m \in Bidders : best = bids[m] /\ \A q \in Bidders : bids[q].value <= best.value
      BY <2>2, SMTT(30) DEF Inv, AnswerInv
    <3>3. \A r \in Relays : bids[r] = BidOf(reqs[r])
      BY <2>1, <3>1, Zenon DEF AllDone, RelayInv, RelayOk
    <3>4. m \in Relays /\ best # NoHeader
      BY <3>2 DEF Bidders
    <3>5. Accepts(m, best)
      BY <2>1, <3>2, <3>3, <3>4, Zenon
    <3>6. /\ best.parent_hash = ParentHash /\ best.value >= MinBid
          /\ best = bids[m] /\ (SkipSigverify \/ best.signer = RelayPubkey[m])
      BY <3>2, <3>5, AcceptedIsHeader DEF Accepts, ValidateSignature, VerifySignedMessage
    <3>7. ASSUME NEW r \in Relays, reqs[r] # <<>>, LastRequest(r).st = "header"
          PROVE  LastRequest(r).header.value <= best.value
      <4>1. Len(reqs[r]) \in Received(reqs[r])
        BY <2>1, <3>7 DEF LastRequest, Received
      <4>2. /\ Latest(reqs[r]) \in Received(reqs[r])
            /\ Len(reqs[r]) <= Latest(reqs[r])
        BY <2>1, <4>1, LatestIsLast
      <4>3. Latest(reqs[r]) = Len(reqs[r])
        BY <2>1, <4>2 DEF Received
      <4>4. bids[r] = LastRequest(r).header /\ bids[r] # NoHeader
        BY <2>1, <3>3, <4>1, <4>3, Zenon DEF BidOf, LastRequest
      <4> QED
        BY <3>2, <4>4 DEF Bidders
    <3> QED
      BY <2>2, <3>4, <3>6, <3>7 DEF BestBid
  <2>3. CASE resp = "no_content"
    <3>1. CASE Untouched
      BY <2>3, <3>1 DEF BestBid, Untouched, Received
    <3>2. CASE AllDone /\ Bidders = {}
      <4>1. ASSUME NEW r \in Relays PROVE Received(reqs[r]) = {}
        BY <2>1, <3>2, Zenon DEF AllDone, Bidders, RelayInv, RelayOk
      <4> QED
        BY <2>3, <4>1 DEF BestBid
    <3> QED
      BY <2>3, <3>1, <3>2 DEF Inv, AnswerInv
  <2> QED
    BY <2>2, <2>3, Zenon DEF BestBid
<1> QED
  BY <1>1, Invariance, PTL

(***************************************************************************)
(* A header taken after the parent block was found has the next number and *)
(* a gas limit strictly within 1/1024 of the parent's.                     *)
(***************************************************************************)
THEOREM HeadersFitParent == Spec => []CheckedAgainstParent
<1>1. Inv => CheckedAgainstParent
  <2> SUFFICES ASSUME Inv, NEW r \in Relays, NEW i \in Received(reqs[r]), reqs[r][i].checked
               PROVE  LET h == reqs[r][i].header
                          diff == IF h.gas_limit > ParentBlock.gas_limit
                                  THEN h.gas_limit - ParentBlock.gas_limit
                                  ELSE ParentBlock.gas_limit - h.gas_limit
                      IN  /\ h.number = ParentBlock.number + 1
                          /\ diff < ParentBlock.gas_limit \div 1024
    BY Zenon DEF CheckedAgainstParent
  <2> DEFINE h == reqs[r][i].header
  <2>1. h \in Headers /\ ExtraValidation(ParentBlock, h)
    BY Zenon DEF Inv, RelayInv, RelayOk, RequestOk, Received
  <2>2. h.gas_limit \in Nat /\ ParentBlock.gas_limit \in Nat
    BY <2>1, GetHeaderAssumption DEF HeaderType
  <2> HIDE DEF h
  <2>3. /\ h.number = ParentBlock.number + 1
        /\ h.gas_limit < ParentBlock.gas_limit + (ParentBlock.gas_limit \div 1024)
        /\ h.gas_limit > ParentBlock.gas_limit - (ParentBlock.gas_limit \div 1024)
    BY <2>1 DEF ExtraValidation, CheckGasLimit, GasLimitAdjustmentFactor
  <2> QED
    BY <2>2, <2>3 DEF h
<1> QED
  BY <1>1, Invariance, PTL

(***************************************************************************)
(* A call is open no longer than its timeout, nor past the late time of    *)
(* the slot, unless it waits for the target time of a relay's first        *)
(* request, or asks a relay without end - for any configuration that       *)
(* validate accepts.                                                       *)
(***************************************************************************)
THEOREM AnsweredInTime == Spec => []AnswerInTime
<1>1. Inv => AnswerInTime
  <2> SUFFICES ASSUME Inv, resp = "pending", ~ \E r \in Relays : now <= Delay(r) \/ Endless(r)
               PROVE  now <= TimeoutGetHeader /\ ms + now <= LateInSlot
    BY DEF AnswerInTime
  <2>1. 0 < MaxTimeout /\ now <= MaxTimeout /\ now \in Nat /\ ms \in StartTimes
    BY DEF Inv, AnswerInv, TypeOK
  <2>2. /\ ms \in Nat /\ MaxTimeout \in Nat /\ MaxTimeout <= TimeoutGetHeader
        /\ ms + MaxTimeout <= LateInSlot
    BY <2>1, TimesAreNatural
  <2>3. TimeoutGetHeader \in Nat /\ LateInSlot \in Nat
    BY GetHeaderAssumption
  <2> QED
    BY <2>1, <2>2, <2>3
<1> QED
  BY <1>1, Invariance, PTL
-----------------------------------------------------------------------------
(***************************************************************************)
(* The refinement: a task that returns a header makes the relay's offer,   *)
(* the answer closes the auction, and no other step is seen there.         *)
(***************************************************************************)
LEMMA AuctionInit == Init => TheAuction!Init
  BY DEF Init, TheAuction!Init, Outcome, Answered

LEMMA JoinOffers ==
  ASSUME Inv, NEW r \in Relays, JoinRequests(r)
  PROVE  [TheAuction!Next]_(TheAuction!vars)
<1>1. /\ tasks[r].pc = "joining" /\ RelayInv(r) /\ TypeOK
      /\ bids' = [bids EXCEPT ![r] = BidOf(reqs[r])] /\ resp' = resp /\ best' = best
  BY DEF JoinRequests, Inv
<1>2. resp = "pending" /\ bids[r] = NoHeader
  BY <1>1, BusyWhileOpen DEF RelayInv, RelayOk
<1>3. Outcome = "open" /\ Outcome' = "open"
  BY <1>1, <1>2 DEF Outcome, Answered
<1>4. CASE Received(reqs[r]) = {}
  <2>1. bids' = bids
    BY <1>1, <1>2, <1>4, BidIsAccepted DEF TypeOK
  <2> QED
    BY <1>1, <1>3, <2>1 DEF TheAuction!vars
<1>5. CASE Received(reqs[r]) # {}
  <2> DEFINE h == BidOf(reqs[r])
  <2>1. h \in Headers /\ Accepts(r, h)
    BY <1>1, <1>5, BidIsAccepted
  <2>2. TheAuction!Offer(r, h)
    BY <1>1, <1>2, <1>3 DEF TheAuction!Offer
  <2> HIDE DEF h
  <2>3. h \in [q \in Relays |-> {x \in Headers : Accepts(q, x)}][r]
    BY <2>1
  <2> QED
    BY <2>2, <2>3, SMTT(30) DEF TheAuction!Next
<1> QED
  BY <1>4, <1>5

LEMMA RespondCloses == ASSUME Inv, Respond PROVE TheAuction!Close
<1>1. Outcome = "open" /\ bids' = bids
  BY DEF Respond, Outcome, Answered
<1>2. CASE Bidders = {}
  <2>1. Outcome' = "no_content" /\ best' = NoHeader
    BY <1>2 DEF Respond, Outcome, Answered
  <2> QED
    BY <1>1, <1>2, <2>1 DEF TheAuction!Close, Bidders
<1>3. CASE Bidders # {}
  <2>1. Outcome' = "header" /\ best' = bids[MaxBid]
    BY <1>3 DEF Respond, Outcome, Answered
  <2>2. MaxBid \in Bidders /\ \A q \in Bidders : bids[q].value <= bids[MaxBid].value
    BY <1>3, MaxBidIsHighest DEF Inv
  <2> QED
    BY <1>1, <2>1, <2>2, SMTT(30) DEF TheAuction!Close, Bidders
<1> QED
  BY <1>2, <1>3

LEMMA StartMayClose ==
  ASSUME Inv, Start PROVE [TheAuction!Next]_(TheAuction!vars)
<1>1. Outcome = "open" /\ bids' = bids /\ best' = best
  BY DEF Start, Outcome, Answered
<1>2. CASE MaxTimeout = 0
  <2>1. Outcome' = "no_content"
    BY <1>2, SMTT(30) DEF Start, Outcome, Answered
  <2>2. \A r \in Relays : bids[r] = NoHeader
    BY DEF Start, Inv, AnswerInv, Untouched, RelayInv, RelayOk
  <2>3. best = NoHeader
    BY DEF Start, Inv, AnswerInv
  <2> QED
    BY <1>1, <2>1, <2>2, <2>3 DEF TheAuction!Close, TheAuction!Next
<1>3. CASE MaxTimeout # 0
  <2>1. Outcome' = "open"
    BY <1>3 DEF Start, Outcome, Answered
  <2> QED
    BY <1>1, <2>1 DEF TheAuction!vars
<1> QED
  BY <1>2, <1>3

LEMMA AuctionNext ==
  Inv /\ [Next]_vars => [TheAuction!Next]_(TheAuction!vars)
<1> SUFFICES ASSUME Inv, [Next]_vars PROVE [TheAuction!Next]_(TheAuction!vars)
  OBVIOUS
<1>1. ASSUME UNCHANGED <<bids, resp, best>> PROVE UNCHANGED TheAuction!vars
  BY <1>1 DEF TheAuction!vars, Outcome, Answered
<1>2. CASE FetchParentBlock \/ Tick \/ UNCHANGED vars
  BY <1>1, <1>2 DEF FetchParentBlock, Tick, vars
<1>3. ASSUME NEW r \in Relays, SendRequest(r) PROVE UNCHANGED TheAuction!vars
  BY <1>1, <1>3, SMTT(30) DEF SendRequest
<1>4. ASSUME NEW r \in Relays, NEW i \in DOMAIN reqs[r],
             \/ \E h \in Headers : ReceiveHeader(r, i, h)
             \/ ReceiveNothing(r, i)
             \/ RequestTimeout(r, i)
      PROVE  UNCHANGED TheAuction!vars
  BY <1>1, <1>4, Zenon DEF ReceiveHeader, ReceiveNothing, RequestTimeout, Settle
<1>5. CASE Respond
  BY <1>5, RespondCloses DEF TheAuction!Next
<1> QED
  BY <1>2, <1>3, <1>4, <1>5, StartMayClose, JoinOffers DEF Next

(***************************************************************************)
(* get_header implements the auction: whatever the relays answer and in    *)
(* whatever order, it looks from outside as if every relay made at most    *)
(* one acceptable offer and the highest was taken.                         *)
(***************************************************************************)
THEOREM GetHeaderIsAuction == Spec => ImplementsAuction
<1>1. Init => TheAuction!Init
  BY AuctionInit
<1>2. Inv /\ [Next]_vars => [TheAuction!Next]_(TheAuction!vars)
  BY AuctionNext
<1> QED
  BY <1>1, <1>2, Invariance, PTL DEF Spec, ImplementsAuction, TheAuction!Spec
=============================================================================
