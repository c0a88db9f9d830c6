------------------------ MODULE DirkManager_proofs ------------------------
(***************************************************************************)
(* Proofs about DirkManager, for any hosts, listings, thresholds and       *)
(* failures: participants are genuine, failures that leave the threshold   *)
(* in reach are tolerated, and proxies in use are complete.                *)
(***************************************************************************)
EXTENDS DirkManager, FiniteSetTheorems, TLAPS

(***************************************************************************)
(* What load_simple_accounts and load_distributed_accounts keep of the     *)
(* accounts, host by host.                                                 *)
(***************************************************************************)
Lists(host, k, i) ==
  \E a \in Range(Listing[host].distributed) : a.key = k /\ a.id # 0 /\ AsU32(a.id) = i

AccountOk(k, account) ==
  /\ account \in AccountType
  /\ account.kind = "distributed" =>
       \A i \in DOMAIN account.hosts : Lists(account.hosts[i], k, i)

AccountsOk(accs) == \A k \in DOMAIN accs : AccountOk(k, accs[k])

LEMMA AsU32Type == ASSUME NEW id \in Nat PROVE AsU32(id) \in 0..(IdSpan - 1)
  BY FieldAssumption DEF AsU32

\* A participant entered or replaced.
LEMMA PutType ==
  ASSUME NEW D \in SUBSET (0..(IdSpan - 1)), NEW map \in [D -> Range(Hosts)],
         NEW i \in 0..(IdSpan - 1), NEW host \in Range(Hosts)
  PROVE  Put(map, i, host) \in UNION {[E -> Range(Hosts)] : E \in SUBSET (0..(IdSpan - 1))}
<1>1. Put(map, i, host) \in [D \cup {i} -> Range(Hosts)]
  BY Zenon DEF Put
<1>2. D \cup {i} \in SUBSET (0..(IdSpan - 1))
  OBVIOUS
<1> QED
  BY <1>1, <1>2, Zenon

LEMMA SimpleOk ==
  ASSUME NEW k, NEW host \in Range(Hosts)
  PROVE  AccountOk(k, Simple(host))
<1>1. {1} \in SUBSET (0..(IdSpan - 1))
  BY FieldAssumption
<1>2. [i \in {1} |-> host] \in [{1} -> Range(Hosts)]
  OBVIOUS
<1>3. [i \in {1} |-> host] \in UNION {[E -> Range(Hosts)] : E \in SUBSET (0..(IdSpan - 1))}
  BY <1>1, <1>2, Zenon
<1> QED
  BY <1>3, SMTT(30) DEF AccountOk, AccountType, Simple

LEMMA LoadSimpleOk ==
  ASSUME NEW accs, AccountsOk(accs), NEW keys, NEW host \in Range(Hosts)
  PROVE  AccountsOk(LoadSimple(accs, keys, host))
  BY SimpleOk, Zenon DEF LoadSimple, AccountsOk

LEMMA AddParticipantOk ==
  ASSUME NEW acc, acc = [accounts |-> acc.accounts, stopped |-> acc.stopped], AccountsOk(acc.accounts),
         NEW host \in Range(Hosts), NEW account \in Range(Listing[host].distributed)
  PROVE  LET next == AddParticipant(acc, account, host)
         IN  next = [accounts |-> next.accounts, stopped |-> next.stopped] /\ AccountsOk(next.accounts)
<1> DEFINE next == AddParticipant(acc, account, host)
           k == account.key
<1>1. account.threshold \in Nat /\ AsU32(account.id) \in 0..(IdSpan - 1)
  BY DirkAssumption, AsU32Type
<1>2. CASE acc.stopped \/ account.id = 0
  <2>1. next = acc
    BY <1>2, Zenon DEF AddParticipant
  <2> QED
    BY <2>1
<1>3. CASE ~(acc.stopped \/ account.id = 0) /\ k \notin DOMAIN acc.accounts
  <2> DEFINE one == [i \in {AsU32(account.id)} |-> host]
  <2>1. next = [acc EXCEPT !.accounts = Put(@, k, Distributed(account, host))]
    BY <1>3, Zenon DEF AddParticipant
  <2>2. one \in UNION {[E -> Range(Hosts)] : E \in SUBSET (0..(IdSpan - 1))}
    <3>1. {AsU32(account.id)} \in SUBSET (0..(IdSpan - 1)) /\ one \in [{AsU32(account.id)} -> Range(Hosts)]
      BY <1>1
    <3> QED
      BY <3>1, Zenon
  <2>3. Lists(host, k, AsU32(account.id))
    BY <1>3, Zenon DEF Lists
  <2>4. AccountOk(k, Distributed(account, host))
    BY <1>1, <1>3, <2>2, <2>3, Zenon DEF AccountOk, AccountType, Distributed
  <2>5. /\ next.accounts = Put(acc.accounts, k, Distributed(account, host))
        /\ next = [accounts |-> next.accounts, stopped |-> next.stopped]
    <3>1. [acc EXCEPT !.accounts = Put(acc.accounts, k, Distributed(account, host))]
            = [accounts |-> Put(acc.accounts, k, Distributed(account, host)), stopped |-> acc.stopped]
      <4>1. PICK accs, stopped : acc = [accounts |-> accs, stopped |-> stopped]
        OBVIOUS
      <4> QED
        BY <4>1
    <3> QED
      BY <2>1, <3>1
  <2>6. AccountsOk(next.accounts)
    BY <2>4, <2>5, Zenon DEF AccountsOk, Put
  <2> QED
    BY <2>5, <2>6
<1>4. CASE /\ ~(acc.stopped \/ account.id = 0) /\ k \in DOMAIN acc.accounts
           /\ acc.accounts[k].kind = "simple"
  <2>1. next = [acc EXCEPT !.stopped = TRUE]
    BY <1>4, Zenon DEF AddParticipant
  <2>2. next = [accounts |-> acc.accounts, stopped |-> TRUE]
    BY <2>1, Zenon
  <2> QED
    BY <2>2
<1>5. CASE /\ ~(acc.stopped \/ account.id = 0) /\ k \in DOMAIN acc.accounts
           /\ acc.accounts[k].kind # "simple"
  <2> DEFINE old == acc.accounts[k]
             hosts == Put(old.hosts, AsU32(account.id), host)
             new == [old EXCEPT !.hosts = hosts]
  <2>1. next = [acc EXCEPT !.accounts[k].hosts = hosts]
    BY <1>5, Zenon DEF AddParticipant
  <2>2. AccountOk(k, old) /\ old \in AccountType /\ old.kind = "distributed"
    BY <1>5 DEF AccountsOk, AccountOk, AccountType
  <2>3. PICK D \in SUBSET (0..(IdSpan - 1)) : old.hosts \in [D -> Range(Hosts)]
    BY <2>2 DEF AccountType
  <2>4. /\ hosts \in UNION {[E -> Range(Hosts)] : E \in SUBSET (0..(IdSpan - 1))}
        /\ DOMAIN hosts = D \cup {AsU32(account.id)}
        /\ \A j \in D \cup {AsU32(account.id)} : hosts[j] = IF j = AsU32(account.id) THEN host ELSE old.hosts[j]
    <3> HIDE DEF old
    <3>1. PICK map \in [D -> Range(Hosts)] : map = old.hosts
      BY <2>3
    <3>2. PICK i \in 0..(IdSpan - 1) : i = AsU32(account.id)
      BY <1>1
    <3>3. Put(map, i, host) \in UNION {[E -> Range(Hosts)] : E \in SUBSET (0..(IdSpan - 1))}
      BY PutType, Zenon
    <3>4. /\ DOMAIN Put(map, i, host) = D \cup {i}
          /\ \A j \in D \cup {i} : Put(map, i, host)[j] = IF j = i THEN host ELSE map[j]
      BY DEF Put
    <3> QED
      BY <3>1, <3>2, <3>3, <3>4
  <2>5. Lists(host, k, AsU32(account.id))
    BY <1>5, Zenon DEF Lists
  <2> HIDE DEF old, hosts
  <2>6. new \in AccountType /\ new.hosts = hosts
    BY <2>2, <2>4 DEF AccountType
  <2>7. \A j \in D : Lists(old.hosts[j], k, j)
    BY <2>2, <2>3 DEF AccountOk
  <2>8. \A j \in DOMAIN hosts : Lists(hosts[j], k, j)
    BY <1>5, <2>4, <2>5, <2>7
  <2> HIDE DEF new
  <2>9. AccountOk(k, new)
    BY <2>6, <2>8 DEF AccountOk
  <2>10. /\ next.accounts = [acc.accounts EXCEPT ![k] = new]
         /\ next = [accounts |-> next.accounts, stopped |-> next.stopped]
    <3>1. next = [acc EXCEPT !.accounts = [acc.accounts EXCEPT ![k] = new]]
      BY <2>1, Zenon DEF new, old
    <3>2. [acc EXCEPT !.accounts = [acc.accounts EXCEPT ![k] = new]]
            = [accounts |-> [acc.accounts EXCEPT ![k] = new], stopped |-> acc.stopped]
      <4>1. PICK accs, stopped : acc = [accounts |-> accs, stopped |-> stopped]
        OBVIOUS
      <4> QED
        BY <4>1
    <3> HIDE DEF next
    <3> QED
      BY <3>1, <3>2
  <2>11. AccountsOk(next.accounts)
    BY <2>9, <2>10, Zenon DEF AccountsOk
  <2> QED
    BY <2>10, <2>11
<1> QED
  BY <1>2, <1>3, <1>4, <1>5

Less == {p \in Nat \X Nat : p[1] < p[2]}

\* Every set of naturals has a least element.
LEMMA LeastElement ==
  ASSUME NEW T \in SUBSET Nat, T # {}
  PROVE  \E x \in T : \A y \in T : x <= y
<1>1. IsWellFoundedOn(Less, Nat)
  BY NatLessThanWellFounded DEF OpToRel, Less
<1>2. PICK x \in T : \A y \in T : ~ (<<y, x>> \in Less)
  BY <1>1, WFMin, Zenon
<1>3. \A y \in T : <<y, x>> \in Less <=> y < x
  BY DEF Less
<1>4. \A y \in T : ~ (y < x)
  BY <1>2, <1>3, Zenon
<1> QED
  BY <1>4

\* The states of the loop of load_distributed_accounts, up to the n-th.
IsAdded(g, accs, alist, host, n) ==
  g = [m \in 0..n |-> IF m = 0 THEN [accounts |-> accs, stopped |-> FALSE]
                      ELSE AddParticipant(g[m - 1], alist[m], host)]

LEMMA AddedExists ==
  ASSUME NEW accs, NEW alist, NEW host, NEW n \in Nat
  PROVE  \E g : IsAdded(g, accs, alist, host, n)
<1> DEFINE T == {m \in Nat : ~ \E g : IsAdded(g, accs, alist, host, m)}
           start == [accounts |-> accs, stopped |-> FALSE]
<1> SUFFICES ASSUME T # {} PROVE FALSE
  OBVIOUS
<1>1. PICK m \in T : \A y \in T : m <= y
  BY LeastElement, Zenon
<1>2. CASE m = 0
  <2>1. IsAdded([j \in 0..0 |-> start], accs, alist, host, 0)
    BY DEF IsAdded
  <2> QED
    BY <1>1, <1>2, <2>1
<1>3. CASE m # 0
  <2>1. m - 1 \in Nat /\ ~(m <= m - 1)
    BY <1>1, <1>3
  <2>2. PICK g : IsAdded(g, accs, alist, host, m - 1)
    BY <1>1, <2>1
  <2> DEFINE last == AddParticipant(g[m - 1], alist[m], host)
             h == [j \in 0..m |-> IF j = m THEN last ELSE g[j]]
  <2>3. \A j \in 0..(m - 1) : g[j] = IF j = 0 THEN start ELSE AddParticipant(g[j - 1], alist[j], host)
    <3>1. g = [j \in 0..(m - 1) |-> IF j = 0 THEN start ELSE AddParticipant(g[j - 1], alist[j], host)]
      BY <2>2, Zenon DEF IsAdded
    <3> QED
      BY <3>1, Zenon
  <2>4. ASSUME NEW j \in 0..m
        PROVE  h[j] = IF j = 0 THEN start ELSE AddParticipant(h[j - 1], alist[j], host)
    <3>1. CASE j = m
      <4>1. h[j] = last /\ h[j - 1] = g[m - 1]
        BY <1>3, <2>1, <3>1
      <4> QED
        BY <1>3, <3>1, <4>1
    <3>2. CASE j # m /\ j = 0
      <4>1. h[j] = g[0] /\ 0 \in 0..(m - 1)
        BY <1>1, <1>3, <3>2, SMTT(30)
      <4> QED
        BY <2>3, <3>2, <4>1, Zenon
    <3>3. CASE j # m /\ j # 0
      <4>1. j \in 0..(m - 1) /\ j - 1 \in 0..m /\ j - 1 # m
        BY <1>1, <3>3
      <4>2. h[j] = g[j] /\ h[j - 1] = g[j - 1]
        BY <3>3, <4>1
      <4>3. g[j] = AddParticipant(g[j - 1], alist[j], host)
        BY <2>3, <3>3, <4>1, Zenon
      <4> QED
        BY <3>3, <4>2, <4>3
    <3> QED
      BY <3>1, <3>2, <3>3
  <2>5. IsAdded(h, accs, alist, host, m)
    <3>1. h = [j \in 0..m |-> h[j]]
      BY Zenon
    <3> HIDE DEF h
    <3>2. h = [j \in 0..m |-> IF j = 0 THEN start ELSE AddParticipant(h[j - 1], alist[j], host)]
      BY <2>4, <3>1, Zenon
    <3> QED
      BY <3>2, SMTT(30) DEF IsAdded
  <2> QED
    BY <1>1, <2>5
<1> QED
  BY <1>2, <1>3

LEMMA LoadDistributedOk ==
  ASSUME NEW accs, AccountsOk(accs), NEW host \in Range(Hosts)
  PROVE  AccountsOk(LoadDistributed(accs, Listing[host].distributed, host))
<1> DEFINE alist == Listing[host].distributed
           n == Len(alist)
<1>1. n \in Nat /\ \A m \in 1..n : alist[m] \in Range(alist)
  <2>1. alist \in Seq(Range(alist))
    BY DirkAssumption, SMTT(30)
  <2> QED
    BY <2>1
<1>2. PICK g : /\ IsAdded(g, accs, alist, host, n)
               /\ LoadDistributed(accs, alist, host) = g[n].accounts
  <2>1. \E g : IsAdded(g, accs, alist, host, n)
    BY <1>1, AddedExists, Zenon
  <2> HIDE DEF alist
  <2>2. IsAdded((CHOOSE g : IsAdded(g, accs, alist, host, n)), accs, alist, host, n)
    BY <2>1, Zenon
  <2>3. LoadDistributed(accs, alist, host) = (CHOOSE g : IsAdded(g, accs, alist, host, n))[n].accounts
    BY DEF LoadDistributed, IsAdded
  <2> QED
    BY <2>2, <2>3, Zenon
<1> HIDE DEF n
<1>3. \A m \in 0..n : g[m] = IF m = 0 THEN [accounts |-> accs, stopped |-> FALSE]
                             ELSE AddParticipant(g[m - 1], alist[m], host)
  BY <1>2, Zenon DEF IsAdded
<1> DEFINE Good(x) == x = [accounts |-> x.accounts, stopped |-> x.stopped] /\ AccountsOk(x.accounts)
           Bad == {m \in 0..n : ~ Good(g[m])}
<1>4. Bad = {}
  <2> SUFFICES ASSUME Bad # {} PROVE FALSE
    BY SMTT(30)
  <2>1. Bad \in SUBSET Nat
    BY <1>1
  <2>2. PICK m \in Bad : \A y \in Bad : m <= y
    BY <2>1, LeastElement, Zenon
  <2>3. CASE m = 0
    BY <1>3, <2>2, <2>3, SMTT(30)
  <2>4. CASE m # 0
    <3>1. m \in 1..n /\ m - 1 \in 0..n /\ ~(m <= m - 1)
      BY <1>1, <2>2, <2>4, SMTT(30)
    <3>2. Good(g[m - 1])
      BY <2>2, <3>1, SMTT(30)
    <3>3. g[m] = AddParticipant(g[m - 1], alist[m], host)
      BY <1>3, <2>2, <2>4, SMTT(30)
    <3>4. alist[m] \in Range(alist)
      BY <1>1, <3>1, SMTT(30)
    <3>5. PICK x : x = g[m - 1]
      BY SMTT(30)
    <3>6. Good(AddParticipant(x, alist[m], host))
      BY <3>2, <3>4, <3>5, AddParticipantOk, Zenon
    <3> QED
      BY <2>2, <3>3, <3>5, <3>6, Zenon
  <2> QED
    BY <2>3, <2>4, SMTT(30)
<1>5. AccountsOk(g[n].accounts)
  <2>1. n \in 0..n
    BY <1>1
  <2> QED
    BY <1>4, <2>1, Zenon
<1> QED
  BY <1>2, <1>5

LEMMA LoadHostOk ==
  ASSUME NEW accs, AccountsOk(accs), NEW host \in Range(Hosts)
  PROVE  AccountsOk(LoadHost(accs, Listing[host], host))
  BY LoadSimpleOk, LoadDistributedOk DEF LoadHost

-----------------------------------------------------------------------------
(***************************************************************************)
(* The inductive invariant.  A signature in progress accounts for every    *)
(* participant: to be answered, failed or with a partial; one that was     *)
(* refused has too few partials and no answer to come, or one that does    *)
(* not decode.  A proxy in creation is none in use, and has been through   *)
(* the steps before its own.                                               *)
(***************************************************************************)
Refused(s, account) ==
  \/ /\ DOMAIN account.hosts = s.failed \cup DOMAIN s.partials
     /\ Cardinality(DOMAIN s.partials) < account.threshold
  \/ /\ Garbled \in Range(s.partials)
     /\ Cardinality(DOMAIN s.partials) >= account.threshold

Covers(s, account) ==
  /\ s.pc = "waiting" => DOMAIN account.hosts = s.pending \cup s.failed \cup DOMAIN s.partials
  /\ s.pc = "err" => Refused(s, account)

SignInv ==
  /\ sign = [pc |-> sign.pc, key |-> sign.key, pending |-> sign.pending,
             partials |-> sign.partials, failed |-> sign.failed, ans |-> sign.ans]
  /\ sign.pc \in {"waiting", "err"} =>
       /\ Ready /\ sign.key \in DOMAIN accounts \cup DOMAIN proxies
       /\ Covers(sign, AccountOf(sign.key))

GenInv ==
  /\ gen = [pc |-> gen.pc, module |-> gen.module, key |-> gen.key, proxy |-> gen.proxy,
            at |-> gen.at, left |-> gen.left]
  /\ gen.pc # "idle" => /\ Ready /\ gen.key \in DOMAIN accounts
                        /\ gen.proxy \in Proxies /\ gen.proxy \notin DOMAIN proxies
  /\ gen.pc \in {"password", "unlock", "delegate"} => gen.proxy \in created
  /\ gen.pc \in {"unlock", "delegate"} => gen.proxy \in passwords
  /\ gen.pc = "delegate" => Cardinality(unlocked[gen.proxy]) >= accounts[gen.key].threshold

ProxyInv ==
  /\ DOMAIN proxies # {} => Ready
  /\ \A p \in DOMAIN proxies : p \in Proxies /\ proxies[p].consensus \in DOMAIN accounts
  /\ DOMAIN unlocked = Proxies

DirkInv ==
  /\ loading \in 1..(Len(Hosts) + 1) /\ AccountsOk(accounts)
  /\ SignInv /\ GenInv /\ ProxyInv /\ ProxyReady

LEMMA DirkInitInv == DirkInit => DirkInv
<1> SUFFICES ASSUME DirkInit PROVE DirkInv
  OBVIOUS
<1>1. loading = 1 /\ Len(Hosts) \in Nat
  BY DirkAssumption DEF DirkInit
<1>2. /\ DOMAIN accounts = {} /\ DOMAIN proxies = {} /\ DOMAIN unlocked = Proxies
      /\ sign = NoSign /\ gen = NoGen
  BY SMTT(30) DEF DirkInit
<1>3. SignInv /\ GenInv
  BY <1>2 DEF SignInv, GenInv, NoSign, NoGen
<1>4. AccountsOk(accounts) /\ ProxyInv /\ ProxyReady
  BY <1>2 DEF AccountsOk, ProxyInv, ProxyReady
<1> QED
  BY <1>1, <1>3, <1>4 DEF DirkInv

\* The account behind a key in use.
LEMMA AccountFacts ==
  ASSUME AccountsOk(accounts), ProxyInv, NEW k \in DOMAIN accounts \cup DOMAIN proxies
  PROVE  /\ AccountOf(k).threshold \in Nat /\ IsFiniteSet(DOMAIN AccountOf(k).hosts)
         /\ DOMAIN AccountOf(k).hosts \in SUBSET (0..(IdSpan - 1))
<1>1. PICK c \in DOMAIN accounts : AccountOf(k) = accounts[c]
  BY DEF AccountOf, ConsensusOf, ProxyInv
<1>2. accounts[c] \in AccountType
  BY <1>1 DEF AccountsOk, AccountOk
<1>3. accounts[c].threshold \in Nat /\ DOMAIN accounts[c].hosts \in SUBSET (0..(IdSpan - 1))
  BY <1>2 DEF AccountType
<1>4. IsFiniteSet(0..(IdSpan - 1))
  BY FieldAssumption, FS_Interval, SMTT(30)
<1> QED
  BY <1>1, <1>3, <1>4, FS_Subset, Zenon

\* A signature that begins.
LEMMA NewSignCovers ==
  ASSUME AccountsOk(accounts), ProxyInv, NEW k \in DOMAIN accounts \cup DOMAIN proxies
  PROVE  /\ NewSign(k) = [pc |-> "waiting", key |-> k, pending |-> DOMAIN AccountOf(k).hosts,
                          partials |-> <<>>, failed |-> {}, ans |-> 0]
         /\ Covers(NewSign(k), AccountOf(k))
<1>1. NewSign(k) = [pc |-> "waiting", key |-> k, pending |-> DOMAIN AccountOf(k).hosts,
                    partials |-> <<>>, failed |-> {}, ans |-> 0]
  <2>1. PICK hosts : hosts = DOMAIN AccountOf(k).hosts
    OBVIOUS
  <2>2. NewSign(k) = [NoSign EXCEPT !.pc = "waiting", !.key = k, !.pending = hosts]
    BY <2>1, Zenon DEF NewSign
  <2> QED
    BY <2>1, <2>2, Zenon DEF NoSign
<1>2. DOMAIN NewSign(k).partials = {}
  BY <1>1
<1>3. NewSign(k).pc = "waiting" /\ NewSign(k).pending = DOMAIN AccountOf(k).hosts /\ NewSign(k).failed = {}
  BY <1>1, SMTT(30)
<1>4. Covers(NewSign(k), AccountOf(k))
  BY <1>2, <1>3, SMTT(30) DEF Covers
<1> QED
  BY <1>1, <1>4

\* What a step leaves of the signature in progress.
LEMMA SignKept ==
  ASSUME SignInv, UNCHANGED <<loading, accounts, proxies, sign>>
  PROVE  SignInv'
  BY SMTT(30) DEF SignInv, AccountOf, ConsensusOf, Ready

LEMMA GenKept ==
  ASSUME GenInv, UNCHANGED <<loading, accounts, proxies, gen, created, unlocked, passwords>>
  PROVE  GenInv'
  BY DEF GenInv, Ready

\* DirkManager::new
LEMMA LoadAccountsKeeps == ASSUME DirkInv, LoadAccounts PROVE DirkInv'
<1>1. /\ loading \in 1..(Len(Hosts) + 1) /\ loading <= Len(Hosts) /\ loading' = loading + 1
      /\ Len(Hosts) \in Nat /\ AccountsOk(accounts) /\ SignInv /\ GenInv /\ ProxyInv
  BY DirkAssumption DEF DirkInv, LoadAccounts
<1>2. UNCHANGED <<proxies, sign, gen, created, unlocked, passwords, delegations>>
  BY DEF LoadAccounts
<1>3. loading' \in 1..(Len(Hosts) + 1) /\ ~ Ready
  BY <1>1, SMTT(30) DEF Ready
<1>4. Hosts[loading] \in Range(Hosts)
  BY <1>1, DirkAssumption, SMTT(30) DEF Range
<1>5. AccountsOk(accounts')
  <2>1. CASE UNCHANGED accounts
    BY <1>1, <2>1, SMTT(30)
  <2>2. CASE accounts' = LoadHost(accounts, Listing[Hosts[loading]], Hosts[loading])
    BY <1>1, <1>4, <2>2, LoadHostOk, SMTT(30)
  <2> QED
    BY <2>1, <2>2 DEF LoadAccounts
<1>6. sign.pc \notin {"waiting", "err"} /\ gen.pc = "idle" /\ DOMAIN proxies = {}
  BY <1>1, <1>3, Zenon DEF SignInv, GenInv, ProxyInv
<1>7. SignInv' /\ GenInv'
  BY <1>1, <1>2, <1>6 DEF SignInv, GenInv
<1>8. ProxyInv' /\ ProxyReady'
  BY <1>1, <1>2, <1>6 DEF ProxyInv, ProxyReady
<1> QED
  BY <1>3, <1>5, <1>7, <1>8, SMTT(30) DEF DirkInv

LEMMA DirkRestartKeeps == ASSUME DirkInv, DirkRestart PROVE DirkInv'
<1>1. /\ loading' = 1 /\ DOMAIN accounts' = {} /\ DOMAIN proxies' = {} /\ sign' = NoSign /\ gen' = NoGen
      /\ UNCHANGED <<created, unlocked, passwords, delegations>> /\ Len(Hosts) \in Nat /\ ProxyInv
  BY DirkAssumption, SMTT(30) DEF DirkRestart, DirkInv
<1>2. SignInv' /\ GenInv'
  BY <1>1, SMTT(30) DEF SignInv, GenInv, NoSign, NoGen
<1>3. AccountsOk(accounts)' /\ ProxyInv' /\ ProxyReady'
  BY <1>1, SMTT(30) DEF AccountsOk, ProxyInv, ProxyReady
<1> QED
  BY <1>1, <1>2, <1>3, SMTT(30) DEF DirkInv

LEMMA BeginSignKeeps == ASSUME DirkInv, NEW k, BeginSign(k) PROVE DirkInv'
<1>1. /\ Ready /\ k \in DOMAIN accounts \cup DOMAIN proxies /\ sign' = NewSign(k)
      /\ UNCHANGED <<loading, accounts, proxies, gen, created, unlocked, passwords, delegations>>
      /\ AccountsOk(accounts) /\ ProxyInv /\ GenInv
  BY DEF BeginSign, DirkInv
<1>2. AccountOf(k)' = AccountOf(k) /\ Ready'
  BY <1>1, SMTT(30) DEF AccountOf, ConsensusOf, Ready
<1>3. /\ sign' = [pc |-> "waiting", key |-> k, pending |-> DOMAIN AccountOf(k).hosts,
                  partials |-> <<>>, failed |-> {}, ans |-> 0]
      /\ Covers(sign', AccountOf(k))
  BY <1>1, NewSignCovers, SMTT(30)
<1>4. SignInv'
  BY <1>1, <1>2, <1>3, SMTT(30) DEF SignInv
<1>5. GenInv'
  BY <1>1, GenKept, SMTT(30)
<1> QED
  BY <1>1, <1>4, <1>5, SMTT(30) DEF DirkInv, AccountsOk, ProxyInv, ProxyReady, Ready

(***************************************************************************)
(* An answer of a participant: one fewer to come, and one more failure or  *)
(* partial signature.                                                      *)
(***************************************************************************)
LEMMA EndedForms ==
  ASSUME NEW s
  PROVE  \/ \E ans : Ended(s) = [s EXCEPT !.pc = "ok", !.pending = {}, !.ans = ans]
         \/ /\ Ended(s) = [s EXCEPT !.pc = "err", !.pending = {}]
            /\ ~ Enough(s) \/ (Enough(s) /\ Garbled \in Range(s.partials))
  BY Zenon DEF Ended

LEMMA CombinedCovers ==
  ASSUME DirkInv, sign.pc = "waiting", NEW s,
         s = [pc |-> "waiting", key |-> sign.key, pending |-> s.pending,
              partials |-> s.partials, failed |-> s.failed, ans |-> s.ans],
         DOMAIN AccountOf(sign.key).hosts = s.pending \cup s.failed \cup DOMAIN s.partials,
         IsFiniteSet(DOMAIN s.partials), sign' = Combined(s),
         UNCHANGED <<loading, accounts, proxies, gen, created, unlocked, passwords, delegations>>
  PROVE  DirkInv'
<1> DEFINE account == AccountOf(sign.key)
           c == Combined(s)
<1>1. /\ SignInv /\ GenInv /\ ProxyInv /\ AccountsOk(accounts) /\ Ready
      /\ sign.key \in DOMAIN accounts \cup DOMAIN proxies
  BY SMTT(30) DEF DirkInv, SignInv
<1>2. account.threshold \in Nat
  BY <1>1, AccountFacts, SMTT(30)
<1>3. Cardinality(DOMAIN s.partials) \in Nat
  BY FS_CardinalityType, SMTT(30)
<1>4. (\A k : AccountOf(k)' = AccountOf(k)) /\ Ready'
  BY <1>1, SMTT(30) DEF AccountOf, ConsensusOf, Ready
<1>5. s.key = sign.key /\ s.pc = "waiting"
  BY SMTT(30)
<1>6. Enough(s) <=> Cardinality(DOMAIN s.partials) >= account.threshold
  BY <1>5, Zenon DEF Enough
<1>7. PICK pending, partials, failed, a :
        s = [pc |-> "waiting", key |-> sign.key, pending |-> pending,
             partials |-> partials, failed |-> failed, ans |-> a]
  BY Zenon
<1>8. sign' = c
  BY Zenon
<1> HIDE DEF account, c
<1>9. CASE \E ans : c = [s EXCEPT !.pc = "ok", !.pending = {}, !.ans = ans]
  <2>1. PICK ans : c = [s EXCEPT !.pc = "ok", !.pending = {}, !.ans = ans]
    BY <1>9, Zenon
  <2>2. c = [pc |-> "ok", key |-> sign.key, pending |-> {}, partials |-> partials,
             failed |-> failed, ans |-> ans]
    BY <1>7, <2>1, Zenon
  <2>3. SignInv'
    BY <1>8, <2>2 DEF SignInv
  <2> QED
    BY <1>1, <2>3, GenKept, Zenon DEF DirkInv, AccountsOk, ProxyInv, ProxyReady, Ready
<1>10. ASSUME c = [pc |-> c.pc, key |-> c.key, pending |-> c.pending, partials |-> c.partials,
                   failed |-> c.failed, ans |-> c.ans],
              c.key = sign.key, Covers(c, account)
       PROVE  DirkInv'
  <2>1. SignInv'
    BY <1>1, <1>4, <1>8, <1>10, Zenon DEF SignInv, account
  <2> QED
    BY <1>1, <2>1, GenKept, Zenon DEF DirkInv, AccountsOk, ProxyInv, ProxyReady, Ready
<1>11. CASE /\ c = [s EXCEPT !.pc = "err", !.pending = {}]
            /\ s.pending = {} \/ Enough(s)
            /\ ~ Enough(s) \/ (Enough(s) /\ Garbled \in Range(s.partials))
  <2>1. c = [pc |-> "err", key |-> sign.key, pending |-> {}, partials |-> s.partials,
             failed |-> s.failed, ans |-> s.ans]
    BY <1>7, <1>11, Zenon
  <2>2. c.pc = "err" /\ c.key = sign.key /\ c.failed = s.failed /\ c.partials = s.partials
    BY <2>1, Zenon
  <2>3. Refused(c, account)
    <3>1. CASE Enough(s)
      BY <1>6, <1>11, <2>2, <3>1, Zenon DEF Refused
    <3>2. CASE ~ Enough(s)
      <4>1. Cardinality(DOMAIN s.partials) < account.threshold
        BY <1>2, <1>3, <1>6, <3>2
      <4>2. DOMAIN account.hosts = s.failed \cup DOMAIN s.partials
        BY <1>11, <3>2 DEF account
      <4> QED
        BY <2>2, <4>1, <4>2, Zenon DEF Refused
    <3> QED
      BY <3>1, <3>2
  <2>4. Covers(c, account)
    BY <2>2, <2>3 DEF Covers
  <2> QED
    <3>1. c = [pc |-> c.pc, key |-> c.key, pending |-> c.pending, partials |-> c.partials,
               failed |-> c.failed, ans |-> c.ans]
      BY <2>1, Zenon
    <3> QED
      BY <1>10, <2>2, <2>4, <3>1, Zenon
<1>12. CASE c = s
  <2>1. Covers(c, account)
    BY <1>5, <1>12 DEF Covers, account
  <2> QED
    BY <1>5, <1>7, <1>10, <1>12, <2>1, Zenon
<1> QED
  BY <1>9, <1>11, <1>12, EndedForms, Zenon DEF c, Combined

LEMMA PartialErrKeeps == ASSUME DirkInv, NEW i, PartialErr(i) PROVE DirkInv'
<1> DEFINE s == [sign EXCEPT !.pending = @ \ {i}, !.failed = @ \cup {i}]
<1>1. /\ sign.pc = "waiting" /\ i \in sign.pending /\ sign' = Combined(s)
      /\ UNCHANGED <<loading, accounts, proxies, gen, created, unlocked, passwords, delegations>>
      /\ SignInv /\ AccountsOk(accounts) /\ ProxyInv
  BY DEF PartialErr, DirkInv
<1>2. sign.key \in DOMAIN accounts \cup DOMAIN proxies /\ Covers(sign, AccountOf(sign.key))
  BY <1>1 DEF SignInv
<1>3. s = [pc |-> "waiting", key |-> sign.key, pending |-> sign.pending \ {i}, partials |-> sign.partials,
           failed |-> sign.failed \cup {i}, ans |-> sign.ans]
  <2>1. PICK pc, key, pending, partials, failed, ans :
          sign = [pc |-> pc, key |-> key, pending |-> pending, partials |-> partials,
                  failed |-> failed, ans |-> ans]
    BY <1>1, Zenon DEF SignInv
  <2>2. /\ sign.pc = pc /\ sign.key = key /\ sign.pending = pending /\ sign.partials = partials
        /\ sign.failed = failed /\ sign.ans = ans
    BY <2>1
  <2>3. s = [pc |-> pc, key |-> key, pending |-> pending \ {i}, partials |-> partials,
             failed |-> failed \cup {i}, ans |-> ans]
    <3>1. PICK x, y : x = pending \ {i} /\ y = failed \cup {i}
      BY Zenon
    <3>2. s = [sign EXCEPT !.pending = x, !.failed = y]
      BY <2>2, <3>1, Zenon
    <3>3. [sign EXCEPT !.pending = x]
            = [pc |-> pc, key |-> key, pending |-> x, partials |-> partials, failed |-> failed, ans |-> ans]
      BY <2>1
    <3>4. PICK r : r = [pc |-> pc, key |-> key, pending |-> x, partials |-> partials,
                        failed |-> failed, ans |-> ans]
      BY Zenon
    <3>5. [r EXCEPT !.failed = y]
            = [pc |-> pc, key |-> key, pending |-> x, partials |-> partials, failed |-> y, ans |-> ans]
      BY <3>4
    <3> HIDE DEF s
    <3> QED
      BY <3>1, <3>2, <3>3, <3>4, <3>5, Zenon
  <2> QED
    BY <1>1, <2>2, <2>3
<1> HIDE DEF s
<1>4. /\ s.pending = sign.pending \ {i} /\ s.partials = sign.partials /\ s.failed = sign.failed \cup {i}
      /\ s = [pc |-> "waiting", key |-> sign.key, pending |-> s.pending, partials |-> s.partials,
              failed |-> s.failed, ans |-> s.ans]
  BY <1>3, Zenon
<1>5. DOMAIN AccountOf(sign.key).hosts = s.pending \cup s.failed \cup DOMAIN s.partials
  BY <1>1, <1>2, <1>4, SMTT(30) DEF Covers
<1>6. IsFiniteSet(DOMAIN s.partials)
  <2>1. IsFiniteSet(DOMAIN AccountOf(sign.key).hosts)
    BY <1>1, <1>2, AccountFacts, SMTT(30)
  <2> QED
    BY <1>5, <2>1, FS_Subset, SMTT(30)
<1> QED
  BY <1>1, <1>4, <1>5, <1>6, CombinedCovers

LEMMA PartialKeeps ==
  ASSUME DirkInv, NEW i, NEW share, sign.pc = "waiting", i \in sign.pending,
         sign' = Combined([sign EXCEPT !.pending = @ \ {i}, !.partials = Put(@, i, share)]),
         UNCHANGED <<loading, accounts, proxies, gen, created, unlocked, passwords, delegations>>
  PROVE  DirkInv'
<1> DEFINE s == [sign EXCEPT !.pending = @ \ {i}, !.partials = Put(@, i, share)]
<1>1. /\ sign.pc = "waiting" /\ i \in sign.pending /\ sign' = Combined(s)
      /\ UNCHANGED <<loading, accounts, proxies, gen, created, unlocked, passwords, delegations>>
      /\ SignInv /\ AccountsOk(accounts) /\ ProxyInv
  BY Zenon DEF DirkInv
<1>2. sign.key \in DOMAIN accounts \cup DOMAIN proxies /\ Covers(sign, AccountOf(sign.key))
  BY <1>1 DEF SignInv
<1>3. s = [pc |-> "waiting", key |-> sign.key, pending |-> sign.pending \ {i},
           partials |-> Put(sign.partials, i, share), failed |-> sign.failed, ans |-> sign.ans]
  <2>1. PICK pc, key, pending, partials, failed, ans :
          sign = [pc |-> pc, key |-> key, pending |-> pending, partials |-> partials,
                  failed |-> failed, ans |-> ans]
    BY <1>1, Zenon DEF SignInv
  <2>2. /\ sign.pc = pc /\ sign.key = key /\ sign.pending = pending /\ sign.partials = partials
        /\ sign.failed = failed /\ sign.ans = ans
    BY <2>1
  <2>3. s = [pc |-> pc, key |-> key, pending |-> pending \ {i},
             partials |-> Put(partials, i, share), failed |-> failed, ans |-> ans]
    <3>1. PICK x, y : x = pending \ {i} /\ y = Put(partials, i, share)
      BY Zenon
    <3>2. s = [sign EXCEPT !.pending = x, !.partials = y]
      BY <2>2, <3>1, Zenon
    <3>3. [sign EXCEPT !.pending = x]
            = [pc |-> pc, key |-> key, pending |-> x, partials |-> partials, failed |-> failed, ans |-> ans]
      BY <2>1
    <3>4. PICK r : r = [pc |-> pc, key |-> key, pending |-> x, partials |-> partials,
                        failed |-> failed, ans |-> ans]
      BY Zenon
    <3>5. [r EXCEPT !.partials = y]
            = [pc |-> pc, key |-> key, pending |-> x, partials |-> y, failed |-> failed, ans |-> ans]
      BY <3>4
    <3> HIDE DEF s
    <3> QED
      BY <3>1, <3>2, <3>3, <3>4, <3>5, Zenon
  <2> QED
    BY <1>1, <2>2, <2>3, Zenon
<1> HIDE DEF s
<1>4. /\ s.pending = sign.pending \ {i} /\ s.partials = Put(sign.partials, i, share)
      /\ s.failed = sign.failed
      /\ s = [pc |-> "waiting", key |-> sign.key, pending |-> s.pending, partials |-> s.partials,
              failed |-> s.failed, ans |-> s.ans]
  BY <1>3, Zenon
<1>5. DOMAIN s.partials = DOMAIN sign.partials \cup {i}
  BY <1>4, Zenon DEF Put
<1>6. DOMAIN AccountOf(sign.key).hosts = s.pending \cup s.failed \cup DOMAIN s.partials
  BY <1>1, <1>2, <1>4, <1>5, Zenon DEF Covers
<1>7. IsFiniteSet(DOMAIN s.partials)
  <2>1. IsFiniteSet(DOMAIN AccountOf(sign.key).hosts)
    BY <1>1, <1>2, AccountFacts, Zenon
  <2> QED
    BY <1>6, <2>1, FS_Subset, SMTT(30)
<1> QED
  BY <1>1, <1>4, <1>6, <1>7, CombinedCovers, Zenon

LEMMA PartialOkKeeps == ASSUME DirkInv, NEW i, PartialOk(i) PROVE DirkInv'
  BY PartialKeeps, Zenon DEF PartialOk

LEMMA PartialGarbledKeeps == ASSUME DirkInv, NEW i, PartialGarbled(i) PROVE DirkInv'
  BY PartialKeeps, Zenon DEF PartialGarbled

\* generate_proxy_key, step by step.
LEMMA BeginGenerateKeeps ==
  ASSUME DirkInv, NEW m, NEW k, NEW p \in Proxies, BeginGenerate(m, k, p)
  PROVE  DirkInv'
<1>1. /\ Ready /\ k \in DOMAIN accounts /\ p \notin created
      /\ \E i, l : gen' = [pc |-> "generate", module |-> m, key |-> k, proxy |-> p, at |-> i, left |-> l]
      /\ sign' = NoSign
      /\ UNCHANGED <<loading, accounts, proxies, created, unlocked, passwords, delegations>>
      /\ ProxyInv /\ ProxyReady /\ Ready'
  BY Zenon DEF BeginGenerate, DirkInv, Ready
<1>2. p \notin DOMAIN proxies
  BY <1>1, Zenon DEF ProxyReady
<1>3. GenInv'
  <2>1. PICK i, l : gen' = [pc |-> "generate", module |-> m, key |-> k, proxy |-> p, at |-> i, left |-> l]
    BY <1>1, Zenon
  <2> QED
    BY <1>1, <1>2, <2>1, Zenon DEF GenInv
<1>4. SignInv'
  BY <1>1, Zenon DEF SignInv, NoSign
<1> QED
  BY <1>1, <1>3, <1>4, Zenon DEF DirkInv, AccountsOk, ProxyInv, ProxyReady, Ready

\* A step of a creation that is given up leaves nothing in progress.
LEMMA GivenUp == ASSUME gen' = NoGen PROVE GenInv'
  BY DEF GenInv, NoGen

LEMMA GenShape ==
  ASSUME GenInv, NEW pc
  PROVE  [gen EXCEPT !.pc = pc] = [pc |-> pc, module |-> gen.module, key |-> gen.key,
                                   proxy |-> gen.proxy,
                  at |-> gen.at, left |-> gen.left]
<1>1. PICK a, m, k, p, i, l : gen = [pc |-> a, module |-> m, key |-> k, proxy |-> p, at |-> i, left |-> l]
  BY Zenon DEF GenInv
<1> QED
  BY <1>1

LEMMA GenerateAtKeeps == ASSUME DirkInv, GenerateAt PROVE DirkInv'
<1>1. /\ gen.pc = "generate" /\ SignInv /\ GenInv /\ ProxyInv /\ ProxyReady
      /\ UNCHANGED <<loading, accounts, proxies, sign, unlocked, passwords, delegations>>
      /\ created \subseteq created'
      /\ TryNext \/ (gen' = [gen EXCEPT !.pc = "password"] /\ gen.proxy \in created')
  BY Zenon DEF GenerateAt, DirkInv
<1>2. Ready /\ Ready' /\ gen.key \in DOMAIN accounts /\ gen.proxy \in Proxies /\ gen.proxy \notin DOMAIN proxies
  BY <1>1 DEF GenInv, Ready
<1>3. GenInv'
  <2>1. CASE gen' = NoGen
    BY <2>1, GivenUp
  <2>2. ASSUME NEW i, gen' = [gen EXCEPT !.at = i, !.left = @ \ {i}]
        PROVE  GenInv'
    <3>1. gen' = [pc |-> "generate", module |-> gen.module, key |-> gen.key, proxy |-> gen.proxy,
                  at |-> i, left |-> gen.left \ {i}]
      <4>1. PICK a, m, k, p, j, l : gen = [pc |-> a, module |-> m, key |-> k, proxy |-> p, at |-> j, left |-> l]
        BY <1>1, Zenon DEF GenInv
      <4> QED
        BY <1>1, <2>2, <4>1, Zenon
    <3> QED
      BY <1>1, <1>2, <3>1 DEF GenInv
  <2>3. CASE gen' = [gen EXCEPT !.pc = "password"] /\ gen.proxy \in created'
    <3>1. gen' = [pc |-> "password", module |-> gen.module, key |-> gen.key, proxy |-> gen.proxy,
                  at |-> gen.at, left |-> gen.left]
      BY <1>1, <2>3, GenShape
    <3> QED
      BY <1>1, <1>2, <2>3, <3>1 DEF GenInv
  <2> QED
    BY <1>1, <2>1, <2>2, <2>3, Zenon DEF TryNext
<1>4. SignInv'
  BY <1>1, SignKept, SMTT(30)
<1> QED
  BY <1>1, <1>3, <1>4, Zenon DEF DirkInv, AccountsOk, ProxyInv, ProxyReady, Ready

LEMMA StorePasswordKeeps == ASSUME DirkInv, StorePassword PROVE DirkInv'
<1>1. /\ gen.pc = "password" /\ SignInv /\ GenInv /\ ProxyInv /\ ProxyReady
      /\ UNCHANGED <<loading, accounts, proxies, sign, created, unlocked, delegations>>
      /\ passwords \subseteq passwords'
      /\ gen' = NoGen \/ (gen' = [gen EXCEPT !.pc = "unlock"] /\ gen.proxy \in passwords')
  BY Zenon DEF StorePassword, DirkInv
<1>2. GenInv'
  <2>1. CASE gen' = [gen EXCEPT !.pc = "unlock"] /\ gen.proxy \in passwords'
    <3>1. gen' = [pc |-> "unlock", module |-> gen.module, key |-> gen.key, proxy |-> gen.proxy,
                  at |-> gen.at, left |-> gen.left]
      BY <1>1, <2>1, GenShape, Zenon
    <3> QED
      BY <1>1, <2>1, <3>1, Zenon DEF GenInv, Ready
  <2> QED
    BY <1>1, <2>1, GivenUp
<1>3. SignInv'
  BY <1>1, SignKept, Zenon
<1> QED
  BY <1>1, <1>2, <1>3, Zenon DEF DirkInv, AccountsOk, ProxyInv, ProxyReady, Ready

LEMMA UnlockAccountKeeps == ASSUME DirkInv, UnlockAccount PROVE DirkInv'
<1>1. PICK opened \in SUBSET DOMAIN accounts[gen.key].hosts :
        /\ unlocked' = [unlocked EXCEPT ![gen.proxy] = opened]
        /\ IF EnoughUnlocks(opened)
           THEN gen' = [gen EXCEPT !.pc = "delegate"] /\ sign' = NewSign(gen.key)
           ELSE gen' = NoGen /\ UNCHANGED sign
  BY Zenon DEF UnlockAccount
<1>2. /\ gen.pc = "unlock" /\ SignInv /\ GenInv /\ ProxyInv /\ ProxyReady /\ AccountsOk(accounts)
      /\ UNCHANGED <<loading, accounts, proxies, created, passwords, delegations>>
      /\ Ready /\ Ready' /\ gen.key \in DOMAIN accounts /\ gen.proxy \in Proxies
      /\ gen.proxy \notin DOMAIN proxies /\ gen.proxy \in created /\ gen.proxy \in passwords
  BY Zenon DEF UnlockAccount, DirkInv, GenInv, Ready
<1>3. /\ DOMAIN unlocked' = Proxies /\ unlocked'[gen.proxy] = opened
      /\ \A p \in DOMAIN proxies : unlocked'[p] = unlocked[p]
  BY <1>1, <1>2, Zenon DEF ProxyInv
<1>4. CASE EnoughUnlocks(opened)
  <2>1. gen' = [pc |-> "delegate", module |-> gen.module, key |-> gen.key, proxy |-> gen.proxy,
                at |-> gen.at, left |-> gen.left]
    BY <1>1, <1>2, <1>4, GenShape, Zenon
  <2>2. GenInv'
    BY <1>2, <1>3, <1>4, <2>1, Zenon DEF GenInv, EnoughUnlocks
  <2>3. /\ sign' = [pc |-> "waiting", key |-> gen.key, pending |-> DOMAIN AccountOf(gen.key).hosts,
                    partials |-> <<>>, failed |-> {}, ans |-> 0]
        /\ Covers(sign', AccountOf(gen.key))
    BY <1>1, <1>2, <1>4, NewSignCovers, Zenon
  <2>4. \A k : AccountOf(k)' = AccountOf(k)
    BY <1>2, SMTT(30) DEF AccountOf, ConsensusOf
  <2>5. SignInv'
    BY <1>2, <2>3, <2>4, Zenon DEF SignInv
  <2> QED
    BY <1>2, <1>3, <2>2, <2>5, Zenon DEF DirkInv, AccountsOk, ProxyInv, ProxyReady
<1>5. CASE ~ EnoughUnlocks(opened)
  <2>1. GenInv' /\ SignInv'
    BY <1>1, <1>2, <1>5, GivenUp, SignKept, Zenon
  <2> QED
    BY <1>2, <1>3, <2>1, Zenon DEF DirkInv, AccountsOk, ProxyInv, ProxyReady
<1> QED
  BY <1>4, <1>5

LEMMA FinishGenerateKeeps == ASSUME DirkInv, FinishGenerate PROVE DirkInv'
<1>1. /\ gen.pc = "delegate" /\ sign.pc # "waiting" /\ gen' = NoGen
      /\ UNCHANGED <<loading, accounts, sign, created, unlocked, passwords>>
      /\ SignInv /\ GenInv /\ ProxyInv /\ ProxyReady /\ AccountsOk(accounts)
  BY DEF FinishGenerate, DirkInv
<1>2. GenInv'
  BY <1>1, GivenUp
<1>3. CASE /\ sign.pc = "ok"
           /\ delegations' = IF HasStore THEN delegations \cup {gen.proxy} ELSE delegations
           /\ proxies' = Insert(gen.proxy, gen.module, gen.key)
  <2>1. SignInv'
    BY <1>1, <1>3, SMTT(30) DEF SignInv
  <2>2. /\ DOMAIN proxies' = DOMAIN proxies \cup {gen.proxy}
        /\ proxies'[gen.proxy].consensus = gen.key
        /\ \A p \in DOMAIN proxies : p # gen.proxy /\ proxies'[p] = proxies[p]
    BY <1>1, <1>3, SMTT(30) DEF Insert, Put, GenInv
  <2>3. ProxyInv'
    BY <1>1, <2>2, Zenon DEF ProxyInv, GenInv, Ready
  <2>4. ProxyReady'
    <3>1. /\ gen.proxy \in created /\ gen.proxy \in passwords /\ (HasStore => gen.proxy \in delegations')
          /\ Cardinality(unlocked[gen.proxy]) >= accounts[gen.key].threshold
          /\ delegations \subseteq delegations'
      BY <1>1, <1>3, Zenon DEF GenInv
    <3> QED
      BY <1>1, <2>2, <3>1, Zenon DEF ProxyReady
  <2> QED
    BY <1>1, <1>2, <2>1, <2>3, <2>4, SMTT(30) DEF DirkInv
<1>4. CASE UNCHANGED <<proxies, delegations>>
  <2>1. SignInv'
    BY <1>1, <1>4, SignKept
  <2> QED
    BY <1>1, <1>2, <1>4, <2>1, Zenon DEF DirkInv, AccountsOk, ProxyInv, ProxyReady, Ready
<1> QED
  BY <1>3, <1>4, SMTT(30) DEF FinishGenerate

LEMMA DirkNextInv == DirkInv /\ [DirkNext]_dirkVars => DirkInv'
<1> SUFFICES ASSUME DirkInv, [DirkNext]_dirkVars PROVE DirkInv'
  BY SMTT(30)
<1>1. CASE UNCHANGED dirkVars
  BY <1>1, SignKept, GenKept, Zenon DEF dirkVars, DirkInv, AccountsOk, ProxyInv, ProxyReady, Ready
<1> QED
  BY <1>1, LoadAccountsKeeps, DirkRestartKeeps, BeginSignKeeps, PartialOkKeeps, PartialGarbledKeeps, PartialErrKeeps,
     GenerateAtKeeps, BeginGenerateKeeps, StorePasswordKeeps, UnlockAccountKeeps,
     FinishGenerateKeeps, Zenon DEF DirkNext

LEMMA DirkInvariance == DirkSpec => []DirkInv
  BY DirkInitInv, DirkNextInv, PTL DEF DirkSpec

(***************************************************************************)
(* request_distributed_signature answers an error only if so many of the   *)
(* participants failed that the threshold is out of reach, or if a partial *)
(* that it counted does not decode, for any number of hosts, thresholds    *)
(* and orders of the answers.                                              *)
(***************************************************************************)
THEOREM DirkToleratesFailures == DirkSpec => []ToleratesFailures
<1>1. DirkInv => ToleratesFailures
  <2> SUFFICES ASSUME DirkInv, sign.pc = "err",
                      ~ (Enough(sign) /\ Garbled \in Range(sign.partials))
               PROVE  Cardinality(sign.failed) + AccountOf(sign.key).threshold
                        > Cardinality(DOMAIN AccountOf(sign.key).hosts)
    BY Zenon DEF ToleratesFailures
  <2> DEFINE hosts == DOMAIN AccountOf(sign.key).hosts
             signed == DOMAIN sign.partials
  <2>1. /\ sign.key \in DOMAIN accounts \cup DOMAIN proxies /\ AccountsOk(accounts) /\ ProxyInv
        /\ hosts = sign.failed \cup signed
        /\ Cardinality(signed) < AccountOf(sign.key).threshold
    BY Zenon DEF DirkInv, SignInv, Covers, Refused, Enough
  <2>2. AccountOf(sign.key).threshold \in Nat /\ IsFiniteSet(hosts)
    BY <2>1, AccountFacts, Zenon
  <2> HIDE DEF hosts, signed
  <2>3. /\ IsFiniteSet(sign.failed) /\ IsFiniteSet(signed) /\ IsFiniteSet(sign.failed \cap signed)
    BY <2>1, <2>2, FS_Subset
  <2>4. /\ Cardinality(sign.failed) \in Nat /\ Cardinality(signed) \in Nat
        /\ Cardinality(sign.failed \cap signed) \in Nat
    BY <2>3, FS_CardinalityType
  <2>5. Cardinality(hosts) = Cardinality(sign.failed) + Cardinality(signed)
                              - Cardinality(sign.failed \cap signed)
    BY <2>1, <2>3, FS_Union
  <2> QED
    BY <2>1, <2>2, <2>4, <2>5, SMTT(30) DEF hosts
<1> QED
  BY <1>1, DirkInvariance, PTL

(***************************************************************************)
(* Whatever the hosts list, with ids of any size, and whichever of them    *)
(* are skipped, the participants load_distributed_accounts collects are    *)
(* hosts that list the account under an id other than 0 that is theirs     *)
(* when cut to 32 bits.                                                    *)
(***************************************************************************)
THEOREM DirkParticipantsGenuine == DirkSpec => []ParticipantsGenuine
<1>1. DirkInv => ParticipantsGenuine
  BY DEF DirkInv, AccountsOk, AccountOk, ParticipantsGenuine, Lists
<1> QED
  BY <1>1, DirkInvariance, PTL

(***************************************************************************)
(* A proxy account that generate_proxy_key has entered is complete,        *)
(* whichever calls and writes failed before, and after any restarts.       *)
(***************************************************************************)
THEOREM DirkProxiesReady == DirkSpec => []ProxyReady
<1>1. DirkInv => ProxyReady
  BY DEF DirkInv
<1> QED
  BY <1>1, DirkInvariance, PTL
=============================================================================
