---------------------------- MODULE DirkManager ----------------------------
(***************************************************************************)
(* The Dirk manager (crates/signer/src/manager/dirk.rs): accounts are      *)
(* collected from several remote signers at start, signatures of           *)
(* distributed accounts are combined from the first answers that reach the *)
(* threshold, and proxy accounts are created in a sequence of remote calls *)
(* and writes, each of which may fail.  Creating a proxy excludes          *)
(* everything else (the caller holds the write lock).                      *)
(***************************************************************************)
EXTENDS ProxyKeys, DirkAccounts

CONSTANTS
  Hosts,     \* the configured hosts, in order
  Listing,   \* host -> what it lists
  Silent,    \* hosts that may leave a call unanswered for ever
  Coeffs,    \* key -> coefficients; Coeffs[k][1] is the master signature
  HasStore,  \* a delegations_store is configured
  Garbled,   \* a signature of the right length that is no group element
  Nobody     \* no operation, no proxy

ListedKeys == UNION {Listing[h].simple \cup {a.key : a \in Range(Listing[h].distributed)} :
                 h \in Range(Hosts)}

ASSUME DirkAssumption ==
  /\ Hosts \in Seq(Range(Hosts))
  /\ \A h \in Range(Hosts) : LET all == Range(Listing[h].distributed) IN
       /\ Listing[h].distributed \in Seq(all)
       /\ \A a \in all : a.threshold \in Nat /\ a.id \in Nat

VARIABLES
  loading,     \* the host whose accounts are loaded next
  accounts,    \* consensus_accounts
  proxies,     \* proxy_accounts: proxy -> [module, consensus]
  sign,        \* the signature in progress
  gen,         \* the proxy in creation
  created,     \* accounts that exist in Dirk under a proxy name
  unlocked,    \* proxy -> participants that unlocked it
  passwords,   \* proxies whose password is on disk
  delegations  \* proxies whose signed delegation is on disk

dirkVars == <<loading, accounts, proxies, sign, gen, created, unlocked, passwords, delegations>>

NoSign == [pc |-> "idle", key |-> Nobody, pending |-> {}, partials |-> <<>>,
           failed |-> {}, ans |-> 0]
NoGen == [pc |-> "idle", module |-> Nobody, key |-> Nobody, proxy |-> Nobody,
          at |-> Nobody, left |-> {}]

DirkInit ==
  /\ loading = 1 /\ accounts = <<>> /\ proxies = <<>>
  /\ sign = NoSign /\ gen = NoGen
  /\ created = {} /\ unlocked = [p \in Proxies |-> {}]
  /\ passwords = {} /\ delegations = {}

(***************************************************************************)
(* DirkManager::new: a host that cannot be reached or fails to list its    *)
(* accounts is skipped.                                                    *)
(***************************************************************************)
LoadAccounts ==
  /\ loading <= Len(Hosts)
  /\ loading' = loading + 1
  /\ \/ UNCHANGED accounts
     \/ accounts' = LoadHost(accounts, Listing[Hosts[loading]], Hosts[loading])
  /\ UNCHANGED <<proxies, sign, gen, created, unlocked, passwords, delegations>>

Ready == loading > Len(Hosts)

\* The signer restarts: what it held in memory is gone.
DirkRestart ==
  /\ Ready
  /\ loading' = 1 /\ accounts' = <<>> /\ proxies' = <<>>
  /\ sign' = NoSign /\ gen' = NoGen
  /\ UNCHANGED <<created, unlocked, passwords, delegations>>

-----------------------------------------------------------------------------
(***************************************************************************)
(* request_simple_signature and request_distributed_signature.  A proxy    *)
(* has the participants and the threshold of its consensus account.  While *)
(* a proxy is created, the consensus account signs its delegation.         *)
(***************************************************************************)
ConsensusOf(k) == IF k \in DOMAIN proxies THEN proxies[k].consensus ELSE k

AccountOf(k) == accounts[ConsensusOf(k)]

NewSign(k) == [NoSign EXCEPT !.pc = "waiting", !.key = k,
                             !.pending = DOMAIN AccountOf(k).hosts]

BeginSign(k) ==
  /\ Ready /\ sign.pc # "waiting" /\ gen = NoGen
  /\ k \in DOMAIN accounts \cup DOMAIN proxies
  /\ sign' = NewSign(k)
  /\ UNCHANGED <<loading, accounts, proxies, gen, created, unlocked, passwords, delegations>>

Poly(k) == SubSeq(Coeffs[k], 1, AccountOf(k).threshold)

\* The ids, not cut to 32 bits, at which the host of participant i has its
\* share; the share of a simple account is the signature.
ShareIds(k, i) ==
  LET account == AccountOf(k) IN
  IF account.kind = "simple" THEN {i}
  ELSE {a.id : a \in {a \in Range(Listing[account.hosts[i]].distributed) :
                        a.key = ConsensusOf(k) /\ a.id # 0 /\ AsU32(a.id) = i}}

\* A locked proxy account cannot sign.
CanSign(k, i) == k \in DOMAIN proxies => i \in unlocked[k]

Enough(s) == Cardinality(DOMAIN s.partials) >= AccountOf(s.key).threshold

(***************************************************************************)
(* After the loop: the partials are decoded only when they are combined,   *)
(* and one that is no group element fails the call; a simple signature is  *)
(* returned as it is.                                                      *)
(***************************************************************************)
Ended(s) ==
  IF AccountOf(s.key).kind = "simple" /\ Enough(s)
  THEN [s EXCEPT !.pc = "ok", !.pending = {}, !.ans = s.partials[1]]
  ELSE IF Enough(s) /\ Garbled \notin Range(s.partials)
  THEN [s EXCEPT !.pc = "ok", !.pending = {}, !.ans = Aggregate(s.partials)]
  ELSE [s EXCEPT !.pc = "err", !.pending = {}]

CombinedStrict(s) == IF s.failed # {} THEN [s EXCEPT !.pc = "err", !.pending = {}]
                     ELSE IF s.pending = {} \/ Enough(s) THEN Ended(s) ELSE s

CombinedOfAll(s) == IF s.pending = {} THEN Ended(s) ELSE s

\* The loop ends with the partial that reaches the threshold, or when all
\* participants have answered.
Combined(s) ==
  IF s.pending = {} \/ (DOMAIN s.partials # {} /\ Enough(s)) THEN Ended(s) ELSE s

PartialOk(i) ==
  /\ sign.pc = "waiting" /\ i \in sign.pending /\ CanSign(sign.key, i)
  /\ \E id \in ShareIds(sign.key, i) :
       sign' = Combined([sign EXCEPT !.pending = @ \ {i},
                           !.partials = Put(@, i, Share(Poly(sign.key), id))])
  /\ UNCHANGED <<loading, accounts, proxies, gen, created, unlocked, passwords, delegations>>

\* BlsSignature::try_from checks the length only.
PartialGarbled(i) ==
  /\ sign.pc = "waiting" /\ i \in sign.pending
  /\ sign' = Combined([sign EXCEPT !.pending = @ \ {i}, !.partials = Put(@, i, Garbled)])
  /\ UNCHANGED <<loading, accounts, proxies, gen, created, unlocked, passwords, delegations>>

PartialErr(i) ==
  /\ sign.pc = "waiting" /\ i \in sign.pending
  /\ sign' = Combined([sign EXCEPT !.pending = @ \ {i}, !.failed = @ \cup {i}])
  /\ UNCHANGED <<loading, accounts, proxies, gen, created, unlocked, passwords, delegations>>

-----------------------------------------------------------------------------
(***************************************************************************)
(* generate_proxy_key.  The participants are asked in turn, in the         *)
(* arbitrary order of a HashMap, until one answers that the account was    *)
(* generated; an answer that is lost leaves an account behind.  Dirk       *)
(* refuses a name that exists.                                             *)
(***************************************************************************)
BeginGenerate(m, k, p) ==
  /\ Ready /\ sign.pc # "waiting" /\ gen = NoGen
  /\ k \in DOMAIN accounts /\ p \notin created
  /\ \E i \in DOMAIN accounts[k].hosts :
       gen' = [pc |-> "generate", module |-> m, key |-> k, proxy |-> p,
               at |-> i, left |-> DOMAIN accounts[k].hosts \ {i}]
  /\ sign' = NoSign
  /\ UNCHANGED <<loading, accounts, proxies, created, unlocked, passwords, delegations>>

\* The next participant is asked, if there is one.
TryNext ==
  \/ gen.left = {} /\ gen' = NoGen
  \/ \E i \in gen.left : gen' = [gen EXCEPT !.at = i, !.left = @ \ {i}]

GenerateAt ==
  /\ gen.pc = "generate"
  /\ \/ /\ gen.proxy \notin created
        /\ created' = created \cup {gen.proxy}
        /\ gen' = [gen EXCEPT !.pc = "password"] \/ TryNext
     \/ TryNext /\ UNCHANGED created
  /\ UNCHANGED <<loading, accounts, proxies, sign, unlocked, passwords, delegations>>

StorePassword ==
  /\ gen.pc = "password"
  /\ \/ passwords' = passwords \cup {gen.proxy} /\ gen' = [gen EXCEPT !.pc = "unlock"]
     \/ gen' = NoGen /\ UNCHANGED passwords
  /\ UNCHANGED <<loading, accounts, proxies, sign, created, unlocked, delegations>>

\* unlock_account asks all participants and counts; then the delegation is
\* to be signed.
EnoughAny(opened) == opened # {}

EnoughUnlocks(opened) == Cardinality(opened) >= accounts[gen.key].threshold

UnlockAccount ==
  /\ gen.pc = "unlock"
  /\ \E opened \in SUBSET DOMAIN accounts[gen.key].hosts :
       /\ unlocked' = [unlocked EXCEPT ![gen.proxy] = opened]
       /\ IF EnoughUnlocks(opened)
          THEN gen' = [gen EXCEPT !.pc = "delegate"] /\ sign' = NewSign(gen.key)
          ELSE gen' = NoGen /\ UNCHANGED sign
  /\ UNCHANGED <<loading, accounts, proxies, created, passwords, delegations>>

(***************************************************************************)
(* With the delegation signed, it is stored, which may fail, and the proxy *)
(* account is entered.                                                     *)
(***************************************************************************)
Insert(p, m, k) == Put(proxies, p, [module |-> m, consensus |-> k])

FinishGenerate ==
  /\ gen.pc = "delegate" /\ sign.pc # "waiting"
  /\ \/ /\ sign.pc = "ok"
        /\ delegations' = IF HasStore THEN delegations \cup {gen.proxy} ELSE delegations
        /\ proxies' = Insert(gen.proxy, gen.module, gen.key)
     \/ (sign.pc = "err" \/ HasStore) /\ UNCHANGED <<proxies, delegations>>
  /\ gen' = NoGen
  /\ UNCHANGED <<loading, accounts, sign, created, unlocked, passwords>>

Participants == UNION {DOMAIN accounts[k].hosts : k \in DOMAIN accounts}

DirkNext ==
  \/ LoadAccounts \/ DirkRestart
  \/ \E k \in ListedKeys \cup Proxies : BeginSign(k)
  \/ \E i \in Participants : PartialOk(i) \/ PartialGarbled(i) \/ PartialErr(i)
  \/ \E m \in Modules, k \in ListedKeys, p \in Proxies : BeginGenerate(m, k, p)
  \/ GenerateAt \/ StorePassword \/ UnlockAccount \/ FinishGenerate

DirkSpec == DirkInit /\ [][DirkNext]_dirkVars

(***************************************************************************)
(* The manager's own steps go on, and a host answers or its connection     *)
(* fails - unless it is silent: no call has a timeout.  unlock_account     *)
(* waits for every participant.                                            *)
(***************************************************************************)
SilentAt(k, i) == AccountOf(k).hosts[i] \in Silent

DirkFairness ==
  /\ WF_dirkVars(StorePassword) /\ WF_dirkVars(FinishGenerate)
  /\ WF_dirkVars(\E i \in sign.pending :
       ~ SilentAt(sign.key, i) /\ (PartialOk(i) \/ PartialGarbled(i) \/ PartialErr(i)))
  /\ WF_dirkVars(GenerateAt /\ ~ SilentAt(gen.key, gen.at))
  /\ WF_dirkVars(UnlockAccount /\ \A i \in DOMAIN accounts[gen.key].hosts : ~ SilentAt(gen.key, i))

DirkFairSpec == DirkSpec /\ DirkFairness

-----------------------------------------------------------------------------
AccountType ==
  [kind : {"simple", "distributed"}, threshold : Nat,
   hosts : UNION {[D -> Range(Hosts)] : D \in SUBSET (0..(IdSpan - 1))}]

DirkTypeOK ==
  /\ loading \in 1..(Len(Hosts) + 1)
  /\ DOMAIN accounts \subseteq ListedKeys /\ \A k \in DOMAIN accounts : accounts[k] \in AccountType
  /\ DOMAIN proxies \subseteq Proxies
  /\ \A p \in DOMAIN proxies : proxies[p] \in [module : Modules, consensus : DOMAIN accounts]
  /\ sign.pc \in {"idle", "waiting", "ok", "err"} /\ sign.ans \in 0..(P - 1) \cup {Garbled}
  /\ gen.pc \in {"idle", "generate", "password", "unlock", "delegate"}
  /\ created \subseteq Proxies /\ passwords \subseteq Proxies /\ delegations \subseteq Proxies

(***************************************************************************)
(* Whichever participants answer first, and in whatever order, the         *)
(* combined signature is the master signature of the account, the          *)
(* interpolation of any `threshold' shares at 0, as long as their ids fit  *)
(* in 32 bits; a simple account's is what its host answered.               *)
(***************************************************************************)
SignatureIsMaster ==
  sign.pc = "ok" =>
    IF AccountOf(sign.key).kind = "simple" THEN sign.ans \in {Coeffs[sign.key][1], Garbled}
    ELSE (\A i \in DOMAIN sign.partials : ShareIds(sign.key, i) = {i})
           => sign.ans = Coeffs[sign.key][1]

(***************************************************************************)
(* A signature is refused only if so many of the participants known for    *)
(* the account failed that the threshold cannot be reached, or if one of   *)
(* the partials counted for the threshold does not decode: a garbled       *)
(* answer is not made up for by the participants still to answer.          *)
(***************************************************************************)
ToleratesFailures ==
  sign.pc = "err" =>
    \/ Cardinality(sign.failed) + AccountOf(sign.key).threshold
         > Cardinality(DOMAIN AccountOf(sign.key).hosts)
    \/ Enough(sign) /\ Garbled \in Range(sign.partials)

(***************************************************************************)
(* Every participant of a loaded account is a host that lists the account  *)
(* under an id other than 0 that is, cut to 32 bits, the participant's -   *)
(* although accounts are merged host by host.  So the participant 0, which *)
(* would take the whole signature for its own in the interpolation, is     *)
(* there only if a host lists a multiple of 2^32.                          *)
(***************************************************************************)
ParticipantsGenuine ==
  \A k \in DOMAIN accounts : accounts[k].kind = "distributed" =>
    \A i \in DOMAIN accounts[k].hosts :
      \E a \in Range(Listing[accounts[k].hosts[i]].distributed) :
        a.key = k /\ a.id # 0 /\ AsU32(a.id) = i

(***************************************************************************)
(* A proxy account in use is complete, whatever failed or crashed before:  *)
(* it exists in Dirk, its password and its delegation are on disk, and     *)
(* enough participants unlocked it to sign.                                *)
(***************************************************************************)
ProxyReady ==
  \A p \in DOMAIN proxies :
    /\ p \in created /\ p \in passwords /\ (HasStore => p \in delegations)
    /\ Cardinality(unlocked[p]) >= accounts[proxies[p].consensus].threshold

(***************************************************************************)
(* A call ends, and the manager's lock is released, unless a silent host   *)
(* holds it up; and a silent participant holds up a signature only while   *)
(* the others are too few for the threshold, a creation only when it is    *)
(* its turn to generate or when all are asked to unlock.                   *)
(***************************************************************************)
Busy == sign.pc = "waiting" \/ gen # NoGen

HeldUp ==
  \/ /\ sign.pc = "waiting" /\ ~ Enough(sign)
     /\ \A i \in sign.pending : SilentAt(sign.key, i)
  \/ gen.pc = "generate" /\ SilentAt(gen.key, gen.at)
  \/ gen.pc = "unlock" /\ \E i \in DOMAIN accounts[gen.key].hosts : SilentAt(gen.key, i)

HeldUpOnlyBySilence == Busy ~> (~ Busy \/ HeldUp)
=============================================================================
