---------------------------- MODULE DirkAccounts ----------------------------
(***************************************************************************)
(* The pure parts of the Dirk manager (crates/signer/src/manager/dirk.rs): *)
(* how the accounts that the hosts list are merged, and how partial        *)
(* signatures are combined.                                                *)
(*                                                                         *)
(* A host lists [simple, distributed]: the keys of its simple accounts and *)
(* a sequence of [key, id, threshold], where id is this host's participant *)
(* id for the account (a u64), or 0 if the host is not named.  Accounts    *)
(* whose names look like proxies are left out of both.                     *)
(***************************************************************************)
EXTENDS Integers, Sequences, FiniteSets, Functions

CONSTANTS
  P,       \* order of the scalar field, a prime
  IdSpan   \* 2^32, the number of participant ids that a u32 can hold

ASSUME FieldAssumption == P \in Nat /\ IdSpan \in 2..P

\* HashMap::insert
Put(map, key, value) ==
  [k \in DOMAIN map \cup {key} |-> IF k = key THEN value ELSE map[k]]

Simple(host) == [kind |-> "simple", threshold |-> 1, hosts |-> [i \in {1} |-> host]]

\* `participant_id as u32'
AsU32(id) == id % IdSpan

Distributed(account, host) ==
  [kind |-> "distributed", threshold |-> account.threshold,
   hosts |-> [i \in {AsU32(account.id)} |-> host]]

\* load_simple_accounts: an account replaces one of the same key.
LoadSimple(accounts, keys, host) ==
  [k \in DOMAIN accounts \cup keys |-> IF k \in keys THEN Simple(host) ELSE accounts[k]]

(***************************************************************************)
(* load_distributed_accounts: the participants of an account are collected *)
(* from the hosts, a later host replacing an earlier one of the same id; a *)
(* key known as a simple account ends the loop.  The id is compared with 0 *)
(* before it is cut to 32 bits.                                            *)
(***************************************************************************)
AddParticipantAnyId(acc, account, host) ==
  LET k == account.key IN
  IF acc.stopped THEN acc
  ELSE IF k \notin DOMAIN acc.accounts
  THEN [acc EXCEPT !.accounts = Put(@, k, Distributed(account, host))]
  ELSE IF acc.accounts[k].kind = "simple"
  THEN [acc EXCEPT !.stopped = TRUE]
  ELSE [acc EXCEPT !.accounts[k].hosts = Put(@, AsU32(account.id), host)]

AddParticipant(acc, account, host) ==
  LET k == account.key IN
  IF acc.stopped \/ account.id = 0 THEN acc
  ELSE IF k \notin DOMAIN acc.accounts
  THEN [acc EXCEPT !.accounts = Put(@, k, Distributed(account, host))]
  ELSE IF acc.accounts[k].kind = "simple"
  THEN [acc EXCEPT !.stopped = TRUE]
  ELSE [acc EXCEPT !.accounts[k].hosts = Put(@, AsU32(account.id), host)]

LoadDistributed(accounts, listed, host) ==
  LET added[n \in 0..Len(listed)] ==
        IF n = 0 THEN [accounts |-> accounts, stopped |-> FALSE]
        ELSE AddParticipant(added[n - 1], listed[n], host)
  IN  added[Len(listed)].accounts

LoadHost(accounts, listing, host) ==
  LoadDistributed(LoadSimple(accounts, listing.simple, host), listing.distributed, host)

-----------------------------------------------------------------------------
(***************************************************************************)
(* aggregate_partial_signatures.  A signature is a multiple of one group   *)
(* element; its scalar, in the field of order P, stands for it.            *)
(***************************************************************************)
Invert(x) == CHOOSE y \in 1..(P - 1) : (x * y) % P = 1

\* The product and the sum of the values of a function.
ProductMod(f) == FoldFunction(LAMBDA x, acc : (x * acc) % P, 1, f)
SumMod(f) == FoldFunction(LAMBDA x, acc : (x + acc) % P, 0, f)

LagrangeOwn(ids, i) ==
  LET others == ids \ {i}
      numerator == ProductMod([j \in others |-> i])
      denominator == ProductMod([j \in others |-> (j - i) % P])
  IN  (numerator * Invert(denominator)) % P

LagrangeCoeff(ids, i) ==
  LET others == ids \ {i}
      numerator == ProductMod([j \in others |-> j])
      denominator == ProductMod([j \in others |-> (j - i) % P])
  IN  (numerator * Invert(denominator)) % P

\* partials: participant id -> partial signature
Aggregate(partials) ==
  LET ids == DOMAIN partials
  IN  SumMod([i \in ids |-> partials[i] * LagrangeCoeff(ids, i)])

\* The share of the participant with id i: the value at i of a polynomial.
Share(poly, i) ==
  LET value[n \in 1..(Len(poly) + 1)] ==
        IF n > Len(poly) THEN 0 ELSE (poly[n] + i * value[n + 1]) % P
  IN  value[1]
=============================================================================
