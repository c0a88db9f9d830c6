---------------------------- MODULE LocalSigner ----------------------------
(***************************************************************************)
(* The local signing manager (crates/signer/src/manager/local.rs) and the  *)
(* proxy store behind it (crates/common/src/signer/store.rs): proxy keys   *)
(* are created one at a time (the caller holds the manager's write lock),  *)
(* written to disk in several steps, and loaded again when the service     *)
(* starts.  The service may crash, and a write may fail, between any two   *)
(* steps.  BLS and ECDSA proxies differ only in the directory they use.    *)
(***************************************************************************)
EXTENDS ProxyKeys, SignerLoader, Sequences, FiniteSets

CONSTANTS
  Keys,     \* consensus keys
  Sources,  \* what the keys directory may hold, for each format
  Stores,   \* configured stores to look at: "none", "file", "erc2335"
  NoProxy

ASSUME StoreAssumption ==
  /\ Stores \subseteq {"none", "file", "erc2335"}
  /\ \A src \in Sources :
       src.format \in Formats /\ \A e \in src.entries : e.holds \in Keys
  /\ NoProxy \notin Proxies

VARIABLES
  store,      \* the configured proxy store
  source,     \* what the loader found at the last start
  up,         \* the service runs
  consensus,  \* consensus_signers
  signers,    \* proxy_signers: proxy -> the delegator its delegation names
  listed,     \* proxy_pubkeys: module -> its proxies
  op,         \* the creation in progress: [proxy, module, delegator, step]
  files,      \* proxy -> kind of file -> "absent", "torn" or "full"
  path,       \* proxy -> [module, delegator] its files are stored under
  granted,    \* delegations answered to modules: [proxy, module, delegator]
  recent      \* those of them answered since the last start

memory == <<consensus, signers, listed>>
vars == <<store, source, up, consensus, signers, listed, op, files, path, granted, recent>>

FileKinds == {"key", "password", "sig", "json"}

NoFiles == [k \in FileKinds |-> "absent"]
NoOp == [proxy |-> NoProxy, step |-> 0]

Used == {p \in Proxies : files[p] # NoFiles} \cup {g.proxy : g \in granted}
          \cup DOMAIN signers \cup {op.proxy}

(***************************************************************************)
(* The files of a proxy in the order they are written: one file with the   *)
(* secret and the delegation, or password, delegation signature and        *)
(* encrypted key.                                                          *)
(***************************************************************************)
WriteOrderKeyFirst(kind) ==
  CASE kind = "none" -> <<>>
    [] kind = "file" -> <<"key">>
    [] kind = "erc2335" -> <<"json", "sig", "password">>

WriteOrder(kind) ==
  CASE kind = "none" -> <<>>
    [] kind = "file" -> <<"key">>
    [] kind = "erc2335" -> <<"password", "sig", "json">>

(***************************************************************************)
(* load_proxies.  A proxy is found by its key file.  A file that cannot be *)
(* read in full, a missing password included, fails the whole load; only a *)
(* missing signature skips the proxy.                                      *)
(***************************************************************************)
KeyFile(kind) == IF kind = "file" THEN "key" ELSE "json"

Found == IF store = "none" THEN {}
         ELSE {p \in Proxies : files[p][KeyFile(store)] # "absent"}

\* load_bls_signer, load_ecdsa_signer
ProxyOpens(p) == files[p].json = "full" /\ files[p].password = "full"

Readable(p) ==
  IF store = "file" THEN files[p].key = "full"
  ELSE ProxyOpens(p) /\ files[p].sig # "torn"

Loadable == \A p \in Found : Readable(p)

Loaded == {p \in Found : store = "file" \/ files[p].sig = "full"}

\* start_manager: LocalSigningManager::new loads the proxies, then the keys.
ManagerFrom(src) ==
  /\ LoadKeys(src) # Failed
  /\ source' = src /\ consensus' = LoadKeys(src)
  /\ signers' = [p \in Loaded |-> path[p].delegator]
  /\ listed' = [m \in Modules |-> {p \in Loaded : path[p].module = m}]

Init ==
  /\ store \in Stores /\ up = TRUE /\ op = NoOp
  /\ source \in {src \in Sources : LoadKeys(src) # Failed}
  /\ consensus = LoadKeys(source)
  /\ signers = <<>> /\ listed = [m \in Modules |-> {}]
  /\ files = [p \in Proxies |-> NoFiles]
  /\ path = [p \in Proxies |-> NoProxy]
  /\ granted = {} /\ recent = {}

-----------------------------------------------------------------------------
(***************************************************************************)
(* create_proxy_bls, create_proxy_ecdsa: a new key, whose delegation must  *)
(* be signed by a known consensus key.                                     *)
(***************************************************************************)
BeginCreate(m, k, p) ==
  /\ up /\ op = NoOp
  /\ k \in consensus /\ p \notin Used
  /\ op' = [proxy |-> p, module |-> m, delegator |-> k, step |-> 1]
  /\ path' = [path EXCEPT ![p] = [module |-> m, delegator |-> k]]
  /\ UNCHANGED <<store, source, up, memory, files, granted, recent>>

Writing == up /\ op # NoOp /\ op.step <= Len(WriteOrder(store))
File == WriteOrder(store)[op.step]

\* File::create, then write_all; either may fail, which answers an error.
CreateFile ==
  /\ Writing /\ files[op.proxy][File] = "absent"
  /\ files' = [files EXCEPT ![op.proxy][File] = "torn"]
  /\ UNCHANGED <<store, source, up, memory, op, path, granted, recent>>

WriteFile ==
  /\ Writing /\ files[op.proxy][File] = "torn"
  /\ files' = [files EXCEPT ![op.proxy][File] = "full"]
  /\ op' = [op EXCEPT !.step = @ + 1]
  /\ UNCHANGED <<store, source, up, memory, path, granted, recent>>

FailStore ==
  /\ Writing
  /\ op' = NoOp
  /\ UNCHANGED <<store, source, up, memory, files, path, granted, recent>>

(***************************************************************************)
(* add_proxy_signer: once stored, the proxy is entered into both maps, and *)
(* its delegation is the answer.                                           *)
(***************************************************************************)
Delegation == [proxy |-> op.proxy, module |-> op.module, delegator |-> op.delegator]

AddProxyFirst ==
  /\ up /\ op # NoOp
  /\ signers' = [p \in DOMAIN signers \cup {op.proxy} |->
                   IF p = op.proxy THEN op.delegator ELSE signers[p]]
  /\ listed' = [listed EXCEPT ![op.module] = @ \cup {op.proxy}]
  /\ granted' = granted \cup {Delegation} /\ recent' = recent \cup {Delegation}
  /\ op' = NoOp
  /\ UNCHANGED <<store, source, up, consensus, files, path>>

AddProxyReplacing ==
  /\ up /\ op # NoOp /\ op.step > Len(WriteOrder(store))
  /\ signers' = [p \in DOMAIN signers \cup {op.proxy} |->
                   IF p = op.proxy THEN op.delegator ELSE signers[p]]
  /\ listed' = [listed EXCEPT ![op.module] = {op.proxy}]
  /\ granted' = granted \cup {Delegation} /\ recent' = recent \cup {Delegation}
  /\ op' = NoOp
  /\ UNCHANGED <<store, source, up, consensus, files, path>>

AddProxy ==
  /\ up /\ op # NoOp /\ op.step > Len(WriteOrder(store))
  /\ signers' = [p \in DOMAIN signers \cup {op.proxy} |->
                   IF p = op.proxy THEN op.delegator ELSE signers[p]]
  /\ listed' = [listed EXCEPT ![op.module] = @ \cup {op.proxy}]
  /\ granted' = granted \cup {Delegation} /\ recent' = recent \cup {Delegation}
  /\ op' = NoOp
  /\ UNCHANGED <<store, source, up, consensus, files, path>>

Crash ==
  /\ up
  /\ up' = FALSE /\ op' = NoOp
  /\ consensus' = {} /\ signers' = <<>> /\ listed' = [m \in Modules |-> {}]
  /\ recent' = {}
  /\ UNCHANGED <<store, source, files, path, granted>>

\* The service starts again, with what it finds in the same format now.
Restart ==
  /\ ~ up /\ Loadable
  /\ up' = TRUE /\ \E src \in Sources : src.format = source.format /\ ManagerFrom(src)
  /\ UNCHANGED <<store, op, files, path, granted, recent>>

Next ==
  \/ \E m \in Modules, k \in Keys, p \in Proxies : BeginCreate(m, k, p)
  \/ CreateFile \/ WriteFile \/ FailStore \/ AddProxy
  \/ Crash \/ Restart

Spec == Init /\ [][Next]_vars

(***************************************************************************)
(* get_consensus_proxy_maps: the proxies of a module under their           *)
(* delegators, or an error if one of these is not loaded.                  *)
(***************************************************************************)
MapsFail(m) == \E p \in listed[m] : p \notin DOMAIN signers \/ signers[p] \notin consensus

MapsAllModules(m) == [k \in consensus |-> {p \in DOMAIN signers : signers[p] = k}]

ConsensusProxyMaps(m) == [k \in consensus |-> {p \in listed[m] : signers[p] = k}]

-----------------------------------------------------------------------------
TypeOK ==
  /\ store \in Stores /\ source \in Sources /\ up \in BOOLEAN
  /\ consensus \subseteq Keys
  /\ DOMAIN signers \subseteq Proxies /\ \A p \in DOMAIN signers : signers[p] \in Keys
  /\ listed \in [Modules -> SUBSET Proxies]
  /\ op = NoOp \/ op \in [proxy : Proxies, module : Modules, delegator : Keys, step : 1..4]
  /\ files \in [Proxies -> [FileKinds -> {"absent", "torn", "full"}]]
  /\ path \in [Proxies -> [module : Modules, delegator : Keys] \cup {NoProxy}]
  /\ granted \subseteq [proxy : Proxies, module : Modules, delegator : Keys]
  /\ recent \subseteq granted

(***************************************************************************)
(* "To persist proxy keys across restarts, you must enable the proxy       *)
(* store": with a store, whenever the service is up it signs with every    *)
(* proxy key it ever granted, for the same module and consensus key.       *)
(***************************************************************************)
GrantedSurvive ==
  (store # "none" /\ up) =>
    \A g \in granted : /\ g.proxy \in listed[g.module] /\ g.proxy \in DOMAIN signers
                       /\ signers[g.proxy] = g.delegator

(***************************************************************************)
(* Only a key file that was being written when a creation was cut short    *)
(* can keep the service from starting, never a key that was granted: the   *)
(* password and the delegation are complete before the key file exists.    *)
(***************************************************************************)
OnlyTornKeysBlock ==
  ~ Loadable => \E p \in Found : /\ files[p][KeyFile(store)] = "torn"
                                 /\ \A g \in granted : g.proxy # p

(***************************************************************************)
(* A module is shown its own proxies only, each under the consensus key it *)
(* was created for, and all that it was granted since the last start, with *)
(* a store all that it ever was - or it gets an error: the listing fails   *)
(* only if a consensus key was taken away, or is still there but does not  *)
(* open, and the format is one that skips such keys.                       *)
(***************************************************************************)
ListedRightly ==
  up => \A m \in Modules :
    /\ \A k \in consensus : \A p \in ConsensusProxyMaps(m)[k] :
         path[p] = [module |-> m, delegator |-> k]
    /\ ~ MapsFail(m) =>
         \A g \in recent \cup (IF store = "none" THEN {} ELSE granted) : g.module = m =>
           g.delegator \in consensus /\ g.proxy \in ConsensusProxyMaps(m)[g.delegator]
    /\ MapsFail(m) => \E p \in listed[m] :
         /\ path[p].delegator \notin consensus
         /\ source.format \in OneFile => \A e \in source.entries : e.holds # path[p].delegator
=============================================================================
