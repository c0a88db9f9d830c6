----------------------------- MODULE PbsConfig -----------------------------
(***************************************************************************)
(* Loading the configuration of the PBS module: load_pbs_config            *)
(* (crates/common/src/config/pbs.rs) and PbsMuxes::validate_and_fill       *)
(* (crates/common/src/config/mux.rs), as functions of the file and of what *)
(* the mux key loaders answered.                                           *)
(*                                                                         *)
(* A file is a record [relays, muxes, timeout, late]; a relay is           *)
(* [url, params]; a mux is [relays, keys, loader, timeout, late] where     *)
(* loader says whether it has one, and timeout and late may be Unset.      *)
(***************************************************************************)
EXTENDS ConfigUtils

CONSTANT Unset

UnwrapOr(opt, default) == IF opt = Unset THEN default ELSE opt

\* PbsConfig::validate, for the two settings a mux may override.
TimeoutsOk(timeout, late) == timeout > 0 /\ late > 0 /\ timeout < late

LoaderKeys(file, loaded, i) ==
  IF file.muxes[i].loader THEN RemoveDuplicateKeys(loaded[i]) ELSE <<>>

\* The pubkeys of the i-th mux: those of the file and those of its loader.
MuxKeys(file, loaded, i) == Range(file.muxes[i].keys) \cup Range(LoaderKeys(file, loaded, i))

MuxConfigOf(file, i) ==
  [timeout |-> UnwrapOr(file.muxes[i].timeout, file.timeout),
   late |-> UnwrapOr(file.muxes[i].late, file.late)]

\* No pubkey of a mux comes twice: in the file, from the loader or from both.
NoKeyTwice(file, loaded, i) ==
  /\ IsInjective(file.muxes[i].keys) /\ IsInjective(LoaderKeys(file, loaded, i))
  /\ Range(file.muxes[i].keys) \cap Range(LoaderKeys(file, loaded, i)) = {}

DisjointOnlyPerMux(file, loaded) ==
  \A i \in DOMAIN file.muxes : NoKeyTwice(file, loaded, i)

DisjointKeys(file, loaded) ==
  /\ \A i \in DOMAIN file.muxes : NoKeyTwice(file, loaded, i)
  /\ \A i, j \in DOMAIN file.muxes :
       i # j => MuxKeys(file, loaded, i) \cap MuxKeys(file, loaded, j) = {}

MuxesOkUnvalidated(file, loaded) ==
  /\ \A i \in DOMAIN file.muxes :
       file.muxes[i].relays # <<>> /\ MuxKeys(file, loaded, i) # {}
  /\ DisjointKeys(file, loaded)

MuxesOk(file, loaded) ==
  /\ \A i \in DOMAIN file.muxes :
       /\ file.muxes[i].relays # <<>>
       /\ MuxKeys(file, loaded, i) # {}
       /\ TimeoutsOk(MuxConfigOf(file, i).timeout, MuxConfigOf(file, i).late)
  /\ DisjointKeys(file, loaded)

Loads(file, loaded) ==
  /\ TimeoutsOk(file.timeout, file.late)
  /\ file.relays # <<>>
  /\ MuxesOk(file, loaded)

Urls(relays) == {relays[i].url : i \in DOMAIN relays}

MuxRelays(file) == UNION {Range(file.muxes[i].relays) : i \in DOMAIN file.muxes}

(***************************************************************************)
(* all_relays, keyed by URL: the relays of the muxes, then the default     *)
(* ones, which replace a mux relay of the same URL.                        *)
(***************************************************************************)
AllRelaysDefaultOnly(file) == Range(file.relays)

RelayAt(file, url) ==
  LET own == {i \in DOMAIN file.relays : file.relays[i].url = url}
  IN  IF own # {}
      THEN file.relays[CHOOSE i \in own : \A j \in own : j <= i]
      ELSE CHOOSE r \in MuxRelays(file) : r.url = url

AllRelays(file) ==
  {RelayAt(file, u) : u \in Urls(file.relays) \cup {r.url : r \in MuxRelays(file)}}

(***************************************************************************)
(* The runtime configuration: mux_config_and_relays looks a validator up   *)
(* in the map from pubkeys to muxes and falls back to the defaults.        *)
(***************************************************************************)
Keyed(file, loaded) ==
  UNION {MuxKeys(file, loaded, i) : i \in DOMAIN file.muxes}

\* The muxes are entered into the map one after the other.
MuxOf(file, loaded, v) ==
  LET with == {i \in DOMAIN file.muxes : v \in MuxKeys(file, loaded, i)}
  IN  CHOOSE i \in with : \A j \in with : j <= i

Runtime(file, loaded) ==
  [timeout |-> file.timeout, late |-> file.late, relays |-> file.relays,
   all |-> AllRelays(file),
   muxes |-> [v \in Keyed(file, loaded) |->
                LET i == MuxOf(file, loaded, v)
                IN  [config |-> MuxConfigOf(file, i), relays |-> file.muxes[i].relays]]]

MuxConfigAndRelays(state, v) ==
  IF v \in DOMAIN state.muxes
  THEN state.muxes[v]
  ELSE [config |-> [timeout |-> state.timeout, late |-> state.late],
        relays |-> state.relays]
=============================================================================
