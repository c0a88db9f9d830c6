----------------------------- MODULE ProxyKeys -----------------------------
(***************************************************************************)
(* What both managers of the signer make proxy keys of and for:            *)
(* start_manager (crates/signer/src/service.rs) chooses one of them.       *)
(***************************************************************************)
CONSTANTS
  Modules,  \* module ids
  Proxies   \* the proxy keys that may be generated
=============================================================================
