---------------------------- MODULE MCDeployment ----------------------------
(***************************************************************************)
(* Configurations that differ in what init and the services look at: some  *)
(* that fit, and others with a signing id used twice, ids that differ in   *)
(* case, an events module with the name of a service, Dirk, a remote       *)
(* signer, a chain from a file, mux files and a mux id used twice, ports   *)
(* that wrap around or clash, no relays, and no section for relays.        *)
(***************************************************************************)
EXTENDS Deployment

MCIds == {"a", "A", "b", "signer"}
MCLower == [id \in MCIds |-> IF id = "A" THEN "a" ELSE id]
MCUpper == [id \in MCIds |-> IF id = "a" THEN "A" ELSE id]

M(id, kind, sid) == [id |-> id, kind |-> kind, sid |-> sid]

Base ==
  [modules |-> <<M("a", "commit", 1)>>, signer |-> "local", store |-> "none",
   withSigner |-> FALSE, chain |-> "known", metrics |-> None, muxes |-> <<>>,
   relays |-> {"r"}, valid |-> TRUE, relayCheck |-> FALSE]

MuxOf(id, file) == [id |-> id, file |-> file]

MCConfigs ==
  {[Base EXCEPT !.modules = <<M("a", "commit", 1), M("b", "commit", 1)>>],
   [Base EXCEPT !.modules = <<M("a", "commit", 1), M("b", "commit", 2)>>, !.metrics = 65535,
                !.muxes = <<MuxOf("x", "g")>>],
   [Base EXCEPT !.modules = <<M("a", "commit", 1), M("A", "commit", 2)>>],
   [Base EXCEPT !.modules = <<M("a", "commit", 1), M("b", "events", 2)>>, !.metrics = PbsPort],
   [Base EXCEPT !.modules = <<M("A", "events", 1)>>, !.signer = "none", !.relayCheck = TRUE],
   [Base EXCEPT !.signer = "dirk"],
   [Base EXCEPT !.signer = "remote"],
   [Base EXCEPT !.chain = "path", !.muxes = <<MuxOf("x", "f"), MuxOf("y", "g")>>],
   [Base EXCEPT !.modules = <<M("signer", "events", 1)>>, !.muxes = <<MuxOf("x", "f"), MuxOf("x", "g")>>],
   [Base EXCEPT !.modules = None, !.withSigner = TRUE, !.relays = {}],
   [Base EXCEPT !.relays = None]}
=============================================================================
