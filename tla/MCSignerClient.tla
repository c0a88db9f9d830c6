--------------------------- MODULE MCSignerClient ---------------------------
(***************************************************************************)
(* Two clients of one module, half seconds, tokens of two seconds with a   *)
(* leeway of one, and a request timeout beyond the leeway, as in the code. *)
(***************************************************************************)
EXTENDS SignerClient, TLC

MCHandles == Permutations(Handles)
=============================================================================
