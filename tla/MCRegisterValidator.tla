------------------------ MODULE MCRegisterValidator ------------------------
(***************************************************************************)
(* Two relays, with and without batches; one batch size is 0.              *)
(***************************************************************************)
EXTENDS RegisterValidator, TLC

CONSTANTS r1, r2

MCBatches ==
  {(r1 :> 2) @@ (r2 :> NoBatch), [r \in Relays |-> 3], [r \in Relays |-> NoBatch],
   (r1 :> 2) @@ (r2 :> 0)}

MCAnswers ==
  {[ok |-> TRUE]} \cup
  {[err |-> e] : e \in {Transport("connect"), RelayResponse(400),
                        RelayResponse(500), RelayResponse(509)}}
=============================================================================
