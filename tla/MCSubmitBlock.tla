--------------------------- MODULE MCSubmitBlock ---------------------------
(***************************************************************************)
(* A block with two blobs.                                                 *)
(***************************************************************************)
EXTENDS SubmitBlock

MCBlock == [hash |-> "h", commitments |-> <<1, 2>>]

\* The right body, another block's, one whose blobs are in another order,
\* and bodies with a piece too few.
MCPayloads ==
  {[hash |-> h, blobs |-> b, commitments |-> c, proofs |-> 2] :
     h \in {"h", "other"}, b \in {1, 2}, c \in {<<1, 2>>, <<2, 1>>, <<1>>}}

MCErrors == {Transport("connect"), Transport("json_decode"), RelayResponse(400),
             RelayResponse(500), RelayResponse(509)}
=============================================================================
