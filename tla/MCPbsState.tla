----------------------------- MODULE MCPbsState -----------------------------
(***************************************************************************)
(* Small configuration files and loader answers.                           *)
(***************************************************************************)
EXTENDS PbsState

R(u, p) == [url |-> u, params |-> p]
Mux(relays, keys, loader, timeout) ==
  [relays |-> relays, keys |-> keys, loader |-> loader, timeout |-> timeout, late |-> Unset]
File(relays, muxes) == [relays |-> relays, muxes |-> muxes, timeout |-> 2, late |-> 4]

\* A file without muxes, one with a loaded mux, one with two muxes that share
\* a relay URL with the defaults, and three that must be refused.
MCFiles ==
  {File(<<R("a", 1)>>, <<>>),
   File(<<R("a", 1)>>, <<Mux(<<R("b", 1)>>, <<"v1">>, TRUE, Unset)>>),
   File(<<R("a", 1), R("b", 1)>>,
        <<Mux(<<R("b", 2)>>, <<"v1">>, FALSE, 1), Mux(<<R("c", 1)>>, <<>>, TRUE, 3)>>),
   File(<<>>, <<>>),
   File(<<R("a", 1)>>, <<Mux(<<>>, <<"v1">>, FALSE, Unset)>>),
   File(<<R("a", 1)>>, <<Mux(<<R("b", 1)>>, <<"v1">>, FALSE, 9)>>)}

MCAnswers ==
  {<<k1, k2>> : k1 \in {<<>>, <<"v2", "v2">>}, k2 \in {<<>>, <<"v1">>, <<"v2">>}}
=============================================================================
