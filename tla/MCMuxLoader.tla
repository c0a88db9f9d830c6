---------------------------- MODULE MCMuxLoader ----------------------------
(***************************************************************************)
(* Pages and batches of two keys, and lists of no, one, one and a half,    *)
(* two and two and a half pages; one list names a key twice.               *)
(***************************************************************************)
EXTENDS MuxKeys

MCLists ==
  {<<>>, <<"a", "b">>, <<"a", "b", "c">>, <<"a", "b", "c", "d">>,
   <<"a", "b", "c", "d", "e">>, <<"a", "b", "a">>}
=============================================================================
