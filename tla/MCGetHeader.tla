---------------------------- MODULE MCGetHeader ----------------------------
(***************************************************************************)
(* Two relays: the first plays timing games, the second is asked once.     *)
(***************************************************************************)
EXTENDS GetHeader

MCPubkeys == <<"k1", "k2">>
MCParent == [number |-> 7, gas_limit |-> 6144]

Good(k, v) ==
  [block_hash |-> "h", parent_hash |-> "p", tx_root |-> "t", value |-> v,
   timestamp |-> 34, pubkey |-> k, signer |-> k, number |-> 8, gas_limit |-> 6149]

\* Good bids of both relays, and bids with one thing wrong.
MCHeaders ==
  {Good("k1", 1), Good("k1", 2), Good("k2", 2), Good("k2", 3)} \cup
  {[Good("k1", 3) EXCEPT !.block_hash = ZeroHash],
   [Good("k1", 3) EXCEPT !.gas_limit = 6150],
   [Good("k1", 3) EXCEPT !.gas_limit = 6138],
   [Good("k1", 3) EXCEPT !.number = 9],
   [Good("k2", 3) EXCEPT !.signer = "k1"],
   Good("k2", 0)}

MCRelays ==
  <<[timing_games |-> TRUE, target |-> 5, frequency |-> 1],
    [timing_games |-> FALSE, target |-> Unset, frequency |-> Unset]>>
=============================================================================
