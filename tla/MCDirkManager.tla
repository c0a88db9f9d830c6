--------------------------- MODULE MCDirkManager ---------------------------
(***************************************************************************)
(* Three hosts that share the account "d" with threshold 2; the first also *)
(* has a simple account "s".  The third lists an account under the id 0,   *)
(* and "s" as distributed, which cuts its list short.  The ids 4 and 6 of  *)
(* the account "e" do not fit and become 0 and 2, and the id 5 of "f"      *)
(* becomes 1, which another host has.                                      *)
(***************************************************************************)
EXTENDS DirkManager, TLC

Dist(k, i) == [key |-> k, id |-> i, threshold |-> 2]

MCHosts == <<"h1", "h2", "h3">>

MCListing ==
  ("h1" :> [simple |-> {"s"}, distributed |-> <<Dist("d", 1), Dist("e", 4), Dist("f", 1)>>]) @@
  ("h2" :> [simple |-> {}, distributed |-> <<Dist("d", 2), Dist("e", 6), Dist("f", 5)>>]) @@
  ("h3" :> [simple |-> {}, distributed |-> <<Dist("e", 0), Dist("d", 3),
                                             Dist("s", 3), Dist("f", 3)>>])

MCCoeffs == [k \in ListedKeys \cup Proxies |-> IF k = "d" THEN <<3, 2>> ELSE <<5, 1>>]
=============================================================================
