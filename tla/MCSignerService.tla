-------------------------- MODULE MCSignerService --------------------------
(***************************************************************************)
(* Small instances of SignerService.                                       *)
(***************************************************************************)
EXTENDS SignerService

MCSigningId == [m \in Modules |-> IF m = "m1" THEN "id1" ELSE "id2"]
MCEnvSecret == [m \in Modules |-> IF m = "m1" THEN "s1" ELSE "s2"]

\* One module calls; that its token is good or expired is left to Authenticate.
MCTokens == {[module |-> "m2", secret |-> "s2"]}

\* One operation for each of the three handlers.
MCOperations ==
  {[op |-> o, key |-> "k1", owner |-> "m2"] : o \in {"consensus", "generate", "pubkeys"}}

MCKeys == {Keys}
MCKeysFound == {Keys, {}}

\* Nothing given; the calling module alone.
MCReloads ==
  {[jwt_secrets |-> None, admin_secret |-> None],
   [jwt_secrets |-> [m \in {"m2"} |-> "s2"], admin_secret |-> "a1"]}
=============================================================================
