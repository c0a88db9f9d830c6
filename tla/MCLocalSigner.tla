--------------------------- MODULE MCLocalSigner ---------------------------
(***************************************************************************)
(* Two modules, two consensus keys of which one may disappear or be        *)
(* damaged, in every format and beside other files, and proxy keys.        *)
(***************************************************************************)
EXTENDS LocalSigner, TLC

First == CHOOSE k \in Keys : TRUE
Stem(k) == IF k = First THEN "0x1" ELSE "0x2"

Entry(format, k, intact) ==
  [stem |-> Stem(k), dir |-> format \in {"lighthouse", "nimbus"}, named |-> TRUE,
   file |-> CASE format = "lighthouse" -> "voting-keystore"
              [] format = "nimbus" -> "keystore"
              [] OTHER -> "json",
   holds |-> k, intact |-> intact]

\* A definitions file, or the notes of the operator.
Stray == [stem |-> "notes", dir |-> FALSE, named |-> FALSE, file |-> "yml",
          holds |-> First, intact |-> FALSE]

Source(format, keys, intact) ==
  [format |-> format,
   entries |-> {Entry(format, k, k \in intact) : k \in keys}
                 \cup (IF format \in OneFile THEN {} ELSE {Stray}),
   passwords |-> IF format \in {"lodestar", "prysm"} THEN [s \in {"all"} |-> Keys]
                 ELSE [s \in {Stem(k) : k \in Keys} |-> {k \in Keys : Stem(k) = s}]]

MCSources ==
  {Source(f, Keys, Keys) : f \in Formats} \cup {Source(f, Keys, {First}) : f \in Formats}
    \cup {Source(f, {First}, Keys) : f \in OneFile}
MCProxies == Permutations(Proxies)
=============================================================================
