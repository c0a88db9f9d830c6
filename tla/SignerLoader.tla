---------------------------- MODULE SignerLoader ----------------------------
(***************************************************************************)
(* SignerLoader::load_keys (crates/common/src/signer/loader.rs): the       *)
(* consensus keys that each of the supported layouts yields.               *)
(*                                                                         *)
(* A source is a record [format, entries, passwords].  An entry of the     *)
(* keys directory is [stem, dir, named, file, holds, intact]: its name (if *)
(* it is the hex of a public key, named, then that key as it is printed),  *)
(* the extension of a file or the name of the keystore in a directory, the *)
(* key of that keystore, and whether it can be read.  A password file opens the keystores of the *)
(* keys passwords[stem].  The two formats with a single file have one      *)
(* entry for each key of that file.                                        *)
(***************************************************************************)
EXTENDS Integers

CONSTANT Failed  \* the load fails as a whole

\* Where the keys come from: ValidatorKeysFormat, or a plain file.
Formats == {"lighthouse", "teku", "lodestar", "prysm", "nimbus", "file"}

OneFile == {"file", "prysm"}

Opens(src, stem, e) ==
  e.intact /\ stem \in DOMAIN src.passwords /\ e.holds \in src.passwords[stem]

\* Directories named by a public key; the password file is named by it too.
LighthouseKeys(src) ==
  {e.holds : e \in {d \in src.entries : /\ d.dir /\ d.named /\ d.file = "voting-keystore"
                                       /\ Opens(src, d.stem, d)}}

NimbusKeys(src) ==
  {e.holds : e \in {d \in src.entries : /\ d.dir /\ d.named /\ d.file = "keystore"
                                       /\ Opens(src, d.stem, d)}}

\* Any file leads to the keystore and the password with its stem.
TekuKeys(src) ==
  {e.holds : e \in {d \in src.entries : ~ d.dir /\ d.file = "json" /\ Opens(src, d.stem, d)}}

\* Any file, and one password for all.
LodestarKeys(src) ==
  {e.holds : e \in {d \in src.entries : ~ d.dir /\ Opens(src, "all", d)}}

\* All keys of one encrypted file, or none.
PrysmKeys(src) ==
  IF \A e \in src.entries : Opens(src, "all", e)
  THEN {e.holds : e \in src.entries} ELSE Failed

\* All keys of one plain file, or none.
FileKeysSkipping(src) == {e.holds : e \in {d \in src.entries : d.intact}}

FileKeys(src) ==
  IF \A e \in src.entries : e.intact THEN {e.holds : e \in src.entries} ELSE Failed

LoadKeys(src) ==
  CASE src.format = "lighthouse" -> LighthouseKeys(src)
    [] src.format = "nimbus" -> NimbusKeys(src)
    [] src.format = "teku" -> TekuKeys(src)
    [] src.format = "lodestar" -> LodestarKeys(src)
    [] src.format = "prysm" -> PrysmKeys(src)
    [] src.format = "file" -> FileKeys(src)
=============================================================================
