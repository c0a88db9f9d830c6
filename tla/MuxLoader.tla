----------------------------- MODULE MuxLoader -----------------------------
(***************************************************************************)
(* MuxKeysLoader::load (crates/common/src/config/mux.rs) for the sources   *)
(* that are remote: a document behind a URL, the operator registry of Lido *)
(* read in batches, and the API of SSV read in pages.  The list of keys is *)
(* external and may change between two requests of one load.               *)
(*                                                                         *)
(* The size of a body is counted in keys.                                  *)
(***************************************************************************)
EXTENDS Integers, Sequences

CONSTANTS
  Keys,       \* validator public keys
  Lists,      \* lists of keys that a load may begin with
  MaxLen,     \* bound: length of a list
  MaxEdits,   \* bound: changes of the list during one load
  Chains,     \* configured chains to look at
  BatchSize,  \* CALL_BATCH_SIZE of the Lido loader
  PerPage,    \* MAX_PER_PAGE of the SSV loader
  MaxBody,    \* MUXER_HTTP_MAX_LENGTH
  None

ASSUME MuxLoaderAssumption ==
  /\ Lists \subseteq Seq(Keys) /\ \A s \in Lists : Len(s) <= MaxLen
  /\ MaxLen \in Nat /\ MaxEdits \in Nat /\ MaxBody \in Nat
  /\ BatchSize \in Nat \ {0} /\ PerPage \in Nat \ {0}
  /\ Chains # {} /\ None \notin {"unsupported", "count", "network", "size", "status"}

VARIABLES
  source,   \* [kind, chain, rpc]: the loader, and whether rpc_url is set
  list,     \* the keys at the source now
  versions, \* all lists there were since the load began
  removals, \* keys removed since the load began
  adds,     \* keys added since the load began
  load,     \* the load: [state, total, offset, keys, cause]
  body      \* the HTTP response being read: [keys, total, ok, read]

vars == <<source, list, versions, removals, adds, load, body>>
edited == <<list, versions, removals, adds>>

Kinds == {"http", "lido", "ssv"}
NoBody == [keys |-> <<>>, total |-> 0, ok |-> TRUE, read |-> 0]
Active == load.state \in {"total", "request", "body"}

LesserOf(a, b) == IF a < b THEN a ELSE b

(***************************************************************************)
(* The chains with a Lido registry, and those of the SSV API.              *)
(***************************************************************************)
Supported(src) ==
  CASE src.kind = "http" -> TRUE
    [] src.kind = "lido" -> src.rpc /\ src.chain \in {"Mainnet", "Holesky", "Hoodi", "Sepolia"}
    [] src.kind = "ssv"  -> src.chain \in {"Mainnet", "Holesky", "Hoodi"}

Fresh(state, cause) ==
  [state |-> state, total |-> 0, offset |-> 0, keys |-> <<>>, cause |-> cause]

Init ==
  /\ source = [kind |-> "http", chain |-> CHOOSE c \in Chains : TRUE, rpc |-> FALSE]
  /\ list \in Lists /\ versions = {list} /\ removals = 0 /\ adds = 0
  /\ load = Fresh("idle", None) /\ body = NoBody

\* A load begins, with any of the lists; loads follow one another at reloads.
Begin(src) ==
  /\ ~ Active
  /\ source' = src /\ list' \in Lists
  /\ versions' = {list'} /\ removals' = 0 /\ adds' = 0
  /\ load' = IF Supported(src)
             THEN Fresh(IF src.kind = "lido" THEN "total" ELSE "request", None)
             ELSE Fresh("failed", "unsupported")
  /\ body' = NoBody

Fail(cause) == load' = [load EXCEPT !.state = "failed", !.cause = cause]

\* The end of a page loop: the number of keys is checked.
FinishUnchecked(keys, total) == load' = [load EXCEPT !.state = "done", !.keys = keys]

Finish(keys, total) ==
  IF Len(keys) = total
  THEN load' = [load EXCEPT !.state = "done", !.keys = keys]
  ELSE Fail("count")

-----------------------------------------------------------------------------
(***************************************************************************)
(* fetch_lido_registry_keys: the number of keys is read once, then batches *)
(* of it from growing offsets.  The contract refuses a range that the list *)
(* no longer has, or answers with what is left of it.                      *)
(***************************************************************************)
ReadTotal ==
  /\ load.state = "total"
  /\ load' = [load EXCEPT !.state = IF list = <<>> THEN "done" ELSE "request",
                          !.total = Len(list)]
  /\ UNCHANGED <<source, edited, body>>

SigningKeysFromStart(offset, limit) == SubSeq(list, 1, LesserOf(limit, Len(list)))

SigningKeys(offset, limit) ==
  SubSeq(list, offset + 1, LesserOf(offset + limit, Len(list)))

FetchBatch ==
  /\ load.state = "request" /\ source.kind = "lido"
  /\ LET limit  == LesserOf(BatchSize, load.total - load.offset)
         keys   == load.keys \o SigningKeys(load.offset, limit)
         offset == load.offset + limit
     IN  \/ IF offset < load.total
            THEN load' = [load EXCEPT !.keys = keys, !.offset = offset]
            ELSE Finish(keys, load.total)
         \/ load.offset + limit > Len(list) /\ Fail("network")
  /\ UNCHANGED <<source, edited, body>>

(***************************************************************************)
(* fetch_ssv_pubkeys and the HTTP loader: one request, answered with the   *)
(* list or a page of it at that time.  Its length may be announced.        *)
(***************************************************************************)
PageAt(offset) == SubSeq(list, offset + 1, LesserOf(offset + PerPage, Len(list)))

SendRequest ==
  /\ load.state = "request" /\ source.kind # "lido"
  /\ LET keys == IF source.kind = "ssv" THEN PageAt(load.offset) ELSE list
     IN  \E announced, ok \in BOOLEAN :
           IF announced /\ Len(keys) > MaxBody
           THEN Fail("size") /\ body' = [NoBody EXCEPT !.keys = keys]
           ELSE /\ body' = [keys |-> keys, total |-> Len(list), ok |-> ok, read |-> 0]
                /\ load' = [load EXCEPT !.state = "body"]
  /\ UNCHANGED <<source, edited>>

\* read_chunked_body_with_max: the body comes in chunks of any size.
TooLongInclusive(n) == body.read + n >= MaxBody

TooLong(n) == body.read + n > MaxBody

ReadChunk(n) ==
  /\ load.state = "body" /\ body.read + n <= Len(body.keys)
  /\ IF TooLong(n)
     THEN Fail("size") /\ UNCHANGED body
     ELSE body' = [body EXCEPT !.read = @ + n] /\ UNCHANGED load
  /\ UNCHANGED <<source, edited>>

(***************************************************************************)
(* The whole body has come (safe_read_http_response): a page that is not   *)
(* full is the last.                                                       *)
(***************************************************************************)
NextPageFromScratch(keys) ==
  load' = [load EXCEPT !.state = "request", !.keys = <<>>, !.offset = 0]

NextPage(keys) ==
  load' = [load EXCEPT !.state = "request", !.keys = keys, !.offset = @ + PerPage]

EndBody ==
  /\ load.state = "body" /\ body.read = Len(body.keys)
  /\ LET keys == load.keys \o body.keys
     IN  IF ~ body.ok THEN Fail("status")
         ELSE IF source.kind = "http" THEN Finish(keys, Len(keys))
         ELSE IF Len(body.keys) < PerPage THEN Finish(keys, body.total)
         ELSE NextPage(keys)
  /\ UNCHANGED <<source, edited, body>>

\* A request times out, the connection breaks, an answer cannot be parsed.
LoseRequest ==
  /\ Active
  /\ Fail("network")
  /\ UNCHANGED <<source, edited, body>>

-----------------------------------------------------------------------------
(***************************************************************************)
(* Changes at the source.  New keys come last; the Lido registry fills the *)
(* place of a removed key with its last one, the SSV list closes the gap.  *)
(***************************************************************************)
AddKey(k) ==
  /\ Active /\ Len(list) < MaxLen /\ adds + removals < MaxEdits
  /\ list' = Append(list, k)
  /\ adds' = adds + 1
  /\ versions' = versions \cup {list'}
  /\ UNCHANGED <<source, removals, load, body>>

RemoveKey(i) ==
  /\ Active /\ adds + removals < MaxEdits
  /\ list' = IF source.kind = "lido"
             THEN SubSeq([list EXCEPT ![i] = list[Len(list)]], 1, Len(list) - 1)
             ELSE SubSeq(list, 1, i - 1) \o SubSeq(list, i + 1, Len(list))
  /\ removals' = removals + 1
  /\ versions' = versions \cup {list'}
  /\ UNCHANGED <<source, adds, load, body>>

Step == ReadTotal \/ FetchBatch \/ SendRequest \/ (\E n \in 1..MaxLen : ReadChunk(n)) \/ EndBody

Next ==
  \/ \E src \in [kind : Kinds, chain : Chains, rpc : BOOLEAN] : Begin(src)
  \/ Step \/ LoseRequest
  \/ \E k \in Keys : AddKey(k)
  \/ \E i \in DOMAIN list : RemoveKey(i)

\* Every request has a timeout, so that it ends in an answer or an error.
Spec == Init /\ [][Next]_vars /\ WF_vars(Step \/ LoseRequest)

-----------------------------------------------------------------------------
TypeOK ==
  /\ source \in [kind : Kinds, chain : Chains, rpc : BOOLEAN]
  /\ list \in Seq(Keys) /\ Len(list) <= MaxLen /\ list \in versions
  /\ removals \in Nat /\ adds \in Nat /\ adds + removals <= MaxEdits
  /\ load.state \in {"idle", "total", "request", "body", "done", "failed"}
  /\ load.total \in 0..MaxLen /\ load.offset \in Nat /\ load.keys \in Seq(Keys)
  /\ source.kind = "lido" => load.offset <= load.total
  /\ body.keys \in Seq(Keys) /\ body.read \in 0..LesserOf(Len(body.keys), MaxBody)

Accepted == load.state = "done"

(***************************************************************************)
(* A load that several requests were needed for still yields the list as   *)
(* it was at one time, provided that no key was removed meanwhile: in      *)
(* particular the list itself if it did not change, also at a length that  *)
(* is a multiple of the page size, and for no keys at all.                 *)
(***************************************************************************)
SnapshotUnlessRemoved == (Accepted /\ removals = 0) => load.keys \in versions

(***************************************************************************)
(* The Lido loader checks against the count it read first.  If keys are    *)
(* only removed, it yields the list as it was at some time or fails, never *)
(* a part of one.                                                          *)
(***************************************************************************)
LidoShrinkingDetected ==
  (Accepted /\ source.kind = "lido" /\ adds = 0) => load.keys \in versions

(***************************************************************************)
(* What the loader refuses by itself: a wrong count only if a key was      *)
(* removed during the load, and a size exactly if it exceeds the limit,    *)
(* however the body is cut into chunks and whether or not its length was   *)
(* announced.                                                              *)
(***************************************************************************)
RefusedForCause ==
  /\ load.cause = "count" => removals > 0
  /\ load.cause = "size" => Len(body.keys) > MaxBody
  /\ (Accepted /\ source.kind # "lido") => Len(body.keys) <= MaxBody

(***************************************************************************)
(* The page loops end: by the count of the Lido registry, and at the first *)
(* page of SSV that is not full.                                           *)
(***************************************************************************)
LoadEnds == Active ~> ~ Active
=============================================================================
