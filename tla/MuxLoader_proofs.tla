-------------------------- MODULE MuxLoader_proofs --------------------------
(***************************************************************************)
(* Proofs about MuxLoader, for lists of any length, any batch and page     *)
(* size, any limit on a body and any number of changes during a load.      *)
(***************************************************************************)
EXTENDS MuxKeys, FiniteSetTheorems, TLAPS

\* s is a beginning of t; s and p together are the beginning of t of length n.
Pre(s, t) == Len(s) <= Len(t) /\ \A i \in 1..Len(s) : s[i] = t[i]

Prolongs(s, p, t, n) == s \o p \in Seq(Keys) /\ Len(s \o p) = n /\ Pre(s \o p, t)

-----------------------------------------------------------------------------
(* Beginnings of sequences. *)

LEMMA LenIsNat ==
  ASSUME NEW s \in Seq(Keys)
  PROVE  Len(s) \in Nat
  OBVIOUS

LEMMA PreFull ==
  ASSUME NEW s \in Seq(Keys), NEW t \in Seq(Keys), Pre(s, t), Len(s) = Len(t)
  PROVE  s = t
  BY DEF Pre

LEMMA PreTrans ==
  ASSUME NEW s \in Seq(Keys), NEW t \in Seq(Keys), NEW u \in Seq(Keys), Pre(s, t), Pre(t, u)
  PROVE  Pre(s, u)
  BY DEF Pre

LEMMA PreShorter ==
  ASSUME NEW s \in Seq(Keys), NEW t \in Seq(Keys), NEW u \in Seq(Keys),
         Pre(s, u), Pre(t, u), Len(s) <= Len(t)
  PROVE  Pre(s, t)
  BY DEF Pre

LEMMA PreAppend ==
  ASSUME NEW s \in Seq(Keys), NEW t \in Seq(Keys), Pre(s, t), NEW k \in Keys
  PROVE  Append(t, k) \in Seq(Keys) /\ Pre(s, Append(t, k))
  BY DEF Pre

\* A part of t that begins where s ends prolongs s to a longer beginning of t.
LEMMA PreExtend ==
  ASSUME NEW s \in Seq(Keys), NEW t \in Seq(Keys), Pre(s, t),
         NEW n \in Nat, Len(s) <= n, n <= Len(t),
         NEW p, p = SubSeq(t, Len(s) + 1, n)
  PROVE  p \in Seq(Keys) /\ Len(p) = n - Len(s) /\ Prolongs(s, p, t, n)
<1>1. Len(s) \in Nat /\ Len(t) \in Nat
  OBVIOUS
<1>2. /\ p \in Seq(Keys) /\ Len(p) = n - Len(s)
      /\ \A i \in 1..(n - Len(s)) : p[i] = t[Len(s) + i]
  BY <1>1
<1>3. s \o p \in Seq(Keys) /\ Len(s \o p) = n
  BY <1>1, <1>2
<1>4. ASSUME NEW i \in 1..n PROVE (s \o p)[i] = t[i]
  <2>1. CASE i <= Len(s)
    <3>1. i \in 1..Len(s) /\ (s \o p)[i] = s[i]
      BY <1>1, <1>2, <2>1
    <3> QED
      BY <3>1 DEF Pre
  <2>2. CASE i > Len(s)
    <3>1. (s \o p)[i] = p[i - Len(s)] /\ i - Len(s) \in 1..(n - Len(s))
      BY <1>1, <1>2, <2>2
    <3>2. p[i - Len(s)] = t[Len(s) + (i - Len(s))] /\ Len(s) + (i - Len(s)) = i
      BY <1>1, <1>2, <3>1
    <3> QED
      BY <3>1, <3>2
  <2>3. i <= Len(s) \/ i > Len(s)
    BY <1>1
  <2> QED
    BY <2>1, <2>2, <2>3, Zenon
<1>5. Pre(s \o p, t)
  BY <1>3, <1>4, Zenon DEF Pre
<1> QED
  BY <1>2, <1>3, <1>5 DEF Prolongs

-----------------------------------------------------------------------------
(***************************************************************************)
(* The inductive invariant: the types, what the state of a load says of    *)
(* its record and body, and, while no key is removed, that the list only   *)
(* grows and what was read is a beginning of it.                           *)
(***************************************************************************)
LoadRecord ==
  [state : {"idle", "total", "request", "body", "done", "failed"},
   total : Nat, offset : Nat, keys : Seq(Keys),
   cause : {None, "unsupported", "count", "network", "size", "status"}]

BodyRecord == [keys : Seq(Keys), total : Nat, ok : BOOLEAN, read : Nat]

Types ==
  /\ source \in [kind : Kinds, chain : Chains, rpc : BOOLEAN]
  /\ list \in Seq(Keys) /\ versions \subseteq Seq(Keys) /\ list \in versions
  /\ removals \in Nat
  /\ load \in LoadRecord /\ body \in BodyRecord

Shape ==
  /\ load.state = "total" => source.kind = "lido" /\ load.offset = 0 /\ load.keys = <<>>
  /\ load.state = "body" => source.kind # "lido"
  /\ load.state = "request" /\ source.kind = "lido" => load.offset < load.total
  /\ load.state \in {"request", "body"} /\ source.kind = "http" => load.offset = 0 /\ load.keys = <<>>
  /\ load.state # "failed" => load.cause = None
  /\ body.read <= MaxBody
  /\ load.cause = "size" => Len(body.keys) > MaxBody
  /\ load.state = "done" /\ source.kind # "lido" => Len(body.keys) <= MaxBody

\* The page of an SSV answer is the one at the offset, of a list there was.
BodyOf(v) ==
  IF source.kind = "ssv"
  THEN /\ Len(v) = body.total /\ load.offset <= Len(v)
       /\ body.keys = SubSeq(v, load.offset + 1, LesserOf(load.offset + PerPage, Len(v)))
  ELSE body.keys = v

Grown ==
  removals = 0 =>
    /\ \A v \in versions : Pre(v, list)
    /\ load.state \in {"request", "body"} => Pre(load.keys, list) /\ Len(load.keys) = load.offset
    /\ load.state = "request" /\ source.kind = "lido" =>
         \E v \in versions : Len(v) = load.total
    /\ load.state = "body" => \E v \in versions : BodyOf(v)
    /\ load.state = "done" => load.keys \in versions
    /\ load.cause # "count"

Inv == Types /\ Shape /\ Grown

LEMMA InitInv == Init => Inv
<1> SUFFICES ASSUME Init PROVE Inv
  OBVIOUS
<1>1. Types
  BY MuxLoaderAssumption DEF Init, Types, Kinds, Fresh, NoBody, LoadRecord, BodyRecord
<1>2. Shape
  BY MuxLoaderAssumption DEF Init, Shape, Fresh, NoBody
<1>3. Grown
  BY <1>1, MuxLoaderAssumption DEF Init, Grown, Fresh, Pre, Types
<1> QED
  BY <1>1, <1>2, <1>3 DEF Inv

LEMMA BeginStep ==
  ASSUME Inv, NEW src \in [kind : Kinds, chain : Chains, rpc : BOOLEAN], Begin(src)
  PROVE  Inv'
<1>1. /\ source' = src /\ list' \in Seq(Keys) /\ versions' = {list'} /\ removals' = 0
      /\ body' = NoBody
  BY MuxLoaderAssumption DEF Begin
<1>2. \/ load' = Fresh("total", None) /\ src.kind = "lido"
      \/ load' = Fresh("request", None) /\ src.kind # "lido"
      \/ load' = Fresh("failed", "unsupported")
  BY DEF Begin
<1>3. Types'
  <2>1. NoBody \in BodyRecord
    BY DEF NoBody, BodyRecord
  <2>2. /\ Fresh("total", None) \in LoadRecord /\ Fresh("request", None) \in LoadRecord
        /\ Fresh("failed", "unsupported") \in LoadRecord
    BY DEF Fresh, LoadRecord
  <2> QED
    BY <1>1, <1>2, <2>1, <2>2, Zenon DEF Types
<1>4. Shape'
  BY <1>1, <1>2, MuxLoaderAssumption DEF Shape, Fresh, NoBody
<1>5. Pre(list, list)' /\ Pre(<<>>, list)'
  BY <1>1 DEF Pre
<1>6. /\ load'.offset = 0 /\ load'.keys = <<>> /\ load'.cause \in {None, "unsupported"}
      /\ load'.state \in {"total", "request", "failed"}
      /\ load'.state = "request" => source'.kind # "lido"
  BY <1>1, <1>2 DEF Fresh
<1>7. Grown'
  BY <1>1, <1>5, <1>6, MuxLoaderAssumption, Zenon DEF Grown
<1> QED
  BY <1>3, <1>4, <1>7 DEF Inv

\* A load that fails, for another reason than the count or the size.
LEMMA FailStep ==
  ASSUME Inv, NEW cause \in {"network", "status"}, Fail(cause), Active,
         UNCHANGED <<source, edited, body>>
  PROVE  Inv'
<1>1. load' \in LoadRecord /\ load'.state = "failed" /\ load'.cause = cause
  BY Zenon DEF Inv, Types, Fail, LoadRecord
<1>2. Types'
  BY <1>1 DEF Inv, Types, edited
<1>3. Shape'
  BY <1>1, MuxLoaderAssumption, Zenon DEF Inv, Shape
<1>4. Grown'
  BY <1>1, Zenon DEF Inv, Grown, edited
<1> QED
  BY <1>2, <1>3, <1>4 DEF Inv

LEMMA ReadTotalStep ==
  ASSUME Inv, ReadTotal
  PROVE  Inv'
<1>1. /\ Types /\ Shape /\ Grown /\ load.state = "total" /\ source.kind = "lido"
      /\ load.offset = 0 /\ load.keys = <<>> /\ load.cause = None
      /\ UNCHANGED <<source, edited, body>>
  BY DEF Inv, Shape, ReadTotal
<1>2. Len(list) \in Nat /\ (list # <<>> => Len(list) > 0)
  BY <1>1 DEF Types
<1>3. /\ load'.total = Len(list) /\ load'.offset = 0 /\ load'.keys = <<>> /\ load'.cause = None
      /\ IF list = <<>> THEN load'.state = "done" ELSE load'.state = "request"
  BY <1>1, Zenon DEF ReadTotal, Types, LoadRecord
<1>4. Types'
  BY <1>1, <1>2, Zenon DEF Types, ReadTotal, edited, LoadRecord
<1>5. Shape'
  BY <1>1, <1>2, <1>3, MuxLoaderAssumption, Zenon DEF Shape
<1>6. Grown'
  BY <1>1, <1>2, <1>3, MuxLoaderAssumption DEF Grown, Types, edited, Pre
<1> QED
  BY <1>4, <1>5, <1>6 DEF Inv

LEMMA PartType ==
  ASSUME NEW s \in Seq(Keys), NEW m \in Nat \ {0}, NEW n \in Nat, n <= Len(s)
  PROVE  SubSeq(s, m, n) \in Seq(Keys)
<1>1. \A i \in m..n : i \in 1..Len(s) /\ s[i] \in Keys
  OBVIOUS
<1> QED
  BY <1>1

LEMMA LesserType ==
  ASSUME NEW a \in Nat, NEW b \in Nat
  PROVE  /\ LesserOf(a, b) \in Nat /\ LesserOf(a, b) <= a /\ LesserOf(a, b) <= b
         /\ LesserOf(a, b) = a \/ LesserOf(a, b) = b
  BY DEF LesserOf

LEMMA PartLen ==
  ASSUME NEW t \in Seq(Keys), NEW m \in Nat, NEW n \in Nat, m <= n, n <= Len(t),
         NEW p, p = SubSeq(t, m + 1, n)
  PROVE  Len(p) = n - m
  OBVIOUS

LEMMA ConcatType ==
  ASSUME NEW s \in Seq(Keys), NEW t \in Seq(Keys)
  PROVE  s \o t \in Seq(Keys) /\ Len(s \o t) \in Nat
  OBVIOUS

LEMMA PageSize == PerPage \in Nat /\ PerPage > 0
  BY MuxLoaderAssumption

\* The check of the count at the end of a page loop.
LEMMA FinishStep ==
  ASSUME Inv, NEW keys \in Seq(Keys), NEW total \in Nat, Finish(keys, total), Active,
         UNCHANGED <<source, edited, body>>,
         removals = 0 => Len(keys) = total /\ keys \in versions,
         source.kind # "lido" => Len(body.keys) <= MaxBody
  PROVE  Inv'
<1>1. Types /\ Shape /\ Grown /\ load.cause = None
  BY DEF Inv, Shape, Active
<1>2. CASE Len(keys) = total
  <2>1. load' \in LoadRecord /\ load'.state = "done" /\ load'.keys = keys /\ load'.cause = None
    BY <1>1, <1>2, Zenon DEF Finish, Types, LoadRecord
  <2>2. Types' /\ Shape' /\ Grown'
    BY <1>1, <2>1, MuxLoaderAssumption, Zenon DEF Types, Shape, Grown, edited
  <2> QED
    BY <2>2 DEF Inv
<1>3. CASE Len(keys) # total
  <2>1. load' \in LoadRecord /\ load'.state = "failed" /\ load'.cause = "count"
    BY <1>1, <1>3, Zenon DEF Finish, Fail, Types, LoadRecord
  <2>2. Types' /\ Shape' /\ Grown'
    BY <1>1, <1>3, <2>1 DEF Types, Shape, Grown, edited
  <2> QED
    BY <2>2 DEF Inv
<1> QED
  BY <1>2, <1>3

LEMMA FetchBatchStep ==
  ASSUME Inv, FetchBatch
  PROVE  Inv'
<1> DEFINE limit  == LesserOf(BatchSize, load.total - load.offset)
           offset == load.offset + limit
           part   == SigningKeys(load.offset, limit)
           keys   == load.keys \o part
<1>1. /\ Types /\ Shape /\ Grown /\ load.state = "request" /\ source.kind = "lido"
      /\ load \in LoadRecord /\ list \in Seq(Keys) /\ Active
      /\ UNCHANGED <<source, edited, body>>
  BY DEF Inv, FetchBatch, Types, Active
<1>2. load.total \in Nat /\ load.offset \in Nat /\ load.offset < load.total /\ load.keys \in Seq(Keys)
  BY <1>1 DEF Shape, LoadRecord
<1>3. limit \in Nat /\ limit > 0 /\ offset <= load.total
  BY <1>2, MuxLoaderAssumption DEF LesserOf
<1> HIDE DEF limit
<1>4. part \in Seq(Keys)
  <2>1. LesserOf(offset, Len(list)) \in Nat /\ LesserOf(offset, Len(list)) <= Len(list)
    <3>1. offset \in Nat /\ Len(list) \in Nat
      BY <1>1, <1>2, <1>3
    <3> QED
      BY <3>1, LesserType, Zenon
  <2>2. load.offset + 1 \in Nat \ {0}
    BY <1>2
  <2>3. SubSeq(list, load.offset + 1, LesserOf(offset, Len(list))) \in Seq(Keys)
    BY <1>1, <2>1, <2>2, PartType
  <2> QED
    BY <2>3, Zenon DEF SigningKeys
<1>5. ASSUME removals = 0
      PROVE  /\ keys \in Seq(Keys) /\ Len(keys) = offset /\ Pre(keys, list)
             /\ \E v \in versions : Len(v) = load.total /\ Pre(v, list) /\ v \in Seq(Keys)
  <2>1. PICK v \in versions : Len(v) = load.total
    BY <1>1, <1>5, Zenon DEF Grown
  <2>2. /\ v \in Seq(Keys) /\ Pre(v, list) /\ Pre(load.keys, list)
        /\ Len(load.keys) = load.offset
    BY <1>1, <1>5, Zenon DEF Grown, Types
  <2>3. offset \in Nat /\ offset <= Len(list) /\ load.offset <= offset
    BY <1>1, <1>2, <1>3, <2>1, <2>2, SMTT(30) DEF Pre
  <2>4. part = SubSeq(list, Len(load.keys) + 1, offset)
    <3>1. LesserOf(offset, Len(list)) = offset
      BY <1>1, <2>3 DEF LesserOf
    <3> QED
      BY <2>2, <3>1, Zenon DEF SigningKeys
  <2>5. keys \in Seq(Keys) /\ Len(keys) = offset /\ Pre(keys, list)
    <3>1. Len(load.keys) <= offset
      BY <2>2, <2>3
    <3> HIDE DEF offset, part
    <3>2. Prolongs(load.keys, part, list, offset)
      BY <1>1, <1>2, <2>2, <2>3, <2>4, <3>1, PreExtend, Zenon
    <3> QED
      BY <3>2 DEF Prolongs
  <2> QED
    BY <2>1, <2>2, <2>5
<1>6. keys \in Seq(Keys) /\ offset \in Nat
  BY <1>2, <1>3, <1>4
<1>7. \/ offset < load.total /\ load' = [load EXCEPT !.keys = keys, !.offset = offset]
      \/ offset = load.total /\ Finish(keys, load.total)
      \/ Fail("network")
  BY <1>2, <1>3 DEF FetchBatch, limit
<1> HIDE DEF offset, part, keys
<1>8. CASE offset < load.total /\ load' = [load EXCEPT !.keys = keys, !.offset = offset]
  <2>1. /\ load' \in LoadRecord /\ load'.state = "request" /\ load'.total = load.total
        /\ load'.keys = keys /\ load'.offset = offset /\ load'.cause = load.cause
    BY <1>1, <1>6, <1>8, Zenon DEF LoadRecord
  <2>2. Types' /\ Shape'
    BY <1>1, <1>8, <2>1 DEF Types, Shape, edited
  <2>3. Grown'
    BY <1>1, <1>5, <1>8, <2>1 DEF Grown, edited
  <2> QED
    BY <2>2, <2>3 DEF Inv
<1>9. CASE offset = load.total /\ Finish(keys, load.total)
  <2>1. ASSUME removals = 0 PROVE Len(keys) = load.total /\ keys \in versions
    <3>1. PICK v \in versions : Len(v) = load.total /\ Pre(v, list) /\ v \in Seq(Keys)
      BY <1>5, <2>1
    <3>2. Len(keys) = Len(v) /\ Pre(keys, list)
      BY <1>5, <1>9, <2>1, <3>1
    <3>3. Pre(keys, v)
      BY <1>1, <1>6, <3>1, <3>2, PreShorter
    <3>4. keys = v
      BY <1>6, <3>1, <3>2, <3>3, PreFull
    <3> QED
      BY <3>1, <3>4
  <2> QED
    BY <1>1, <1>2, <1>6, <1>9, <2>1, FinishStep
<1> QED
  BY <1>1, <1>7, <1>8, <1>9, FailStep

LEMMA SendRequestStep ==
  ASSUME Inv, SendRequest
  PROVE  Inv'
<1> DEFINE keys == IF source.kind = "ssv" THEN PageAt(load.offset) ELSE list
<1>1. /\ Types /\ Shape /\ Grown /\ load.state = "request" /\ source.kind # "lido"
      /\ load \in LoadRecord /\ list \in Seq(Keys) /\ list \in versions /\ load.cause = None
      /\ UNCHANGED <<source, edited>>
  BY DEF Inv, SendRequest, Types, Shape
<1>2. Len(list) \in Nat /\ load.offset \in Nat /\ load.keys \in Seq(Keys)
  BY <1>1 DEF LoadRecord
<1>3. keys \in Seq(Keys)
  <2>1. LesserOf(load.offset + PerPage, Len(list)) \in Nat
        /\ LesserOf(load.offset + PerPage, Len(list)) <= Len(list)
    <3>1. load.offset + PerPage \in Nat
      BY <1>2, MuxLoaderAssumption
    <3> QED
      BY <1>2, <3>1, LesserType, Zenon
  <2>2. load.offset + 1 \in Nat \ {0}
    BY <1>2
  <2>3. SubSeq(list, load.offset + 1, LesserOf(load.offset + PerPage, Len(list))) \in Seq(Keys)
    BY <1>1, <2>1, <2>2, PartType
  <2> QED
    BY <1>1, <2>3, Zenon DEF PageAt
<1>4. \/ Len(keys) > MaxBody /\ Fail("size") /\ body' = [NoBody EXCEPT !.keys = keys]
      \/ \E ok \in BOOLEAN :
           /\ body' = [keys |-> keys, total |-> Len(list), ok |-> ok, read |-> 0]
           /\ load' = [load EXCEPT !.state = "body"]
  BY DEF SendRequest
<1>5. keys = list \/ (source.kind = "ssv" /\ keys = PageAt(load.offset))
  OBVIOUS
<1>6. source.kind # "ssv" => keys = list
  OBVIOUS
<1> HIDE DEF keys
<1>7. CASE Len(keys) > MaxBody /\ Fail("size") /\ body' = [NoBody EXCEPT !.keys = keys]
  <2>1. load' \in LoadRecord /\ load'.state = "failed" /\ load'.cause = "size"
    BY <1>1, <1>7, Zenon DEF Fail, LoadRecord
  <2>2. body' \in BodyRecord /\ body'.keys = keys /\ body'.read = 0
    BY <1>3, <1>7, Zenon DEF NoBody, BodyRecord
  <2>3. Types' /\ Shape' /\ Grown'
    BY <1>1, <1>7, <2>1, <2>2, MuxLoaderAssumption DEF Types, Shape, Grown, edited
  <2> QED
    BY <2>3 DEF Inv
<1>8. ASSUME NEW ok \in BOOLEAN,
             body' = [keys |-> keys, total |-> Len(list), ok |-> ok, read |-> 0],
             load' = [load EXCEPT !.state = "body"]
      PROVE  Inv'
  <2>1. /\ load' \in LoadRecord /\ load'.state = "body" /\ load'.cause = load.cause
        /\ load'.offset = load.offset /\ load'.keys = load.keys
    BY <1>1, <1>8 DEF LoadRecord
  <2>2. /\ body' \in BodyRecord /\ body'.keys = keys /\ body'.read = 0 /\ body'.total = Len(list)
    BY <1>2, <1>3, <1>8 DEF BodyRecord
  <2>3. Types' /\ Shape'
    BY <1>1, <2>1, <2>2, MuxLoaderAssumption DEF Types, Shape, edited
  <2>4. ASSUME removals = 0 PROVE Grown'
    <3>1. load.offset <= Len(list) /\ Pre(load.keys, list) /\ Len(load.keys) = load.offset
      BY <1>1, <2>4 DEF Grown, Pre
    <3>2. source.kind = "ssv" =>
            body'.keys = SubSeq(list, load.offset + 1, LesserOf(load.offset + PerPage, Len(list)))
      BY <2>2, Zenon DEF PageAt, keys
    <3>3. source' = source /\ list' = list /\ versions' = versions
      BY <1>1 DEF edited
    <3>4. BodyOf(list)'
      BY <1>6, <2>1, <2>2, <3>1, <3>2, <3>3 DEF BodyOf
    <3>5. \E v \in versions' : BodyOf(v)'
      BY <1>1, <3>3, <3>4
    <3> QED
      BY <1>1, <2>1, <2>4, <3>1, <3>3, <3>5, MuxLoaderAssumption DEF Grown
  <2>5. removals # 0 => Grown'
    BY <1>1 DEF Grown, edited
  <2> QED
    BY <2>3, <2>4, <2>5 DEF Inv
<1> QED
  BY <1>4, <1>7, <1>8

LEMMA ReadChunkStep ==
  ASSUME Inv, NEW n \in Nat, ReadChunk(n)
  PROVE  Inv'
<1>1. /\ Types /\ Shape /\ Grown /\ load.state = "body" /\ load \in LoadRecord /\ body \in BodyRecord
      /\ body.read + n <= Len(body.keys) /\ UNCHANGED <<source, edited>>
  BY DEF Inv, ReadChunk, Types
<1>2. CASE TooLong(n)
  <2>1. load' \in LoadRecord /\ load'.state = "failed" /\ load'.cause = "size" /\ body' = body
    BY <1>1, <1>2, Zenon DEF ReadChunk, Fail, LoadRecord
  <2>2. Len(body.keys) > MaxBody
    BY <1>1, <1>2, MuxLoaderAssumption DEF TooLong, BodyRecord
  <2>3. Types' /\ Shape' /\ Grown'
    BY <1>1, <2>1, <2>2, MuxLoaderAssumption, Zenon DEF Types, Shape, Grown, edited
  <2> QED
    BY <2>3, Zenon DEF Inv
<1>3. CASE ~TooLong(n)
  <2>1. /\ body' = [body EXCEPT !.read = @ + n] /\ load' = load
    BY <1>3, Zenon DEF ReadChunk
  <2>2. /\ body' \in BodyRecord /\ body'.keys = body.keys /\ body'.total = body.total
        /\ body'.read <= MaxBody
    <3>1. /\ body.read \in Nat /\ body.read + n \in Nat /\ body.read + n <= MaxBody
          /\ DOMAIN body = {"keys", "total", "ok", "read"}
      BY <1>1, <1>3, MuxLoaderAssumption DEF BodyRecord, TooLong
    <3> QED
      BY <1>1, <2>1, <3>1 DEF BodyRecord
  <2>3. Types' /\ Shape'
    BY <1>1, <2>1, <2>2, MuxLoaderAssumption, Zenon DEF Types, Shape, edited
  <2>4. Grown'
    BY <1>1, <2>1, <2>2, Zenon DEF Grown, BodyOf, edited
  <2> QED
    BY <2>3, <2>4 DEF Inv
<1> QED
  BY <1>2, <1>3

(***************************************************************************)
(* A page of SSV after those before it: the beginning of a list there was, *)
(* and the whole of it if the page is not full.                            *)
(***************************************************************************)
LEMMA PageStep ==
  ASSUME Inv, removals = 0, load.state = "body", source.kind = "ssv"
  PROVE  \E v \in versions :
           LET keys == load.keys \o body.keys
           IN  /\ v \in Seq(Keys) /\ Pre(v, list) /\ Len(v) = body.total
               /\ keys \in Seq(Keys) /\ Pre(keys, v)
               /\ Len(body.keys) < PerPage => keys = v
               /\ Len(body.keys) >= PerPage => Len(keys) = load.offset + PerPage
<1>1. /\ Types /\ Grown /\ load.offset \in Nat /\ load.keys \in Seq(Keys) /\ list \in Seq(Keys)
      /\ Pre(load.keys, list) /\ Len(load.keys) = load.offset
  BY DEF Inv, Types, Grown, LoadRecord
<1>2. PICK v \in versions : BodyOf(v)
  BY <1>1, Zenon DEF Grown
<1> DEFINE n == LesserOf(load.offset + PerPage, Len(v))
<1>3. /\ v \in Seq(Keys) /\ Pre(v, list) /\ Len(v) = body.total /\ load.offset <= Len(v)
      /\ body.keys = SubSeq(v, Len(load.keys) + 1, n)
  BY <1>1, <1>2, Zenon DEF BodyOf, Types, Grown
<1>4. /\ n \in Nat /\ Len(load.keys) <= n /\ n <= Len(v)
      /\ n = load.offset + PerPage \/ n = Len(v)
      /\ n <= load.offset + PerPage
  <2>1. Len(v) \in Nat /\ load.offset + PerPage \in Nat
    <3>1. v \in Seq(Keys) /\ load.offset \in Nat
      BY <1>1, <1>3, Zenon
    <3>2. Len(v) \in Nat
      BY <3>1, Zenon, LenIsNat
    <3>3. load.offset + PerPage \in Nat
      BY <3>1, PageSize
    <3> QED
      BY <3>2, <3>3, Zenon
  <2>2. n = load.offset + PerPage \/ n = Len(v)
    BY Zenon DEF LesserOf
  <2>3. n <= Len(v) /\ n <= load.offset + PerPage
    BY <2>1 DEF LesserOf
  <2> HIDE DEF n
  <2> QED
    BY <1>1, <1>3, <2>1, <2>2, <2>3, PageSize, SMTT(30)
<1>5. Pre(load.keys, v)
  BY <1>1, <1>3, PreShorter
<1> HIDE DEF n
<1>6. Len(body.keys) = n - load.offset /\ Prolongs(load.keys, body.keys, v, n)
  <2>1. load.keys \in Seq(Keys) /\ v \in Seq(Keys) /\ n \in Nat /\ Len(load.keys) <= n /\ n <= Len(v)
    BY <1>1, <1>3, <1>4
  <2>2. PICK p : p = body.keys
    OBVIOUS
  <2>3. p = SubSeq(v, Len(load.keys) + 1, n)
    BY <1>3, <2>2
  <2>4. Prolongs(load.keys, p, v, n)
    BY <1>5, <2>1, <2>3, PreExtend, Zenon
  <2>5. Len(p) = n - Len(load.keys)
    <3>1. Len(load.keys) \in Nat
      BY <2>1
    <3> QED
      BY <2>1, <2>3, <3>1, PartLen, Zenon
  <2> QED
    BY <1>1, <2>2, <2>4, <2>5
<1> DEFINE keys == load.keys \o body.keys
<1>7. keys \in Seq(Keys) /\ Len(keys) = n /\ Pre(keys, v)
  BY <1>6 DEF Prolongs
<1> HIDE DEF keys
<1>8. Len(body.keys) < PerPage => Len(keys) = Len(v)
  BY <1>1, <1>4, <1>6, <1>7, PageSize
<1>9. Len(body.keys) < PerPage => keys = v
  BY <1>3, <1>7, <1>8, PreFull
<1>10. Len(body.keys) >= PerPage => Len(keys) = load.offset + PerPage
  <2>1. n \in Nat /\ load.offset \in Nat /\ n <= load.offset + PerPage
    BY <1>1, <1>4
  <2>2. n - load.offset >= PerPage => n = load.offset + PerPage
    BY <2>1, PageSize
  <2>3. Len(body.keys) = n - load.offset /\ Len(keys) = n
    BY <1>6, <1>7
  <2> QED
    BY <2>2, <2>3, Zenon
<1> QED
  BY <1>3, <1>7, <1>9, <1>10, Zenon DEF keys

LEMMA EndBodyStep ==
  ASSUME Inv, EndBody
  PROVE  Inv'
<1> DEFINE keys == load.keys \o body.keys
<1>1. /\ Types /\ Shape /\ Grown /\ load.state = "body" /\ source.kind \in {"http", "ssv"} /\ Active
      /\ load \in LoadRecord /\ body \in BodyRecord /\ body.read = Len(body.keys)
      /\ UNCHANGED <<source, edited, body>>
  BY Zenon DEF Inv, Types, Shape, EndBody, Active, Kinds
<1>2. /\ load.keys \in Seq(Keys) /\ body.keys \in Seq(Keys) /\ load.offset \in Nat
      /\ body.total \in Nat /\ Len(body.keys) <= MaxBody
  BY <1>1 DEF LoadRecord, BodyRecord, Shape
<1>3. keys \in Seq(Keys) /\ Len(keys) \in Nat
  BY <1>2, ConcatType, Zenon
<1>4. \/ Fail("status")
      \/ source.kind = "http" /\ Finish(keys, Len(keys))
      \/ source.kind = "ssv" /\ Len(body.keys) < PerPage /\ Finish(keys, body.total)
      \/ source.kind = "ssv" /\ ~(Len(body.keys) < PerPage) /\ NextPage(keys)
  BY <1>1, Zenon DEF EndBody
<1>5. CASE Fail("status")
  BY <1>1, <1>5, FailStep
<1>6. CASE source.kind = "http" /\ Finish(keys, Len(keys))
  <2>1. load.keys = <<>>
    BY <1>1, <1>6, Zenon DEF Shape
  <2>2. keys = body.keys
    BY <1>2, <2>1
  <2>3. removals = 0 => keys \in versions
    BY <1>1, <1>6, <2>2 DEF Grown, BodyOf
  <2> HIDE DEF keys
  <2> QED
    BY <1>1, <1>2, <1>3, <1>6, <2>3, FinishStep
<1>7. CASE source.kind = "ssv" /\ Len(body.keys) < PerPage /\ Finish(keys, body.total)
  <2>1. removals = 0 => Len(keys) = body.total /\ keys \in versions
    BY <1>1, <1>7, PageStep, Zenon
  <2> HIDE DEF keys
  <2> QED
    BY <1>1, <1>2, <1>3, <1>7, <2>1, FinishStep
<1>8. CASE source.kind = "ssv" /\ ~(Len(body.keys) < PerPage) /\ NextPage(keys)
  <2>1. removals = 0 => Pre(keys, list) /\ Len(keys) = load.offset + PerPage
    <3> SUFFICES ASSUME removals = 0 PROVE Pre(keys, list) /\ Len(keys) = load.offset + PerPage
      BY Zenon
    <3>1. PICK v \in versions :
            /\ v \in Seq(Keys) /\ Pre(v, list) /\ Pre(keys, v)
            /\ Len(body.keys) >= PerPage => Len(keys) = load.offset + PerPage
      BY <1>1, <1>8, PageStep, Zenon
    <3>2. list \in Seq(Keys) /\ Len(body.keys) >= PerPage
      BY <1>1, <1>2, <1>8, MuxLoaderAssumption DEF Types
    <3> HIDE DEF keys
    <3> QED
      BY <1>3, <3>1, <3>2, PreTrans
  <2> HIDE DEF keys
  <2>2. /\ load' \in LoadRecord /\ load'.state = "request" /\ load'.keys = keys
        /\ load'.offset = load.offset + PerPage /\ load'.cause = load.cause
    <3>1. load.offset + PerPage \in Nat
      BY <1>2, PageSize
    <3> QED
      BY <1>1, <1>3, <1>8, <3>1, Zenon DEF NextPage, LoadRecord
  <2>3. Types' /\ Shape'
    BY <1>1, <1>8, <2>2 DEF Types, Shape, edited
  <2>4. Grown'
    BY <1>1, <1>8, <2>1, <2>2 DEF Grown, edited
  <2> QED
    BY <2>3, <2>4 DEF Inv
<1> QED
  BY <1>4, <1>5, <1>6, <1>7, <1>8, Zenon

LEMMA AddKeyStep ==
  ASSUME Inv, NEW k \in Keys, AddKey(k)
  PROVE  Inv'
<1>1. /\ Types /\ Shape /\ Grown /\ list \in Seq(Keys) /\ load.keys \in Seq(Keys)
      /\ versions \subseteq Seq(Keys)
  BY DEF Inv, Types, LoadRecord
<1>2. /\ list' = Append(list, k) /\ versions' = versions \cup {list'}
      /\ UNCHANGED <<source, removals, load, body>>
  BY DEF AddKey
<1>3. list' \in Seq(Keys) /\ Pre(list', list')
  BY <1>1, <1>2 DEF Pre
<1>4. Types' /\ Shape'
  BY <1>1, <1>2, <1>3, SMTT(30) DEF Types, Shape
<1>5. \A s \in Seq(Keys) : Pre(s, list) => Pre(s, list')
  BY <1>1, <1>2, PreAppend
<1>6. \A v : BodyOf(v)' <=> BodyOf(v)
  BY <1>2 DEF BodyOf
<1>7. Grown'
  BY <1>1, <1>2, <1>3, <1>5, <1>6, Zenon DEF Grown
<1> QED
  BY <1>4, <1>7 DEF Inv

LEMMA RemoveKeyStep ==
  ASSUME Inv, NEW i \in DOMAIN list, RemoveKey(i)
  PROVE  Inv'
<1>1. Types /\ Shape /\ list \in Seq(Keys) /\ removals \in Nat
  BY DEF Inv, Types
<1>2. /\ versions' = versions \cup {list'} /\ removals' = removals + 1
      /\ UNCHANGED <<source, load, body>>
  BY DEF RemoveKey
<1>3. i \in 1..Len(list) /\ Len(list) \in Nat /\ Len(list) > 0
  BY <1>1
<1>4. list' \in Seq(Keys)
  <2>1. CASE source.kind = "lido"
    <3>1. /\ [list EXCEPT ![i] = list[Len(list)]] \in Seq(Keys)
          /\ Len([list EXCEPT ![i] = list[Len(list)]]) = Len(list)
      BY <1>1, <1>3
    <3>2. SubSeq([list EXCEPT ![i] = list[Len(list)]], 1, Len(list) - 1) \in Seq(Keys)
      <4>1. Len(list) - 1 \in Nat /\ Len(list) - 1 <= Len(list)
        BY <1>3
      <4> QED
        BY <3>1, <4>1, PartType
    <3> QED
      BY <2>1, <3>2 DEF RemoveKey
  <2>2. CASE source.kind # "lido"
    <3>1. /\ i - 1 \in Nat /\ i - 1 <= Len(list) /\ i + 1 \in Nat \ {0}
      BY <1>3
    <3>2. SubSeq(list, 1, i - 1) \in Seq(Keys) /\ SubSeq(list, i + 1, Len(list)) \in Seq(Keys)
      BY <1>1, <1>3, <3>1, PartType
    <3>3. SubSeq(list, 1, i - 1) \o SubSeq(list, i + 1, Len(list)) \in Seq(Keys)
      BY <3>2, ConcatType
    <3> QED
      BY <2>2, <3>3, Zenon DEF RemoveKey
  <2> QED
    BY <2>1, <2>2
<1>5. Types' /\ Shape' /\ Grown'
  BY <1>1, <1>2, <1>4 DEF Types, Shape, Grown
<1> QED
  BY <1>5 DEF Inv

LEMMA NextInv == Inv /\ [Next]_vars => Inv'
<1> SUFFICES ASSUME Inv, [Next]_vars PROVE Inv'
  OBVIOUS
<1>1. ASSUME NEW src \in [kind : Kinds, chain : Chains, rpc : BOOLEAN], Begin(src) PROVE Inv'
  BY <1>1, BeginStep
<1>2. CASE ReadTotal
  BY <1>2, ReadTotalStep
<1>3. CASE FetchBatch
  BY <1>3, FetchBatchStep
<1>4. CASE SendRequest
  BY <1>4, SendRequestStep
<1>5. ASSUME NEW n \in 1..MaxLen, ReadChunk(n) PROVE Inv'
  BY <1>5, ReadChunkStep, MuxLoaderAssumption
<1>6. CASE EndBody
  BY <1>6, EndBodyStep
<1>7. CASE LoseRequest
  BY <1>7, FailStep DEF LoseRequest
<1>8. ASSUME NEW k \in Keys, AddKey(k) PROVE Inv'
  BY <1>8, AddKeyStep
<1>9. ASSUME NEW i \in DOMAIN list, RemoveKey(i) PROVE Inv'
  BY <1>9, RemoveKeyStep
<1>10. CASE UNCHANGED vars
  <2>1. UNCHANGED <<source, list, load, body, versions, removals>>
    BY <1>10, Zenon DEF vars, edited
  <2>2. Types' /\ Shape'
    BY <2>1, Zenon DEF Inv, Types, Shape, edited
  <2>3. Grown'
    BY <2>1, Zenon DEF Inv, Grown, BodyOf, edited
  <2> QED
    BY <2>2, <2>3 DEF Inv
<1> QED
  BY <1>1, <1>2, <1>3, <1>4, <1>5, <1>6, <1>7, <1>8, <1>9, <1>10 DEF Next, Step

LEMMA SpecInv == Spec => []Inv
  BY InitInv, NextInv, PTL DEF Spec

(***************************************************************************)
(* A load from a URL, the Lido registry or the SSV API yields the list as  *)
(* it was at one time, for any page and batch size and however the list    *)
(* grows meanwhile, unless a key is removed during the load.               *)
(***************************************************************************)
THEOREM LoadsASnapshot == Spec => []SnapshotUnlessRemoved
<1>1. Inv => SnapshotUnlessRemoved
  BY Zenon DEF Inv, Grown, SnapshotUnlessRemoved, Accepted
<1> QED
  BY SpecInv, <1>1, PTL

(***************************************************************************)
(* The loader never refuses a list for its count unless a key was removed  *)
(* meanwhile, and refuses a body for its size exactly if it is too long,   *)
(* in whichever chunks it comes.                                           *)
(***************************************************************************)
THEOREM RefusesForCause == Spec => []RefusedForCause
<1>1. Inv => RefusedForCause
  BY DEF Inv, Types, Shape, Grown, RefusedForCause, Accepted
<1> QED
  BY SpecInv, <1>1, PTL

-----------------------------------------------------------------------------
(***************************************************************************)
(* The Lido loader while keys are only removed: the list is still as long  *)
(* as it was counted, and then it is the one that was counted, or shorter, *)
(* and then the last batch cannot be full.                                 *)
(***************************************************************************)
Intact ==
  /\ Len(list) = load.total /\ Pre(load.keys, list) /\ Len(load.keys) = load.offset

Shrinking ==
  /\ adds \in Nat
  /\ source.kind = "lido" /\ load.state = "request" =>
       /\ Len(load.keys) <= load.offset
       /\ adds = 0 => Len(list) < load.total \/ Intact
  /\ source.kind = "lido" /\ load.state = "done" /\ adds = 0 => load.keys \in versions

LEMMA ShrinkingReadTotal ==
  ASSUME Inv, Shrinking, ReadTotal
  PROVE  Shrinking'
<1>1. /\ Types /\ load.keys = <<>> /\ load.offset = 0 /\ load \in LoadRecord
      /\ list \in Seq(Keys) /\ list \in versions
  BY Zenon DEF Inv, Types, Shape, ReadTotal
<1>2. /\ load'.total = Len(list) /\ load'.offset = 0 /\ load'.keys = <<>>
      /\ load'.state = "done" => list = <<>>
      /\ UNCHANGED edited
  BY <1>1 DEF ReadTotal, LoadRecord
<1>3. Intact'
  BY <1>1, <1>2 DEF Intact, Pre, edited
<1> QED
  BY <1>1, <1>2, <1>3 DEF Shrinking, edited

LEMMA ShrinkingFetchBatch ==
  ASSUME Inv, Shrinking, FetchBatch
  PROVE  Shrinking'
<1> DEFINE limit  == LesserOf(BatchSize, load.total - load.offset)
           offset == load.offset + limit
           part   == SigningKeys(load.offset, limit)
           keys   == load.keys \o part
<1>1. /\ load \in LoadRecord /\ list \in Seq(Keys) /\ list \in versions /\ source.kind = "lido"
      /\ load.state = "request" /\ UNCHANGED <<source, edited, body>>
  BY Zenon DEF Inv, FetchBatch, Types
<1>2. /\ load.total \in Nat /\ load.offset \in Nat /\ load.offset < load.total
      /\ load.keys \in Seq(Keys) /\ Len(list) \in Nat /\ Len(load.keys) \in Nat
  BY <1>1 DEF Inv, Shape, LoadRecord
<1>3. limit \in Nat /\ limit > 0 /\ offset \in Nat /\ offset <= load.total
  BY <1>2, MuxLoaderAssumption DEF LesserOf
<1>4. /\ Len(load.keys) <= load.offset /\ adds \in Nat
      /\ adds = 0 => Len(list) < load.total \/ Intact
  BY <1>1, Zenon DEF Shrinking
<1> HIDE DEF limit
<1> DEFINE n == LesserOf(offset, Len(list))
<1>5. n \in Nat /\ n <= Len(list) /\ n <= offset
  BY <1>2, <1>3, LesserType, Zenon
<1>6. part \in Seq(Keys) /\ Len(part) <= limit /\ (n < offset => Len(part) < limit)
  <2>1. part = SubSeq(list, load.offset + 1, n)
    BY Zenon DEF SigningKeys
  <2> HIDE DEF n, part
  <2>2. part \in Seq(Keys)
    <3>1. load.offset + 1 \in Nat \ {0}
      BY <1>2
    <3> QED
      BY <1>1, <1>5, <2>1, <3>1, PartType
  <2>3. CASE load.offset <= n
    <3>1. Len(part) = n - load.offset
      BY <1>1, <1>2, <1>5, <2>1, <2>3, PartLen, Zenon
    <3> QED
      BY <1>2, <1>3, <1>5, <2>2, <3>1
  <2>4. CASE ~(load.offset <= n)
    <3>1. part = <<>>
      BY <1>1, <1>2, <1>5, <2>1, <2>4
    <3> QED
      BY <1>3, <2>2, <3>1
  <2> QED
    BY <2>3, <2>4
<1>7. keys \in Seq(Keys) /\ Len(keys) = Len(load.keys) + Len(part) /\ Len(part) \in Nat
  BY <1>2, <1>6
<1>8. Intact => Pre(keys, list) /\ Len(keys) = offset
  <2> SUFFICES ASSUME Intact PROVE Pre(keys, list) /\ Len(keys) = offset
    BY Zenon
  <2>1. /\ Len(list) = load.total /\ Pre(load.keys, list) /\ Len(load.keys) = load.offset
        /\ Len(load.keys) <= offset /\ offset <= Len(list)
    BY <1>2, <1>3 DEF Intact
  <2>2. part = SubSeq(list, Len(load.keys) + 1, offset)
    <3>1. LesserOf(offset, Len(list)) = offset
      BY <1>2, <1>3, <2>1 DEF LesserOf
    <3> QED
      BY <2>1, <3>1, Zenon DEF SigningKeys
  <2> HIDE DEF offset, part
  <2>3. Prolongs(load.keys, part, list, offset)
    BY <1>1, <1>2, <1>3, <2>1, <2>2, PreExtend, Zenon
  <2> QED
    BY <2>3 DEF Prolongs
<1>9. \/ offset < load.total /\ load' = [load EXCEPT !.keys = keys, !.offset = offset]
      \/ offset = load.total /\ Finish(keys, load.total)
      \/ Fail("network")
  BY <1>2, <1>3 DEF FetchBatch, limit
<1>10. list' = list /\ versions' = versions /\ adds' = adds /\ source' = source
  BY <1>1 DEF edited
<1> HIDE DEF keys, part, offset, n
<1>11. CASE offset < load.total /\ load' = [load EXCEPT !.keys = keys, !.offset = offset]
  <2>1. /\ load'.keys = keys /\ load'.offset = offset /\ load'.total = load.total
        /\ load'.state = "request"
    BY <1>1, <1>11 DEF LoadRecord
  <2>2. Len(keys) <= offset
    BY <1>2, <1>3, <1>4, <1>6, <1>7 DEF offset
  <2>3. Intact => Intact'
    BY <1>8, <1>10, <2>1 DEF Intact
  <2> QED
    BY <1>4, <1>10, <2>1, <2>2, <2>3 DEF Shrinking
<1>12. CASE offset = load.total /\ Finish(keys, load.total)
  <2>1. Len(list) < load.total => Len(keys) < load.total
    BY <1>2, <1>3, <1>4, <1>5, <1>6, <1>7, <1>12, SMTT(30) DEF offset
  <2>2. Intact => keys = list
    BY <1>1, <1>7, <1>8, <1>12, PreFull DEF Intact
  <2>3. CASE Len(keys) = load.total
    <3>1. load'.state = "done" /\ load'.keys = keys
      BY <1>1, <1>12, <2>3, Zenon DEF Finish, LoadRecord
    <3>2. adds = 0 => keys \in versions
      BY <1>1, <1>2, <1>4, <1>7, <2>1, <2>2, <2>3
    <3> QED
      BY <1>4, <1>10, <3>1, <3>2, Zenon DEF Shrinking
  <2>4. CASE Len(keys) # load.total
    BY <1>1, <1>4, <1>10, <1>12, <2>4, Zenon DEF Finish, Fail, Shrinking, LoadRecord
  <2> QED
    BY <2>3, <2>4
<1>13. CASE Fail("network")
  BY <1>1, <1>4, <1>10, <1>13 DEF Fail, Shrinking, LoadRecord
<1> QED
  BY <1>9, <1>11, <1>12, <1>13

LEMMA ShrinkingRemoveKey ==
  ASSUME Inv, Shrinking, NEW i \in DOMAIN list, RemoveKey(i)
  PROVE  Shrinking'
<1>1. /\ list \in Seq(Keys) /\ i \in 1..Len(list) /\ Len(list) \in Nat /\ Len(list) > 0
      /\ load.total \in Nat /\ Active /\ UNCHANGED <<source, adds, load>>
  BY SMTT(30) DEF Inv, Types, LoadRecord, RemoveKey
<1>2. source.kind = "lido" => Len(list') = Len(list) - 1
  <2> SUFFICES ASSUME source.kind = "lido" PROVE Len(list') = Len(list) - 1
    OBVIOUS
  <2>1. /\ [list EXCEPT ![i] = list[Len(list)]] \in Seq(Keys)
        /\ Len([list EXCEPT ![i] = list[Len(list)]]) = Len(list)
    BY <1>1
  <2>2. list' = SubSeq([list EXCEPT ![i] = list[Len(list)]], 0 + 1, Len(list) - 1)
    BY DEF RemoveKey
  <2>3. Len(list) - 1 \in Nat /\ 0 <= Len(list) - 1 /\ Len(list) - 1 <= Len(list)
    BY <1>1
  <2>4. Len(list') = (Len(list) - 1) - 0
    BY <2>1, <2>2, <2>3, PartLen
  <2> QED
    BY <1>1, <2>4
<1>3. CASE source.kind = "lido" /\ load.state = "request"
  <2>1. adds = 0 => Len(list) <= load.total
    BY <1>1, <1>3 DEF Shrinking, Intact
  <2>2. adds = 0 => Len(list') < load.total
    BY <1>1, <1>2, <1>3, <2>1
  <2> QED
    BY <1>1, <1>3, <2>2 DEF Shrinking
<1>4. CASE ~(source.kind = "lido" /\ load.state = "request")
  BY <1>1, <1>4 DEF Shrinking, Active
<1> QED
  BY <1>3, <1>4

LEMMA ShrinkingNext == Inv /\ Shrinking /\ [Next]_vars => Shrinking'
<1> SUFFICES ASSUME Inv, Shrinking, [Next]_vars PROVE Shrinking'
  OBVIOUS
<1>0. Types /\ Shape /\ load \in LoadRecord
  BY DEF Inv, Types
<1>1. ASSUME NEW src \in [kind : Kinds, chain : Chains, rpc : BOOLEAN], Begin(src) PROVE Shrinking'
  <2>1. /\ adds' = 0 /\ source' = src /\ load'.state \in {"total", "request", "failed"}
        /\ load'.state = "request" => src.kind # "lido"
    BY <1>1, Zenon DEF Begin, Fresh
  <2> QED
    BY <2>1, Zenon DEF Shrinking
<1>2. CASE ReadTotal
  BY <1>2, ShrinkingReadTotal, Zenon
<1>3. CASE FetchBatch
  BY <1>3, ShrinkingFetchBatch
<1>4. CASE SendRequest \/ EndBody \/ \E n \in 1..MaxLen : ReadChunk(n)
  <2>1. source.kind # "lido" /\ source' = source /\ adds' = adds
    BY <1>0, <1>4, Zenon DEF Shape, SendRequest, EndBody, ReadChunk, edited
  <2> QED
    BY <2>1 DEF Shrinking
<1>5. CASE LoseRequest
  <2>1. load'.state = "failed" /\ adds' = adds
    BY <1>0, <1>5 DEF LoseRequest, Fail, edited, LoadRecord
  <2> QED
    BY <2>1 DEF Shrinking
<1>6. ASSUME NEW k \in Keys, AddKey(k) PROVE Shrinking'
  <2>1. adds' = adds + 1 /\ UNCHANGED <<source, load>> /\ adds \in Nat
    BY <1>6 DEF AddKey, Shrinking
  <2> QED
    BY <2>1 DEF Shrinking
<1>7. ASSUME NEW i \in DOMAIN list, RemoveKey(i) PROVE Shrinking'
  BY <1>7, ShrinkingRemoveKey
<1>8. CASE UNCHANGED vars
  BY <1>8 DEF vars, Shrinking, Intact
<1> QED
  BY <1>1, <1>2, <1>3, <1>4, <1>5, <1>6, <1>7, <1>8 DEF Next, Step

(***************************************************************************)
(* fetch_lido_registry_keys never takes a part of a shrinking registry for *)
(* the whole: for any batch size, if keys are only removed during the load *)
(* it yields the registry as it was at some time, or fails.                *)
(***************************************************************************)
THEOREM LidoDetectsShrinking == Spec => []LidoShrinkingDetected
<1>1. Init => Shrinking
  BY DEF Init, Shrinking, Fresh
<1>2. Shrinking => LidoShrinkingDetected
  BY Zenon DEF Shrinking, LidoShrinkingDetected, Accepted
<1> QED
  BY SpecInv, ShrinkingNext, <1>1, <1>2, PTL DEF Spec

-----------------------------------------------------------------------------
(***************************************************************************)
(* Keys that a load misses.  ToRead(j) says that the j-th place of the     *)
(* list is still to be read; the Lido loader stops at the count that it    *)
(* read first, the SSV loader after a page that is not full.  A key that   *)
(* was there all the time is missed if it has neither been read nor stands *)
(* at such a place.                                                        *)
(***************************************************************************)
ToRead(j) ==
  CASE load.state = "total" -> TRUE
    [] load.state = "request" -> load.offset < j /\ (source.kind = "lido" => j <= load.total)
    [] load.state = "body" -> /\ source.kind = "ssv" /\ Len(body.keys) = PerPage
                              /\ load.offset + PerPage < j
    [] OTHER -> FALSE

Places == {j \in DOMAIN list : ToRead(j)}
Remaining == {list[j] : j \in Places}

KeysRead == Range(load.keys) \cup (IF load.state = "body" THEN Range(body.keys) ELSE {})

There == {k \in Keys : \A v \in versions : k \in Range(v)}

Missed == There \ (KeysRead \cup Remaining)

MissedInv ==
  load.state \in {"total", "request", "body", "done"} =>
    /\ Cardinality(Missed) <= removals
    /\ \A k \in KeysRead : \E v \in versions : k \in Range(v)

LEMMA FiniteRange ==
  ASSUME NEW s \in Seq(Keys)
  PROVE  IsFiniteSet(Range(s)) /\ Range(s) \subseteq Keys
<1>1. s \in [1..Len(s) -> Keys] /\ Len(s) \in Nat
  OBVIOUS
<1>2. s \in Surjection(1..Len(s), Range(s))
  BY <1>1 DEF Surjection, Range
<1>3. IsFiniteSet(1..Len(s))
  BY <1>1, FS_Interval
<1> QED
  BY <1>1, <1>2, <1>3, FS_Surjection DEF Range

LEMMA MissedFinite ==
  ASSUME Types
  PROVE  IsFiniteSet(Missed) /\ There \subseteq Range(list) /\ Cardinality(Missed) \in Nat
<1>1. There \subseteq Range(list)
  BY DEF Types, There
<1>2. Missed \in SUBSET Range(list) /\ IsFiniteSet(Range(list))
  BY <1>1, FiniteRange DEF Missed, Types
<1>3. IsFiniteSet(Missed)
  BY <1>2, FS_Subset, Zenon
<1> QED
  BY <1>1, <1>3, FS_CardinalityType

\* A step that misses no further key keeps the bound.
LEMMA NoFurther ==
  ASSUME Types, Cardinality(Missed) <= removals, Missed' \subseteq Missed,
         removals \in Nat, removals' \in Nat, removals <= removals'
  PROVE  Cardinality(Missed') <= removals'
<1>1. Missed' \in SUBSET Missed /\ IsFiniteSet(Missed)
  BY MissedFinite
<1>2. /\ Cardinality(Missed') <= Cardinality(Missed) /\ Cardinality(Missed') \in Nat
      /\ Cardinality(Missed) \in Nat
  BY <1>1, FS_Subset, FS_CardinalityType
<1> QED
  BY <1>2

\* A step that misses at most one further key does, if it counts a removal.
LEMMA OneFurther ==
  ASSUME Types, Cardinality(Missed) <= removals, removals \in Nat, removals' = removals + 1,
         \A k, q \in Missed' \ Missed : k = q
  PROVE  Cardinality(Missed') <= removals'
<1>1. IsFiniteSet(Missed) /\ Cardinality(Missed) \in Nat
  BY MissedFinite
<1>2. \E x : Missed' \subseteq Missed \cup {x}
  <2>1. CASE Missed' \ Missed = {}
    BY <2>1
  <2>2. CASE Missed' \ Missed # {}
    <3>1. PICK x \in Missed' \ Missed : TRUE
      BY <2>2
    <3>2. Missed' \subseteq Missed \cup {x}
      BY <3>1
    <3> QED
      BY <3>2
  <2> QED
    BY <2>1, <2>2
<1> PICK x : Missed' \subseteq Missed \cup {x}
  BY <1>2
<1>3. /\ IsFiniteSet(Missed \cup {x}) /\ Cardinality(Missed \cup {x}) <= Cardinality(Missed) + 1
      /\ Cardinality(Missed \cup {x}) \in Nat
  <2>1. /\ IsFiniteSet(Missed \cup {x})
        /\ Cardinality(Missed \cup {x}) = IF x \in Missed THEN Cardinality(Missed) ELSE Cardinality(Missed) + 1
    BY <1>1, FS_AddElement, Zenon
  <2> QED
    BY <1>1, <2>1
<1>4. Cardinality(Missed') <= Cardinality(Missed \cup {x}) /\ Cardinality(Missed') \in Nat
  <2>1. Missed' \in SUBSET (Missed \cup {x})
    OBVIOUS
  <2> QED
    BY <1>3, <2>1, FS_Subset, FS_CardinalityType
<1> QED
  BY <1>1, <1>3, <1>4

\* The same for a step that leaves the list alone.
LEMMA ReadOn ==
  ASSUME Types, UNCHANGED edited, MissedInv, Active,
         KeysRead \cup Remaining \subseteq KeysRead' \cup Remaining',
         KeysRead' \subseteq KeysRead \cup Range(list)
  PROVE  MissedInv'
<1>1. /\ Cardinality(Missed) <= removals
      /\ \A k \in KeysRead : \E v \in versions : k \in Range(v)
  BY DEF MissedInv, Active
<1>2. UNCHANGED <<list, versions, removals>> /\ removals \in Nat /\ list \in versions
  BY DEF edited, Types
<1>3. Missed' \subseteq Missed
  BY <1>2 DEF Missed, There
<1>4. Cardinality(Missed') <= removals'
  BY <1>1, <1>2, <1>3, NoFurther
<1>5. ASSUME NEW k \in KeysRead' PROVE \E v \in versions' : k \in Range(v)
  BY <1>1, <1>2
<1> QED
  BY <1>4, <1>5 DEF MissedInv

LEMMA RangeConcat ==
  ASSUME NEW s \in Seq(Keys), NEW t \in Seq(Keys)
  PROVE  Range(s \o t) = Range(s) \cup Range(t)
<1>1. /\ Len(s) \in Nat /\ Len(t) \in Nat /\ DOMAIN s = 1..Len(s) /\ DOMAIN t = 1..Len(t)
      /\ DOMAIN (s \o t) = 1..(Len(s) + Len(t))
  OBVIOUS
<1>2. /\ \A j \in 1..Len(s) : (s \o t)[j] = s[j]
      /\ \A j \in 1..Len(t) : (s \o t)[Len(s) + j] = t[j]
  OBVIOUS
<1>3. ASSUME NEW j \in 1..(Len(s) + Len(t))
      PROVE  (s \o t)[j] \in Range(s) \cup Range(t)
  <2>1. CASE j <= Len(s)
    BY <1>1, <1>2, <2>1 DEF Range
  <2>2. CASE j > Len(s)
    <3>1. j - Len(s) \in 1..Len(t) /\ Len(s) + (j - Len(s)) = j
      BY <1>1, <2>2
    <3> QED
      BY <1>1, <1>2, <3>1, SMTT(30) DEF Range
  <2> QED
    BY <1>1, <2>1, <2>2
<1>4. Range(s) \subseteq Range(s \o t)
  BY <1>1, <1>2 DEF Range
<1>5. Range(t) \subseteq Range(s \o t)
  <2>1. ASSUME NEW j \in 1..Len(t) PROVE Len(s) + j \in DOMAIN (s \o t)
    BY <1>1
  <2> QED
    BY <1>1, <1>2, <2>1, Zenon DEF Range
<1>6. Range(s \o t) \subseteq Range(s) \cup Range(t)
  BY <1>1, <1>3, Zenon DEF Range
<1> QED
  BY <1>4, <1>5, <1>6

\* The part of a list from one place to another has the keys in between.
LEMMA RangePart ==
  ASSUME NEW s \in Seq(Keys), NEW a \in Nat, NEW b \in Nat, b <= Len(s)
  PROVE  /\ Range(SubSeq(s, a + 1, b)) \subseteq Range(s)
         /\ \A j \in DOMAIN s : a < j /\ j <= b => s[j] \in Range(SubSeq(s, a + 1, b))
<1> DEFINE t == SubSeq(s, a + 1, b)
<1>1. CASE a >= b
  <2>1. t = <<>>
    BY <1>1
  <2> QED
    BY <1>1, <2>1 DEF Range
<1>2. CASE a < b
  <2>1. DOMAIN t = 1..(b - a) /\ \A j \in 1..(b - a) : t[j] = s[a + j] /\ a + j \in DOMAIN s
    BY <1>2
  <2>2. Range(t) \subseteq Range(s)
    BY <2>1 DEF Range
  <2>3. ASSUME NEW j \in DOMAIN s, a < j, j <= b PROVE s[j] \in Range(t)
    <3>1. j - a \in 1..(b - a) /\ a + (j - a) = j
      BY <2>3
    <3>2. t[j - a] = s[j] /\ j - a \in DOMAIN t
      BY <2>1, <3>1
    <3> QED
      BY <3>2 DEF Range
  <2> QED
    BY <2>2, <2>3
<1> QED
  BY <1>1, <1>2

LEMMA BeginMissed ==
  ASSUME Inv, Inv', NEW src \in [kind : Kinds, chain : Chains, rpc : BOOLEAN], Begin(src)
  PROVE  MissedInv'
<1>1. CASE Supported(src)
  <2>1. /\ load' = Fresh(IF src.kind = "lido" THEN "total" ELSE "request", None)
        /\ source' = src /\ removals' = 0 /\ Types'
    BY <1>1 DEF Begin, Inv
  <2>2. /\ load'.state = IF src.kind = "lido" THEN "total" ELSE "request"
        /\ load'.offset = 0 /\ load'.keys = <<>>
    BY <2>1 DEF Fresh
  <2>3. There' \subseteq Range(list)' /\ list' \in Seq(Keys)
    BY <2>1 DEF Types, There
  <2>4. \A j \in DOMAIN list' : ToRead(j)'
    BY <2>1, <2>2, <2>3 DEF ToRead
  <2>5. Remaining' = Range(list)'
    BY <2>4 DEF Remaining, Places, Range
  <2>6. Missed' = {}
    BY <2>3, <2>5 DEF Missed
  <2>7. KeysRead' = {}
    BY <2>2 DEF KeysRead, Range
  <2> QED
    BY <2>1, <2>6, <2>7, FS_EmptySet DEF MissedInv
<1>2. CASE ~ Supported(src)
  <2>1. load'.state = "failed"
    BY <1>2 DEF Begin, Fresh
  <2> QED
    BY <2>1 DEF MissedInv
<1> QED
  BY <1>1, <1>2

LEMMA ReadTotalMissed ==
  ASSUME Inv, MissedInv, ReadTotal
  PROVE  MissedInv'
<1>1. /\ Types /\ load \in LoadRecord /\ load.state = "total" /\ source.kind = "lido"
      /\ load.offset = 0 /\ load.keys = <<>> /\ list \in Seq(Keys) /\ UNCHANGED <<source, edited, body>>
      /\ Active
  BY DEF Inv, Types, Shape, ReadTotal, Active
<1>2. /\ load'.state = IF list = <<>> THEN "done" ELSE "request"
      /\ load'.total = Len(list) /\ load'.offset = 0 /\ load'.keys = <<>>
  BY <1>1 DEF ReadTotal, LoadRecord
<1>3. UNCHANGED list /\ KeysRead = {} /\ KeysRead' = {}
  BY <1>1, <1>2 DEF KeysRead, edited, Range
<1>4. Remaining \subseteq Remaining'
  <2>1. CASE list = <<>>
    BY <2>1 DEF Remaining, Places
  <2>2. CASE list # <<>>
    <3>1. \A j \in DOMAIN list : ToRead(j)'
      BY <1>1, <1>2, <2>2 DEF ToRead
    <3> QED
      BY <1>3, <3>1 DEF Remaining, Places
  <2> QED
    BY <2>1, <2>2
<1> QED
  BY <1>1, <1>3, <1>4, ReadOn

\* A failed load promises nothing.
LEMMA FailMissed == ASSUME NEW cause, load \in LoadRecord, Fail(cause) PROVE MissedInv'
  BY DEF Fail, LoadRecord, MissedInv

\* A load that is done has read the keys it is done with.
LEMMA FinishMissed ==
  ASSUME Types, MissedInv, NEW keys, NEW total, Finish(keys, total), Active, UNCHANGED edited,
         KeysRead \cup Remaining \subseteq Range(keys), Range(keys) \subseteq KeysRead \cup Range(list)
  PROVE  MissedInv'
<1>1. load \in LoadRecord
  BY DEF Types
<1>2. CASE Len(keys) = total
  <2>1. load'.state = "done" /\ load'.keys = keys
    BY <1>1, <1>2, Zenon DEF Finish, LoadRecord
  <2>2. KeysRead' = Range(keys)
    BY <2>1 DEF KeysRead
  <2> QED
    BY <2>2, ReadOn
<1>3. CASE Len(keys) # total
  BY <1>1, <1>3, FailMissed DEF Finish
<1> QED
  BY <1>2, <1>3

LEMMA FetchBatchMissed ==
  ASSUME Inv, MissedInv, FetchBatch
  PROVE  MissedInv'
<1> DEFINE limit  == LesserOf(BatchSize, load.total - load.offset)
           offset == load.offset + limit
           part   == SigningKeys(load.offset, limit)
           keys   == load.keys \o part
<1>1. /\ Types /\ Shape /\ load.state = "request" /\ source.kind = "lido"
      /\ load \in LoadRecord /\ list \in Seq(Keys) /\ Active
      /\ UNCHANGED <<source, edited, body>>
  BY DEF Inv, FetchBatch, Types, Active
<1>2. load.total \in Nat /\ load.offset \in Nat /\ load.offset < load.total /\ load.keys \in Seq(Keys)
  BY <1>1 DEF Shape, LoadRecord
<1>3. limit \in Nat /\ limit > 0 /\ offset <= load.total /\ offset \in Nat
  BY <1>2, MuxLoaderAssumption DEF LesserOf
<1>4. \/ offset < load.total /\ load' = [load EXCEPT !.keys = keys, !.offset = offset]
      \/ offset = load.total /\ Finish(keys, load.total)
      \/ Fail("network")
  BY <1>2, <1>3 DEF FetchBatch
<1> HIDE DEF limit
<1>5. DEFINE last == LesserOf(offset, Len(list))
<1>6. last \in Nat /\ last <= Len(list) /\ \A j \in DOMAIN list : j <= offset => j <= last
  BY <1>1, <1>3 DEF LesserOf
<1>7. part = SubSeq(list, load.offset + 1, last)
  BY Zenon DEF SigningKeys
<1> HIDE DEF last, part
<1>8. /\ part \in Seq(Keys) /\ Range(part) \subseteq Range(list)
      /\ \A j \in DOMAIN list : load.offset < j /\ j <= offset => list[j] \in Range(part)
  <2>1. load.offset + 1 \in Nat \ {0}
    BY <1>2
  <2> QED
    BY <1>1, <1>2, <1>6, <1>7, <2>1, PartType, RangePart, SMTT(30)
<1>9. Range(keys) = Range(load.keys) \cup Range(part) /\ KeysRead = Range(load.keys)
  BY <1>1, <1>2, <1>8, RangeConcat DEF KeysRead
<1>10. Places = {j \in DOMAIN list : load.offset < j /\ j <= load.total}
  BY <1>1 DEF Places, ToRead
<1> HIDE DEF keys, offset
<1>11. CASE offset < load.total /\ load' = [load EXCEPT !.keys = keys, !.offset = offset]
  <2>1. /\ load'.state = "request" /\ load'.total = load.total /\ load'.offset = offset
        /\ load'.keys = keys
    BY <1>1, <1>11 DEF LoadRecord
  <2>2. UNCHANGED list /\ KeysRead' = Range(keys)
    BY <1>1, <2>1 DEF edited, KeysRead
  <2>3. Places' = {j \in DOMAIN list : offset < j /\ j <= load.total}
    BY <1>1, <2>1, <2>2 DEF Places, ToRead
  <2>4. ASSUME NEW j \in Places PROVE list[j] \in KeysRead' \cup Remaining'
    <3>1. CASE j <= offset
      BY <1>8, <1>9, <1>10, <2>2, <2>4, <3>1, SMTT(30)
    <3>2. CASE offset < j
      BY <1>10, <2>2, <2>3, <2>4, <3>2 DEF Remaining
    <3>3. j \in Nat
      BY <1>1, <1>10, <2>4
    <3> QED
      BY <1>3, <3>1, <3>2, <3>3
  <2>5. /\ KeysRead \cup Remaining \subseteq KeysRead' \cup Remaining'
        /\ KeysRead' \subseteq KeysRead \cup Range(list)
    BY <1>8, <1>9, <2>2, <2>4, SMTT(30) DEF Remaining
  <2> QED
    BY <1>1, <2>5, ReadOn
<1>12. CASE offset = load.total /\ Finish(keys, load.total)
  <2>1. Remaining \subseteq Range(part)
    BY <1>8, <1>10, <1>12 DEF Remaining
  <2> QED
    BY <1>1, <1>8, <1>9, <1>12, <2>1, FinishMissed, SMTT(30)
<1> QED
  BY <1>1, <1>4, <1>11, <1>12, FailMissed

\* A page that is not full has every key from its offset on.
LEMMA SendRequestMissed ==
  ASSUME Inv, MissedInv, SendRequest
  PROVE  MissedInv'
<1> DEFINE keys == IF source.kind = "ssv" THEN PageAt(load.offset) ELSE list
<1>1. /\ Types /\ load.state = "request" /\ source.kind # "lido" /\ Active
      /\ load \in LoadRecord /\ list \in Seq(Keys) /\ UNCHANGED <<source, edited>>
  BY DEF Inv, SendRequest, Types, Active
<1>2. Len(list) \in Nat /\ load.offset \in Nat /\ load.keys \in Seq(Keys)
  BY <1>1 DEF LoadRecord
<1>3. \/ Fail("size")
      \/ body'.keys = keys /\ load' = [load EXCEPT !.state = "body"]
  BY DEF SendRequest
<1>4. source.kind = "ssv" => keys = PageAt(load.offset)
  OBVIOUS
<1>5. source.kind # "ssv" => keys = list
  OBVIOUS
<1> HIDE DEF keys
<1>6. CASE body'.keys = keys /\ load' = [load EXCEPT !.state = "body"]
  <2>1. load'.state = "body" /\ load'.offset = load.offset /\ load'.keys = load.keys
    BY <1>1, <1>6 DEF LoadRecord
  <2>2. KeysRead = Range(load.keys) /\ KeysRead' = Range(load.keys) \cup Range(keys)
    BY <1>1, <1>6, <2>1 DEF KeysRead
  <2>3. Places = {j \in DOMAIN list : load.offset < j} /\ UNCHANGED list
    BY <1>1 DEF Places, ToRead, edited
  <2>4. CASE source.kind # "ssv"
    BY <1>1, <1>5, <2>2, <2>3, <2>4, ReadOn, SMTT(30) DEF Remaining, Range
  <2>5. CASE source.kind = "ssv"
    <3> DEFINE last == LesserOf(load.offset + PerPage, Len(list))
    <3>1. /\ last \in Nat /\ last <= Len(list) /\ last <= load.offset + PerPage
          /\ \/ last = load.offset + PerPage
             \/ last = Len(list) /\ last < load.offset + PerPage
      BY <1>2, PageSize DEF LesserOf
    <3>2. keys = SubSeq(list, load.offset + 1, last)
      BY <1>4, <2>5 DEF PageAt
    <3> HIDE DEF last
    <3>3. /\ Range(keys) \subseteq Range(list)
          /\ \A j \in DOMAIN list : load.offset < j /\ j <= last => list[j] \in Range(keys)
      BY <1>1, <1>2, <3>1, <3>2, RangePart
    <3>4. last = load.offset + PerPage => Len(keys) = PerPage
      <4> SUFFICES ASSUME last = load.offset + PerPage PROVE Len(keys) = PerPage
        OBVIOUS
      <4>1. load.offset <= last /\ last - load.offset = PerPage
        BY <1>2, <3>1, PageSize
      <4> QED
        BY <1>1, <1>2, <3>1, <3>2, <4>1, PartLen, SMTT(30)
    <3>5. ASSUME NEW j \in Places PROVE list[j] \in KeysRead' \cup Remaining'
      <4>1. j \in 1..Len(list) /\ load.offset < j
        BY <1>1, <2>3, <3>5
      <4>2. CASE j <= last
        BY <1>1, <2>2, <3>3, <4>1, <4>2
      <4>3. CASE last < j
        <5>1. last = load.offset + PerPage
          BY <1>2, <3>1, <4>1, <4>3
        <5>2. ToRead(j)'
          BY <1>1, <1>6, <2>1, <2>5, <3>4, <4>3, <5>1 DEF ToRead
        <5> QED
          BY <1>1, <2>3, <4>1, <5>2 DEF Remaining, Places
      <4> QED
        BY <3>1, <4>1, <4>2, <4>3
    <3> QED
      BY <1>1, <2>2, <3>3, <3>5, ReadOn DEF Remaining
  <2> QED
    BY <2>4, <2>5
<1> QED
  BY <1>1, <1>3, <1>6, FailMissed

LEMMA ReadChunkMissed ==
  ASSUME Inv, MissedInv, NEW n \in Nat, ReadChunk(n)
  PROVE  MissedInv'
<1>1. /\ Types /\ load \in LoadRecord /\ body \in BodyRecord /\ Active
      /\ UNCHANGED <<source, edited>>
  BY DEF Inv, ReadChunk, Types, Active
<1>2. CASE TooLong(n)
  BY <1>1, <1>2, FailMissed DEF ReadChunk
<1>3. CASE ~TooLong(n)
  <2>1. load' = load /\ body'.keys = body.keys /\ UNCHANGED <<source, list>>
    BY <1>1, <1>3, Zenon DEF ReadChunk, BodyRecord, edited
  <2>2. KeysRead' = KeysRead /\ Remaining' = Remaining
    BY <2>1 DEF KeysRead, Remaining, Places, ToRead
  <2> QED
    BY <1>1, <2>2, ReadOn
<1> QED
  BY <1>2, <1>3

LEMMA EndBodyMissed ==
  ASSUME Inv, MissedInv, EndBody
  PROVE  MissedInv'
<1> DEFINE keys == load.keys \o body.keys
<1>1. /\ Types /\ load.state = "body" /\ source.kind \in {"http", "ssv"} /\ Active
      /\ load \in LoadRecord /\ body \in BodyRecord /\ UNCHANGED <<source, edited, body>>
  BY DEF Inv, Types, Shape, EndBody, Active, Kinds
<1>2. load.keys \in Seq(Keys) /\ body.keys \in Seq(Keys) /\ load.offset \in Nat
  BY <1>1 DEF LoadRecord, BodyRecord
<1>3. Range(keys) = KeysRead
  BY <1>1, <1>2, RangeConcat DEF KeysRead
<1>4. \/ Fail("status")
      \/ (source.kind = "http" \/ Len(body.keys) < PerPage) /\ \E total : Finish(keys, total)
      \/ source.kind = "ssv" /\ NextPage(keys)
  BY <1>1, Zenon DEF EndBody
<1> HIDE DEF keys
<1>5. CASE (source.kind = "http" \/ Len(body.keys) < PerPage) /\ \E total : Finish(keys, total)
  <2>1. Places = {}
    BY <1>1, <1>5, PageSize DEF Places, ToRead
  <2>2. Remaining = {}
    BY <2>1 DEF Remaining
  <2> QED
    BY <1>1, <1>3, <1>5, <2>2, FinishMissed
<1>6. CASE source.kind = "ssv" /\ NextPage(keys)
  <2>1. load'.state = "request" /\ load'.keys = keys /\ load'.offset = load.offset + PerPage
    BY <1>1, <1>6 DEF NextPage, LoadRecord
  <2>2. KeysRead' = KeysRead
    BY <1>3, <2>1 DEF KeysRead
  <2>3. Places \subseteq Places' /\ UNCHANGED list
    BY <1>1, <1>6, <2>1 DEF Places, ToRead, edited
  <2>4. Remaining \subseteq Remaining'
    BY <2>3, Zenon DEF Remaining
  <2> QED
    BY <1>1, <2>2, <2>4, ReadOn
<1> QED
  BY <1>1, <1>4, <1>5, <1>6, FailMissed, Zenon

\* A key added comes last: what remained to be read remains.
LEMMA AddKeyMissed ==
  ASSUME Inv, MissedInv, NEW k \in Keys, AddKey(k)
  PROVE  MissedInv'
<1>1. /\ Types /\ list \in Seq(Keys) /\ removals \in Nat /\ Active
      /\ Cardinality(Missed) <= removals
      /\ \A q \in KeysRead : \E v \in versions : q \in Range(v)
  BY Zenon DEF Inv, Types, AddKey, MissedInv, Active
<1>2. /\ list' = Append(list, k) /\ versions' = versions \cup {list'}
      /\ UNCHANGED <<source, removals, load, body>>
  BY Zenon DEF AddKey
<1>3. DOMAIN list \subseteq DOMAIN list' /\ \A j \in DOMAIN list : list'[j] = list[j]
  BY <1>1, <1>2
<1>4. \A j : ToRead(j)' <=> ToRead(j)
  BY <1>2 DEF ToRead
<1>5. Remaining \subseteq Remaining'
  BY <1>3, <1>4 DEF Remaining, Places
<1>6. KeysRead' = KeysRead /\ There' \subseteq There
  BY <1>2 DEF KeysRead, There
<1>7. Missed' \subseteq Missed
  BY <1>5, <1>6 DEF Missed
<1>8. Cardinality(Missed') <= removals'
  BY <1>1, <1>2, <1>7, NoFurther
<1> QED
  BY <1>1, <1>2, <1>6, <1>8 DEF MissedInv

\* Two lists one after the other, place by place; and a part of a list.
LEMMA ConcatAt ==
  ASSUME NEW a \in Seq(Keys), NEW b \in Seq(Keys)
  PROVE  /\ DOMAIN (a \o b) = 1..(Len(a) + Len(b))
         /\ \A n \in 1..(Len(a) + Len(b)) :
              (a \o b)[n] = IF n <= Len(a) THEN a[n] ELSE b[n - Len(a)]
<1>1. DOMAIN (a \o b) = 1..(Len(a) + Len(b))
  OBVIOUS
<1>2. ASSUME NEW n \in 1..(Len(a) + Len(b))
      PROVE  (a \o b)[n] = IF n <= Len(a) THEN a[n] ELSE b[n - Len(a)]
  OBVIOUS
<1> QED
  BY <1>1, <1>2, Zenon

LEMMA PartAt ==
  ASSUME NEW s \in Seq(Keys), NEW from \in Nat, NEW to \in Nat,
         from <= to, to <= Len(s)
  PROVE  /\ SubSeq(s, from + 1, to) \in Seq(Keys) /\ Len(SubSeq(s, from + 1, to)) = to - from
         /\ \A n \in 1..(to - from) : SubSeq(s, from + 1, to)[n] = s[from + n]
<1>1. SubSeq(s, from + 1, to) \in Seq(Keys) /\ Len(SubSeq(s, from + 1, to)) = to - from
  OBVIOUS
<1>2. ASSUME NEW n \in 1..(to - from)
      PROVE  SubSeq(s, from + 1, to)[n] = s[from + n]
  OBVIOUS
<1> QED
  BY <1>1, <1>2, Zenon

LEMMA FirstAt ==
  ASSUME NEW s \in Seq(Keys), NEW to \in Nat, to <= Len(s)
  PROVE  /\ SubSeq(s, 1, to) \in Seq(Keys) /\ Len(SubSeq(s, 1, to)) = to
         /\ \A n \in 1..to : SubSeq(s, 1, to)[n] = s[n]
<1>1. SubSeq(s, 1, to) \in Seq(Keys) /\ Len(SubSeq(s, 1, to)) = to
  OBVIOUS
<1>2. ASSUME NEW n \in 1..to
      PROVE  SubSeq(s, 1, to)[n] = s[n]
  OBVIOUS
<1> QED
  BY <1>1, <1>2, Zenon

(***************************************************************************)
(* A removal moves one key only over the place the load has come to: the   *)
(* one that closes the gap before that place, or fills the gap from the    *)
(* end.                                                                    *)
(***************************************************************************)
LEMMA GapClosed ==
  ASSUME Inv, NEW i \in DOMAIN list, RemoveKey(i), source.kind # "lido",
         NEW j \in Places, NEW m \in Places,
         list[j] \notin Remaining', list[m] \notin Remaining'
  PROVE  j = m
<1>1. list \in Seq(Keys) /\ i \in 1..Len(list) /\ j \in 1..Len(list) /\ m \in 1..Len(list)
  BY DEF Inv, Types, Places
<1>2. /\ list' = SubSeq(list, 1, i - 1) \o SubSeq(list, i + 1, Len(list))
      /\ UNCHANGED <<source, load, body>>
  BY Zenon DEF RemoveKey
<1>3. load \in LoadRecord /\ load.offset \in Nat /\ PerPage \in Nat
  BY PageSize DEF Inv, Types, LoadRecord
<1>4. /\ DOMAIN list' = 1..(Len(list) - 1)
      /\ \A n \in 1..(Len(list) - 1) : list'[n] = IF n < i THEN list[n] ELSE list[n + 1]
  <2> DEFINE before == SubSeq(list, 1, i - 1)
             after  == SubSeq(list, i + 1, Len(list))
  <2>1. /\ before \in Seq(Keys) /\ Len(before) = i - 1 /\ after \in Seq(Keys) /\ Len(after) = Len(list) - i
        /\ \A n \in 1..(i - 1) : before[n] = list[n]
        /\ \A n \in 1..(Len(list) - i) : after[n] = list[i + n]
    <3>1. /\ i - 1 \in Nat /\ i \in Nat /\ Len(list) \in Nat
          /\ i - 1 <= Len(list) /\ i <= Len(list) /\ Len(list) <= Len(list)
      BY <1>1
    <3>2. /\ after \in Seq(Keys) /\ Len(after) = Len(list) - i
          /\ \A n \in 1..(Len(list) - i) : after[n] = list[i + n]
      BY <1>1, <3>1, PartAt, Zenon
    <3>3. /\ before \in Seq(Keys) /\ Len(before) = i - 1
          /\ \A n \in 1..(i - 1) : before[n] = list[n]
      BY <1>1, <3>1, FirstAt, Zenon
    <3> QED
      BY <3>2, <3>3, Zenon
  <2>2. list' = before \o after
    BY <1>2, Zenon
  <2> HIDE DEF before, after
  <2>3. /\ DOMAIN list' = 1..(Len(list) - 1)
        /\ \A n \in 1..(Len(list) - 1) : list'[n] = IF n < i THEN before[n] ELSE after[n - (i - 1)]
    <3>0. (i - 1) + (Len(list) - i) = Len(list) - 1
      BY <1>1
    <3>1. DOMAIN list' = 1..((i - 1) + (Len(list) - i))
      BY <2>1, <2>2, ConcatAt, Zenon
    <3>2. \A n \in 1..(Len(before) + Len(after)) :
            (before \o after)[n] = IF n <= Len(before) THEN before[n] ELSE after[n - Len(before)]
      BY <2>1, ConcatAt, Zenon
    <3>3. \A n \in 1..(Len(list) - 1) : n <= i - 1 <=> n < i
      BY <1>1
    <3> QED
      BY <2>1, <2>2, <3>0, <3>1, <3>2, <3>3, Zenon
  <2>4. ASSUME NEW n \in 1..(Len(list) - 1), ~(n < i)
        PROVE  n - (i - 1) \in 1..(Len(list) - i) /\ i + (n - (i - 1)) = n + 1
    BY <1>1, <2>4
  <2>5. ASSUME NEW n \in 1..(Len(list) - 1)
        PROVE  list'[n] = IF n < i THEN list[n] ELSE list[n + 1]
    <3>1. CASE n < i
      <4>1. n \in 1..(i - 1)
        BY <1>1, <3>1
      <4> QED
        BY <2>1, <2>3, <3>1, <4>1, Zenon
    <3>2. CASE ~(n < i)
      <4>1. n - (i - 1) \in 1..(Len(list) - i) /\ i + (n - (i - 1)) = n + 1
        BY <2>4, <3>2
      <4> QED
        BY <2>1, <2>3, <3>2, <4>1, Zenon
    <3> QED
      BY <3>1, <3>2
  <2> QED
    BY <2>3, <2>5
<1>5. \A n : ToRead(n)' <=> ToRead(n)
  BY <1>2 DEF ToRead
<1>6. \A a, b \in Nat : ToRead(a) /\ a <= b => ToRead(b)
  BY <1>3 DEF ToRead
<1>7. ASSUME NEW n \in Places, list[n] \notin Remaining'
      PROVE  n = i \/ (n > i /\ ~ ToRead(n - 1))
  <2>1. n \in 1..Len(list) /\ ToRead(n)
    BY <1>1, <1>7, SMTT(30) DEF Places
  <2>2. CASE n < i
    <3>1. n \in DOMAIN list' /\ list'[n] = list[n]
      BY <1>1, <1>4, <2>1, <2>2, SMTT(30)
    <3> QED
      BY <1>5, <1>7, <2>1, <3>1 DEF Remaining, Places
  <2>3. CASE n > i /\ ToRead(n - 1)
    <3>1. n - 1 \in DOMAIN list' /\ list'[n - 1] = list[n]
      BY <1>1, <1>4, <2>1, <2>3
    <3> QED
      BY <1>5, <1>7, <2>3, <3>1 DEF Remaining, Places
  <2> QED
    BY <1>1, <2>1, <2>2, <2>3
<1>8. /\ j = i \/ (j > i /\ ~ ToRead(j - 1))
      /\ m = i \/ (m > i /\ ~ ToRead(m - 1))
      /\ ToRead(j) /\ ToRead(m)
  BY <1>7 DEF Places
<1>9. ~ (j < m) /\ ~ (m < j)
  <2>1. j < m => ToRead(m - 1)
    BY <1>1, <1>6, <1>8
  <2>2. m < j => ToRead(j - 1)
    BY <1>1, <1>6, <1>8
  <2> QED
    BY <1>1, <1>8, <2>1, <2>2
<1> QED
  BY <1>1, <1>9

LEMMA GapFilled ==
  ASSUME Inv, NEW i \in DOMAIN list, RemoveKey(i), source.kind = "lido",
         NEW j \in Places, NEW m \in Places,
         list[j] \notin Remaining', list[m] \notin Remaining'
  PROVE  j = m
<1>1. /\ list \in Seq(Keys) /\ i \in 1..Len(list) /\ j \in 1..Len(list) /\ m \in 1..Len(list)
      /\ ToRead(j) /\ ToRead(m) /\ Len(list) \in Nat
  BY DEF Inv, Types, Places
<1>2. /\ list' = SubSeq([list EXCEPT ![i] = list[Len(list)]], 1, Len(list) - 1)
      /\ UNCHANGED <<source, load, body>>
  BY DEF RemoveKey
<1> DEFINE filled == [list EXCEPT ![i] = list[Len(list)]]
<1>3. /\ filled \in Seq(Keys) /\ Len(filled) = Len(list)
      /\ \A n \in 1..Len(list) : filled[n] = IF n = i THEN list[Len(list)] ELSE list[n]
  BY <1>1
<1>4. DOMAIN list' = 1..(Len(list) - 1) /\ \A n \in 1..(Len(list) - 1) : list'[n] = filled[n]
  <2>1. list' = SubSeq(filled, 1, Len(list) - 1)
    BY <1>2
  <2> HIDE DEF filled
  <2> QED
    BY <1>1, <1>3, <2>1
<1>5. \A n \in 1..(Len(list) - 1) : list'[n] = IF n = i THEN list[Len(list)] ELSE list[n]
  BY <1>1, <1>3, <1>4
<1> HIDE DEF filled
<1>6. \A n : ToRead(n)' <=> ToRead(n)
  BY <1>2, SMTT(30) DEF ToRead
<1>7. \A n \in 1..(Len(list) - 1) : ToRead(n) => list'[n] \in Remaining'
  BY <1>4, <1>6, Zenon DEF Remaining, Places
<1>8. ASSUME NEW n \in Places, list[n] \notin Remaining' PROVE n = i \/ n = Len(list)
  <2>1. n \in 1..Len(list) /\ ToRead(n)
    BY <1>1, <1>8 DEF Places
  <2> QED
    BY <1>1, <1>5, <1>7, <1>8, <2>1
<1>9. i # Len(list) /\ ToRead(i) => list[Len(list)] \in Remaining'
  BY <1>1, <1>5, <1>7
<1> QED
  BY <1>1, <1>8, <1>9

LEMMA RemoveKeyMissed ==
  ASSUME Inv, MissedInv, NEW i \in DOMAIN list, RemoveKey(i)
  PROVE  MissedInv'
<1>1. /\ Types /\ removals \in Nat /\ Active /\ Cardinality(Missed) <= removals
      /\ \A q \in KeysRead : \E v \in versions : q \in Range(v)
  BY DEF Inv, Types, RemoveKey, MissedInv, Active
<1>2. /\ versions' = versions \cup {list'} /\ removals' = removals + 1
      /\ UNCHANGED <<source, load, body>>
  BY DEF RemoveKey
<1>3. KeysRead' = KeysRead /\ There' \subseteq There
  BY <1>2 DEF KeysRead, There
<1>4. ASSUME NEW k \in Missed' \ Missed PROVE k \notin Remaining' /\ \E j \in Places : k = list[j]
  BY <1>3, <1>4 DEF Missed, Remaining
<1>5. \A k, q \in Missed' \ Missed : k = q
  BY <1>4, GapClosed, GapFilled
<1>6. Cardinality(Missed') <= removals'
  BY <1>1, <1>2, <1>5, OneFurther
<1> QED
  BY <1>1, <1>2, <1>3, <1>6, SMTT(30) DEF MissedInv

LEMMA MissedNext == Inv /\ Inv' /\ MissedInv /\ [Next]_vars => MissedInv'
<1> SUFFICES ASSUME Inv, Inv', MissedInv, [Next]_vars PROVE MissedInv'
  OBVIOUS
<1>1. ASSUME NEW src \in [kind : Kinds, chain : Chains, rpc : BOOLEAN], Begin(src) PROVE MissedInv'
  BY <1>1, BeginMissed
<1>2. CASE ReadTotal
  BY <1>2, ReadTotalMissed
<1>3. CASE FetchBatch
  BY <1>3, FetchBatchMissed
<1>4. CASE SendRequest
  BY <1>4, SendRequestMissed
<1>5. ASSUME NEW n \in 1..MaxLen, ReadChunk(n) PROVE MissedInv'
  <2>1. n \in Nat
    BY <1>5, MuxLoaderAssumption
  <2> QED
    BY <1>5, <2>1, ReadChunkMissed
<1>6. CASE EndBody
  BY <1>6, EndBodyMissed
<1>7. CASE LoseRequest
  BY <1>7, FailMissed DEF LoseRequest, Inv, Types
<1>8. ASSUME NEW k \in Keys, AddKey(k) PROVE MissedInv'
  BY <1>8, AddKeyMissed
<1>9. ASSUME NEW i \in DOMAIN list, RemoveKey(i) PROVE MissedInv'
  BY <1>9, RemoveKeyMissed
<1>10. CASE UNCHANGED vars
  BY <1>10, Zenon DEF vars, edited, MissedInv, Missed, There, KeysRead, Remaining, Places, ToRead
<1> QED
  BY <1>1, <1>2, <1>3, <1>4, <1>5, <1>6, <1>7, <1>8, <1>9, <1>10, Zenon DEF Next, Step

-----------------------------------------------------------------------------
(***************************************************************************)
(* remove_duplicate_keys keeps the first of equal keys: the n-th key of    *)
(* its result stands at the n-th of the places where a key comes first.    *)
(***************************************************************************)
Less == {p \in Nat \X Nat : p[1] < p[2]}

\* Every set of naturals has a least element.
LEMMA LeastElement ==
  ASSUME NEW T \in SUBSET Nat, T # {}
  PROVE  \E x \in T : \A y \in T : x <= y
<1>1. IsWellFoundedOn(Less, Nat)
  BY NatLessThanWellFounded DEF OpToRel, Less
<1>2. PICK x \in T : \A y \in T : ~ (<<y, x>> \in Less)
  BY <1>1, WFMin, Zenon
<1>3. \A y \in T : <<y, x>> \in Less <=> y < x
  BY DEF Less
<1>4. \A y \in T : ~ (y < x)
  BY <1>2, <1>3, Zenon
<1> QED
  BY <1>4

Upto(S, i) == {j \in S : j <= i}

\* The greater of two elements has the higher rank.
LEMMA RankGrows ==
  ASSUME NEW S \in SUBSET Nat, IsFiniteSet(S), NEW i \in S, NEW k \in S, i < k
  PROVE  Cardinality(Upto(S, i)) # Cardinality(Upto(S, k))
<1>1. \A j \in S : j <= i => j <= k
  OBVIOUS
<1>2. ~(k <= i) /\ k <= k
  OBVIOUS
<1>3. Upto(S, i) \in SUBSET Upto(S, k) /\ k \in Upto(S, k) /\ k \notin Upto(S, i)
  BY <1>1, <1>2, Zenon DEF Upto
<1>4. Upto(S, k) \in SUBSET S
  BY DEF Upto
<1> QED
  BY <1>3, <1>4, FS_Subset, Zenon

LEMMA RankBounds ==
  ASSUME NEW S \in SUBSET Nat, IsFiniteSet(S), NEW i \in S
  PROVE  Cardinality(Upto(S, i)) \in 1..Cardinality(S)
<1>1. Upto(S, i) \in SUBSET S /\ i \in Upto(S, i)
  BY DEF Upto
<1>2. /\ IsFiniteSet(Upto(S, i)) /\ Cardinality(Upto(S, i)) <= Cardinality(S)
      /\ Cardinality(Upto(S, i)) \in Nat /\ Cardinality(S) \in Nat
  BY <1>1, FS_Subset, FS_CardinalityType, Zenon
<1>3. Cardinality(Upto(S, i)) # 0
  BY <1>1, <1>2, FS_EmptySet, Zenon
<1> QED
  BY <1>2, <1>3

\* Hence every rank up to the number of elements is that of one of them.
LEMMA EveryRank ==
  ASSUME NEW S \in SUBSET Nat, IsFiniteSet(S), NEW n \in 1..Cardinality(S)
  PROVE  Nth(S, n) \in S /\ Cardinality(Upto(S, Nth(S, n))) = n
<1> DEFINE rank == [i \in S |-> Cardinality(Upto(S, i))]
           N == Cardinality(S)
<1>1. N \in Nat
  BY FS_CardinalityType
<1>2. \A i, k \in S : Cardinality(Upto(S, i)) = Cardinality(Upto(S, k)) => i = k
  BY RankGrows
<1>3. \A i \in S : Cardinality(Upto(S, i)) \in 1..N
  BY RankBounds
<1>4. rank \in Injection(S, 1..N)
  BY <1>2, <1>3, Zenon DEF Injection, IsInjective
<1>5. IsFiniteSet(1..N) /\ Cardinality(1..N) = N
  <2> HIDE DEF N
  <2> QED
    BY <1>1, FS_Interval
<1>6. rank \in Surjection(S, 1..N)
  BY <1>4, <1>5, FS_Injection, Zenon
<1>7. \E i \in S : rank[i] = n
  BY <1>6, Zenon DEF Surjection
<1>8. \E i \in S : Cardinality(Upto(S, i)) = n
  BY <1>7, Zenon
<1> QED
  BY <1>8, Zenon DEF Nth, Upto

LEMMA EachKeyOnce ==
  ASSUME NEW keys \in Seq(Keys)
  PROVE  /\ IsInjective(RemoveDuplicateKeys(keys))
         /\ Range(RemoveDuplicateKeys(keys)) = Range(keys)
<1> DEFINE S == FirstIndices(keys)
           nth(n) == Nth(S, n)
           once == RemoveDuplicateKeys(keys)
<1>1. /\ S \in SUBSET (1..Len(keys)) /\ Len(keys) \in Nat /\ S \in SUBSET Nat
      /\ DOMAIN keys = 1..Len(keys)
  BY DEF FirstIndices
<1>2. IsFiniteSet(S) /\ Cardinality(S) \in Nat
  <2>1. IsFiniteSet(1..Len(keys))
    BY <1>1, FS_Interval
  <2> HIDE DEF S
  <2> QED
    BY <1>1, <2>1, FS_Subset, FS_CardinalityType, Zenon
<1>3. \A i, k \in S : keys[i] = keys[k] => i = k
  <2>1. ASSUME NEW i \in S, NEW k \in S, i < k PROVE keys[i] # keys[k]
    <3>1. i \in 1..(k - 1)
      BY <1>1, <2>1
    <3> QED
      BY <3>1 DEF FirstIndices
  <2> HIDE DEF S
  <2> QED
    BY <1>1, <2>1
<1>4. once = [n \in 1..Cardinality(S) |-> keys[nth(n)]]
  BY Zenon DEF RemoveDuplicateKeys
<1> HIDE DEF S, once
<1>5. \A n \in 1..Cardinality(S) : nth(n) \in S /\ Cardinality(Upto(S, nth(n))) = n
  BY <1>1, <1>2, EveryRank, Zenon
<1> HIDE DEF nth
<1>6. IsInjective(once)
  <2>1. ASSUME NEW a \in 1..Cardinality(S), NEW b \in 1..Cardinality(S), once[a] = once[b] PROVE a = b
    <3>1. keys[nth(a)] = keys[nth(b)]
      BY <1>4, <2>1, Zenon
    <3> QED
      BY <1>3, <1>5, <3>1, Zenon
  <2>2. DOMAIN once = 1..Cardinality(S)
    BY <1>4, Zenon
  <2> QED
    BY <2>1, <2>2, Zenon DEF IsInjective
<1>7. Range(once) \subseteq Range(keys)
  <2>1. ASSUME NEW n \in 1..Cardinality(S) PROVE once[n] \in Range(keys)
    BY <1>1, <1>4, <1>5, Zenon DEF Range
  <2> QED
    BY <1>4, <2>1, Zenon DEF Range
<1>8. ASSUME NEW i \in S PROVE keys[i] \in Range(once)
  <2>1. PICK n \in 1..Cardinality(S) : n = Cardinality(Upto(S, i))
    BY <1>1, <1>2, <1>8, RankBounds, Zenon
  <2>2. nth(n) \in S /\ Cardinality(Upto(S, nth(n))) = Cardinality(Upto(S, i))
    BY <1>5, <2>1
  <2>3. i \in Nat /\ nth(n) \in Nat
    BY <1>1, <1>8, <2>2, Zenon
  <2>4. nth(n) = i
    BY <1>1, <1>2, <1>8, <2>2, <2>3, RankGrows
  <2> QED
    BY <1>4, <2>4, Zenon DEF Range
<1>9. ASSUME NEW j \in 1..Len(keys) PROVE keys[j] \in Range(once)
  <2> DEFINE same == {i \in 1..Len(keys) : keys[i] = keys[j]}
  <2>1. same \in SUBSET Nat /\ j \in same
    BY <1>1
  <2>2. PICK i \in same : \A k \in same : i <= k
    BY <2>1, LeastElement, Zenon
  <2>3. ASSUME NEW k \in 1..(i - 1) PROVE keys[k] # keys[i]
    BY <1>1, <2>2
  <2>4. i \in S /\ keys[i] = keys[j]
    BY <1>1, <2>2, <2>3 DEF S, FirstIndices
  <2> QED
    BY <1>8, <2>4
<1> QED
  BY <1>1, <1>6, <1>7, <1>9 DEF Range, once

(***************************************************************************)
(* However many keys are added and removed between the requests of one     *)
(* MuxKeysLoader::load: it misses at most as many of the keys that were at *)
(* the source all the time as were removed, and what it returns has each   *)
(* key once, and none that was never at the source.                        *)
(***************************************************************************)
THEOREM MissesAtMostRemovals == Spec => []MissedAtMostRemovals
<1>1. Init => MissedInv
  BY DEF Init, Fresh, MissedInv
<1>2. Inv /\ MissedInv => MissedAtMostRemovals
  <2> SUFFICES ASSUME Inv, MissedInv, Accepted
               PROVE  /\ IsInjective(Deduped)
                      /\ Cardinality({k \in Keys : \A v \in versions : k \in Range(v)} \ Range(Deduped)) <= removals
                      /\ Range(Deduped) \subseteq UNION {Range(v) : v \in versions}
    BY Zenon DEF MissedAtMostRemovals
  <2>1. load.state = "done" /\ load.keys \in Seq(Keys)
    BY DEF Inv, Types, LoadRecord, Accepted
  <2>2. IsInjective(Deduped) /\ Range(Deduped) = Range(load.keys)
    BY <2>1, EachKeyOnce, Zenon DEF Deduped
  <2>3. KeysRead = Range(load.keys) /\ Remaining = {}
    BY <2>1 DEF KeysRead, Remaining, Places, ToRead
  <2>4. Missed = {k \in Keys : \A v \in versions : k \in Range(v)} \ Range(Deduped)
    BY <2>2, <2>3 DEF Missed, There
  <2>5. Cardinality(Missed) <= removals /\ \A k \in KeysRead : \E v \in versions : k \in Range(v)
    BY <2>1 DEF MissedInv
  <2> QED
    BY <2>2, <2>3, <2>4, <2>5
<1> QED
  BY <1>1, <1>2, MissedNext, InitInv, NextInv, PTL DEF Spec
=============================================================================
