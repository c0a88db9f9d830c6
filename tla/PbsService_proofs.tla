-------------------------- MODULE PbsService_proofs --------------------------
(***************************************************************************)
(* Proofs about the PBS service: PbsState and PbsConfig, for any           *)
(* configuration files, loader answers, validators and concurrent reloads, *)
(* and RegisterValidator, for any relays, batch sizes, numbers of          *)
(* registrations, timeout, back-off and retry limit.                       *)
(***************************************************************************)
EXTENDS PbsState, RegisterValidator, FiniteSetTheorems, TLAPS

(***************************************************************************)
(* Greatest elements, by minimal counterexample: the order of the natural  *)
(* numbers is well-founded.                                                *)
(***************************************************************************)
Less == {p \in Nat \X Nat : p[1] < p[2]}

\* Every set of naturals has a least element.
LEMMA LeastElement ==
  ASSUME NEW T \in SUBSET Nat, T # {}
  PROVE  \E x \in T : \A y \in T : x <= y
<1>1. IsWellFoundedOn(Less, Nat)
  BY NatLessThanWellFounded DEF OpToRel, Less
<1>2. PICK x \in T : \A y \in T : ~ (<<y, x>> \in Less)
  BY <1>1, WFMin, Zenon
<1>3. \A y \in T : <<y, x>> \in Less <=> y < x
  BY DEF Less
<1>4. \A y \in T : ~ (y < x)
  BY <1>2, <1>3, Zenon
<1> QED
  BY <1>4

\* Every set of indices up to n has a greatest one.
LEMMA GreatestIndex ==
  ASSUME NEW n \in Nat, NEW S \in SUBSET (1..n), S # {}
  PROVE  \E i \in S : \A j \in S : j <= i
<1> DEFINE T == {k \in Nat : n - k \in S}
<1>1. \A i \in S : n - i \in Nat /\ n - (n - i) = i
  OBVIOUS
<1>2. T \in SUBSET Nat /\ T # {}
  BY <1>1, Zenon
<1>3. PICK k \in T : \A y \in T : k <= y
  BY <1>2, LeastElement, Zenon
<1>4. \A j \in S : k <= n - j
  BY <1>1, <1>3, Zenon
<1>5. n - k \in S /\ k \in Nat
  BY <1>3
<1> QED
  BY <1>4, <1>5

-----------------------------------------------------------------------------
(***************************************************************************)
(* The inductive invariant.  A version is a content of the file and the    *)
(* number of edits that led to it.  Those that can still become the        *)
(* running one are in the file, in a reload that waits for its loaders, or *)
(* running already; a version that is none of these never comes back.      *)
(***************************************************************************)
Pending(rs) == {[file |-> rs[p].file, edit |-> rs[p].edit] : p \in {q \in Reloads : rs[q].pc = "loading"}}

Versions == {[file |-> file, edit |-> edits], source} \cup Pending(reloads)

\* The number of edits tells the content.
VersionsAgree(vs, last) ==
  /\ \A x \in vs : x.file \in Files /\ x.edit \in 0..last
  /\ \A x, y \in vs : x.edit = y.edit => x.file = y.file

(***************************************************************************)
(* What a call may still need of a version: a relay that its header comes  *)
(* from is in the list of the version that the call began with.            *)
(***************************************************************************)
CallOk(c, vs, last) ==
  /\ c.pc # "idle" => c.edit \in 0..last
  /\ c.pc = "asking" => \A x \in vs : x.edit = c.edit => c.relays \subseteq AllUrls(x.file)
  /\ c.pc = "header" => \A x \in vs : x.edit = c.edit => c.url \in AllUrls(x.file)
  /\ c.pc = "submitted" /\ c.sameFile => c.url \in c.asked

StateInv ==
  /\ source \in [file : Files, edit : 0..MaxEdits]
  /\ \E a \in LoaderAnswers : Loads(source.file, a) /\ state = Runtime(source.file, a)

Inv ==
  /\ TypeOK /\ StateInv
  /\ VersionsAgree(Versions, edits)
  /\ \A v \in Validators : CallOk(calls[v], Versions, edits)
-----------------------------------------------------------------------------
(***************************************************************************)
(* The list of all relays: one relay for every URL of the file.            *)
(***************************************************************************)
LEMMA RelayAtUrl ==
  ASSUME NEW f \in Files, NEW u \in Urls(f.relays) \cup {r.url : r \in MuxRelays(f)}
  PROVE  RelayAt(f, u).url = u
<1> DEFINE own == {i \in DOMAIN f.relays : f.relays[i].url = u}
<1>1. DOMAIN f.relays = 1..Len(f.relays) /\ Len(f.relays) \in Nat
  BY PbsAssumption
<1>2. CASE own # {}
  <2>1. \E i \in own : \A j \in own : j <= i
    BY <1>1, <1>2, GreatestIndex, Zenon
  <2>2. RelayAt(f, u) = f.relays[CHOOSE i \in own : \A j \in own : j <= i]
    BY <1>2 DEF RelayAt
  <2> QED
    BY <2>1, <2>2, Zenon
<1>3. CASE own = {}
  <2>1. u \notin Urls(f.relays)
    BY <1>3 DEF Urls
  <2>2. \E r \in MuxRelays(f) : r.url = u
    BY <2>1
  <2>3. RelayAt(f, u) = CHOOSE r \in MuxRelays(f) : r.url = u
    BY <1>3, Zenon DEF RelayAt
  <2> QED
    BY <2>2, <2>3
<1> QED
  BY <1>2, <1>3, Zenon

LEMMA OneRelayPerUrl ==
  ASSUME NEW f \in Files
  PROVE  /\ \A r, q \in AllRelays(f) : r.url = q.url => r = q
         /\ Urls(f.relays) \subseteq AllUrls(f)
         /\ \A i \in DOMAIN f.muxes : Urls(f.muxes[i].relays) \subseteq AllUrls(f)
<1> DEFINE urls == Urls(f.relays) \cup {r.url : r \in MuxRelays(f)}
<1>1. AllRelays(f) = {RelayAt(f, u) : u \in urls}
  BY DEF AllRelays
<1>2. \A u \in urls : RelayAt(f, u).url = u
  BY RelayAtUrl
<1>3. \A i \in DOMAIN f.muxes : Urls(f.muxes[i].relays) \subseteq urls
  BY DEF Urls, MuxRelays, Range
<1>4. Urls(f.relays) \subseteq urls
  OBVIOUS
<1> HIDE DEF urls
<1>5. urls \subseteq AllUrls(f)
  BY <1>1, <1>2 DEF AllUrls
<1> QED
  BY <1>1, <1>2, <1>3, <1>4, <1>5

(***************************************************************************)
(* A loaded file: a validator is in at most one mux, and is served by that *)
(* one, or by the defaults.                                                *)
(***************************************************************************)
LEMMA MuxOfKey ==
  ASSUME NEW f \in Files, NEW a, Loads(f, a), NEW i \in DOMAIN f.muxes,
         NEW v \in MuxKeys(f, a, i)
  PROVE  /\ v \in Keyed(f, a) /\ MuxOf(f, a, v) = i
         /\ MuxConfigAndRelays(Runtime(f, a), v)
              = [config |-> MuxConfigOf(f, i), relays |-> f.muxes[i].relays]
<1> DEFINE with == {j \in DOMAIN f.muxes : v \in MuxKeys(f, a, j)}
<1>1. i \in Nat
  BY PbsAssumption
<1>2. with = {i}
  BY Zenon DEF Loads, MuxesOk, DisjointKeys
<1>3. MuxOf(f, a, v) = CHOOSE j \in with : \A k \in with : k <= j
  BY Zenon DEF MuxOf
<1>4. MuxOf(f, a, v) = i
  BY <1>1, <1>2, <1>3
<1>5. v \in Keyed(f, a)
  BY DEF Keyed
<1> QED
  BY <1>4, <1>5, Zenon DEF MuxConfigAndRelays, Runtime

LEMMA RuntimeSound ==
  ASSUME NEW f \in Files, NEW a, Loads(f, a), NEW v
  PROVE  LET mux == MuxConfigAndRelays(Runtime(f, a), v)
         IN  /\ mux.relays # <<>>
             /\ 0 < mux.config.timeout /\ mux.config.timeout < mux.config.late
             /\ Urls(mux.relays) \subseteq AllUrls(f)
<1>1. CASE v \in Keyed(f, a)
  <2>1. PICK i \in DOMAIN f.muxes : v \in MuxKeys(f, a, i)
    BY <1>1 DEF Keyed
  <2>2. MuxConfigAndRelays(Runtime(f, a), v)
          = [config |-> MuxConfigOf(f, i), relays |-> f.muxes[i].relays]
    BY <2>1, MuxOfKey
  <2>3. f.muxes[i].relays # <<>> /\ TimeoutsOk(MuxConfigOf(f, i).timeout, MuxConfigOf(f, i).late)
    BY DEF Loads, MuxesOk
  <2> QED
    BY <2>2, <2>3, OneRelayPerUrl DEF TimeoutsOk
<1>2. CASE v \notin Keyed(f, a)
  <2>1. MuxConfigAndRelays(Runtime(f, a), v)
          = [config |-> [timeout |-> f.timeout, late |-> f.late], relays |-> f.relays]
    BY <1>2 DEF MuxConfigAndRelays, Runtime
  <2> QED
    BY <2>1, OneRelayPerUrl DEF Loads, TimeoutsOk
<1> QED
  BY <1>1, <1>2, Zenon
-----------------------------------------------------------------------------
\* Versions that go away, and a new one, which no call began with.
LEMMA FewerVersions ==
  ASSUME NEW vs, NEW ws \in SUBSET vs, NEW last, VersionsAgree(vs, last)
  PROVE  VersionsAgree(ws, last) /\ \A c : CallOk(c, vs, last) => CallOk(c, ws, last)
  BY Zenon DEF VersionsAgree, CallOk

LEMMA NewVersion ==
  ASSUME NEW vs, NEW last \in Nat, VersionsAgree(vs, last), NEW f \in Files,
         NEW ws \in SUBSET (vs \cup {[file |-> f, edit |-> last + 1]})
  PROVE  /\ VersionsAgree(ws, last + 1)
         /\ \A c : CallOk(c, vs, last) => CallOk(c, ws, last + 1)
<1> DEFINE new == [file |-> f, edit |-> last + 1]
<1>1. new.file = f /\ new.edit = last + 1
  OBVIOUS
<1>2. \A n \in 0..last : n \in 0..(last + 1) /\ n # last + 1
  OBVIOUS
<1>3. last + 1 \in 0..(last + 1)
  OBVIOUS
<1> HIDE DEF new
<1>4. \A x \in ws : x \in vs \/ x = new
  BY Zenon DEF new
<1>5. \A x \in vs : x.edit # last + 1 /\ x.file \in Files /\ x.edit \in 0..(last + 1)
  BY <1>2, Zenon DEF VersionsAgree
<1>6. VersionsAgree(ws, last + 1)
  BY <1>1, <1>3, <1>4, <1>5, Zenon DEF VersionsAgree
<1>7. ASSUME NEW c, CallOk(c, vs, last) PROVE CallOk(c, ws, last + 1)
  BY <1>1, <1>2, <1>4, <1>7, Zenon DEF CallOk
<1> QED
  BY <1>6, <1>7

LEMMA InitInv == Init => Inv
<1> SUFFICES ASSUME Init PROVE Inv
  OBVIOUS
<1>1. /\ file \in Files /\ edits = 0 /\ source = [file |-> file, edit |-> 0]
      /\ reloads = [p \in Reloads |-> NoReload] /\ calls = [v \in Validators |-> NoCall]
  BY DEF Init
<1>2. 0 \in 0..MaxEdits /\ 0 \in 0..0
  BY PbsAssumption
<1>3. NoReload \in [pc : {"idle", "loading"}, file : Files, edit : 0..MaxEdits]
      /\ NoReload.pc = "idle"
  <2>1. (CHOOSE f \in Files : TRUE) \in Files
    BY <1>1
  <2> QED
    BY <1>2, <2>1 DEF NoReload
<1>4. source.file = file /\ source.edit = 0
  BY <1>1
<1>5. TypeOK
  BY <1>1, <1>2, <1>3, <1>4 DEF TypeOK, NoCall
<1>6. StateInv
  BY <1>1, <1>2, <1>4 DEF StateInv, Init
<1>7. Versions = {source}
  BY <1>1, <1>3 DEF Versions, Pending
<1>8. VersionsAgree(Versions, edits)
  BY <1>1, <1>2, <1>4, <1>7 DEF VersionsAgree
<1>9. \A v \in Validators : calls[v].pc = "idle"
  BY <1>1 DEF NoCall
<1> QED
  BY <1>5, <1>6, <1>8, <1>9 DEF Inv, CallOk

\* An edit makes a version that nothing refers to yet.
LEMMA EditKeeps == ASSUME Inv, EditFile PROVE Inv'
<1>1. /\ edits < MaxEdits /\ file' \in Files /\ edits' = edits + 1
      /\ UNCHANGED <<state, source, reloads, calls>>
  BY DEF EditFile
<1>2. edits \in Nat /\ edits' \in 0..MaxEdits /\ 0..edits \subseteq 0..edits'
  BY <1>1, PbsAssumption DEF Inv, TypeOK
<1>3. TypeOK'
  BY <1>1, <1>2 DEF Inv, TypeOK
<1>4. StateInv'
  BY <1>1 DEF Inv, StateInv
<1>5. Versions' \in SUBSET (Versions \cup {[file |-> file', edit |-> edits + 1]})
  BY <1>1 DEF Versions
<1> QED
  BY <1>1, <1>2, <1>3, <1>4, <1>5, NewVersion, SMTT(30) DEF Inv

LEMMA BeginReloadKeeps == ASSUME Inv, NEW p \in Reloads, BeginReload(p) PROVE Inv'
<1> DEFINE new == [pc |-> "loading", file |-> file, edit |-> edits]
<1>1. /\ reloads' = [reloads EXCEPT ![p] = new]
      /\ UNCHANGED <<file, edits, state, source, calls>>
  BY DEF BeginReload
<1>2. new \in [pc : {"idle", "loading"}, file : Files, edit : 0..MaxEdits]
  BY DEF Inv, TypeOK
<1>3. [file |-> new.file, edit |-> new.edit] \in Versions
  BY DEF Versions
<1> HIDE DEF new
<1>4. /\ reloads' \in [Reloads -> [pc : {"idle", "loading"}, file : Files, edit : 0..MaxEdits]]
      /\ \A q \in Reloads : reloads'[q] = IF q = p THEN new ELSE reloads[q]
  BY <1>1, <1>2 DEF Inv, TypeOK
<1>5. TypeOK' /\ StateInv'
  BY <1>1, <1>4 DEF Inv, TypeOK, StateInv
<1>6. Pending(reloads') \subseteq Versions
  BY <1>3, <1>4, Zenon DEF Pending, Versions
<1>7. Versions' \in SUBSET Versions
  BY <1>1, <1>6, Zenon DEF Versions
<1> QED
  BY <1>1, <1>5, <1>7, FewerVersions DEF Inv

\* The version that a reload installs was pending until now.
LEMMA EndReloadKeeps ==
  ASSUME Inv, NEW p \in Reloads, NEW a \in Answers, EndReload(p, a)
  PROVE  Inv'
<1>1. /\ reloads[p].pc = "loading" /\ reloads' = [reloads EXCEPT ![p] = NoReload]
      /\ UNCHANGED <<file, edits, calls>>
  BY DEF EndReload
<1>2. NoReload \in [pc : {"idle", "loading"}, file : Files, edit : 0..MaxEdits]
      /\ NoReload.pc = "idle"
  <2>1. (CHOOSE f \in Files : TRUE) \in Files
    BY DEF Inv, TypeOK
  <2>2. 0 \in 0..MaxEdits
    BY PbsAssumption
  <2> QED
    BY <2>1, <2>2 DEF NoReload
<1>3. /\ reloads' \in [Reloads -> [pc : {"idle", "loading"}, file : Files, edit : 0..MaxEdits]]
      /\ \A q \in Reloads : reloads'[q] = IF q = p THEN NoReload ELSE reloads[q]
  BY <1>1, <1>2 DEF Inv, TypeOK
<1> DEFINE done == [file |-> reloads[p].file, edit |-> reloads[p].edit]
<1>4. done \in Versions
  BY <1>1, Zenon DEF Versions, Pending
<1>5. done \in [file : Files, edit : 0..MaxEdits] /\ done.file = reloads[p].file
  BY Zenon DEF Inv, TypeOK
<1>6. done.edit \in 0..edits
  BY <1>4, Zenon DEF Inv, VersionsAgree
<1> HIDE DEF done
<1>7. source' \in {source, done} /\ StateInv'
  <2>1. CASE a # LoaderFails /\ Loads(reloads[p].file, a)
    <3>1. source' = done /\ state' = Runtime(done.file, a) /\ Loads(done.file, a)
      BY <1>5, <2>1, Zenon DEF EndReload, done
    <3>2. a \in LoaderAnswers
      BY <2>1 DEF Answers
    <3> QED
      BY <1>5, <3>1, <3>2 DEF StateInv
  <2>2. CASE ~ (a # LoaderFails /\ Loads(reloads[p].file, a))
    BY <2>2, Zenon DEF EndReload, Inv, StateInv
  <2> QED
    BY <2>1, <2>2
<1>8. TypeOK'
  BY <1>1, <1>3, <1>5, <1>6, <1>7 DEF Inv, TypeOK
<1>9. Pending(reloads') \subseteq Pending(reloads)
  BY <1>2, <1>3 DEF Pending
<1>10. Versions' \in SUBSET Versions
  BY <1>1, <1>4, <1>7, <1>9, Zenon DEF Versions
<1> QED
  BY <1>1, <1>7, <1>8, <1>10, FewerVersions DEF Inv

-----------------------------------------------------------------------------
CallType ==
  [pc : {"idle", "asking", "header", "submitted"}, url : FileUrls \cup {"none"},
   edit : 0..MaxEdits, relays : SUBSET FileUrls, asked : SUBSET FileUrls,
   sameFile : BOOLEAN]

\* A step of one call changes nothing else.
LEMMA CallStep ==
  ASSUME Inv, NEW v \in Validators, NEW c \in CallType, CallOk(c, Versions, edits),
         calls' = [calls EXCEPT ![v] = c], UNCHANGED <<file, edits, state, source, reloads>>
  PROVE  Inv'
<1>1. /\ calls' \in [Validators -> CallType]
      /\ \A w \in Validators : calls'[w] = IF w = v THEN c ELSE calls[w]
  BY DEF Inv, TypeOK, CallType
<1>2. Versions' = Versions
  BY DEF Versions
<1>3. TypeOK' /\ StateInv'
  BY <1>1 DEF Inv, TypeOK, StateInv, CallType
<1> QED
  BY <1>1, <1>2, <1>3 DEF Inv

\* What the running version is: the relays of its state are those of its file.
LEMMA StateFound ==
  ASSUME Inv
  PROVE  /\ source.file \in Files /\ source.edit \in 0..edits /\ source.edit \in 0..MaxEdits
         /\ {r.url : r \in state.all} = AllUrls(source.file)
         /\ AllUrls(source.file) \subseteq FileUrls
         /\ \A v : Urls(MuxConfigAndRelays(state, v).relays) \subseteq AllUrls(source.file)
<1>1. source.file \in Files /\ source.edit \in 0..edits /\ source.edit \in 0..MaxEdits
  BY DEF Inv, TypeOK, StateInv
<1>2. PICK a \in LoaderAnswers : Loads(source.file, a) /\ state = Runtime(source.file, a)
  BY DEF Inv, StateInv
<1>3. state.all = AllRelays(source.file)
  BY <1>2 DEF Runtime
<1>4. \A v : Urls(MuxConfigAndRelays(state, v).relays) \subseteq AllUrls(source.file)
  BY <1>1, <1>2, RuntimeSound
<1>5. AllUrls(source.file) \subseteq FileUrls
  BY <1>1 DEF FileUrls
<1> QED
  BY <1>1, <1>3, <1>4, <1>5, Zenon DEF AllUrls

LEMMA NoCallOk == ASSUME Inv PROVE NoCall \in CallType /\ CallOk(NoCall, Versions, edits)
<1>1. 0 \in 0..MaxEdits
  BY PbsAssumption
<1>2. NoCall \in CallType
  BY <1>1 DEF NoCall, CallType
<1> QED
  BY <1>2 DEF CallOk, NoCall

\* The versions that agree with the running one in their number are the same.
LEMMA SameVersion ==
  ASSUME Inv, NEW x \in Versions, x.edit = source.edit
  PROVE  x.file = source.file
<1>1. source \in Versions
  BY DEF Versions
<1> QED
  BY <1>1 DEF Inv, VersionsAgree

LEMMA BeginGetHeaderKeeps == ASSUME Inv, NEW v \in Validators, BeginGetHeader(v) PROVE Inv'
<1> DEFINE relays == Urls(MuxConfigAndRelays(state, v).relays)
           c == [NoCall EXCEPT !.pc = "asking", !.relays = relays, !.edit = source.edit]
<1>1. relays \subseteq AllUrls(source.file) /\ relays \subseteq FileUrls
  BY StateFound
<1>2. calls' = [calls EXCEPT ![v] = c] /\ UNCHANGED <<file, edits, state, source, reloads>>
  BY DEF BeginGetHeader
<1> HIDE DEF relays
<1>3. NoCall \in CallType /\ source.edit \in 0..MaxEdits
  BY NoCallOk, StateFound
<1>4. c \in CallType /\ c.pc = "asking" /\ c.relays = relays /\ c.edit = source.edit
  BY <1>1, <1>3, Zenon DEF CallType
<1> HIDE DEF c
<1>5. CallOk(c, Versions, edits)
  <2>1. \A x \in Versions : x.edit = c.edit => x.file = source.file
    BY <1>4, SameVersion
  <2>2. c.edit \in 0..edits /\ c.relays \subseteq AllUrls(source.file)
    BY <1>1, <1>4, StateFound
  <2> QED
    BY <1>4, <2>1, <2>2, Zenon DEF CallOk
<1> QED
  BY <1>2, <1>4, <1>5, CallStep, Zenon

\* The header is from one of the relays that were asked.
LEMMA EndGetHeaderKeeps == ASSUME Inv, NEW v \in Validators, EndGetHeader(v) PROVE Inv'
<1>1. /\ calls[v].pc = "asking" /\ calls[v] \in CallType /\ calls \in [Validators -> CallType]
      /\ UNCHANGED <<file, edits, state, source, reloads>>
  BY DEF EndGetHeader, Inv, TypeOK, CallType
<1>2. ASSUME NEW u \in calls[v].relays,
             calls' = [calls EXCEPT ![v].pc = "header", ![v].url = u]
      PROVE  Inv'
  <2> DEFINE c == [calls[v] EXCEPT !.pc = "header", !.url = u]
  <2>1. calls' = [calls EXCEPT ![v] = c]
    BY <1>1, <1>2, Zenon
  <2>2. u \in FileUrls
    BY <1>1 DEF CallType
  <2>3. c \in CallType /\ c.pc = "header" /\ c.url = u /\ c.edit = calls[v].edit
    BY <1>1, <2>2, Zenon DEF CallType
  <2> HIDE DEF c
  <2>4. CallOk(calls[v], Versions, edits)
    BY DEF Inv
  <2>5. CallOk(c, Versions, edits)
    BY <1>1, <2>3, <2>4 DEF CallOk
  <2> QED
    BY <1>1, <2>1, <2>3, <2>5, CallStep, Zenon
<1>3. CASE calls' = [calls EXCEPT ![v] = NoCall]
  BY <1>1, <1>3, NoCallOk, CallStep, Zenon
<1> QED
  BY <1>2, <1>3 DEF EndGetHeader

\* The block goes to all relays of the running version.
LEMMA SubmitBlockKeeps == ASSUME Inv, NEW v \in Validators, SubmitBlock(v) PROVE Inv'
<1> DEFINE asked == {r.url : r \in state.all}
           same == (calls[v].edit = source.edit)
           c == [calls[v] EXCEPT !.pc = "submitted", !.asked = asked, !.sameFile = same]
<1>1. /\ calls[v].pc = "header" /\ calls[v] \in CallType /\ calls \in [Validators -> CallType]
      /\ UNCHANGED <<file, edits, state, source, reloads>>
  BY Zenon DEF SubmitBlock, Inv, TypeOK, CallType
<1>2. calls' = [calls EXCEPT ![v].pc = "submitted", ![v].asked = asked, ![v].sameFile = same]
  BY Zenon DEF SubmitBlock
<1>3. asked = AllUrls(source.file) /\ asked \subseteq FileUrls /\ same \in BOOLEAN
  BY StateFound
<1> HIDE DEF asked, same
<1>4. calls' = [calls EXCEPT ![v] = c]
  BY <1>1, <1>2, Zenon
<1>5. /\ c \in CallType /\ c.pc = "submitted" /\ c.asked = asked /\ c.sameFile = same
      /\ c.url = calls[v].url /\ c.edit = calls[v].edit
  BY <1>1, <1>3, Zenon DEF CallType
<1> HIDE DEF c
<1>6. same => calls[v].url \in asked
  <2>1. CallOk(calls[v], Versions, edits) /\ source \in Versions
    BY DEF Inv, Versions
  <2> QED
    BY <1>1, <1>3, <2>1 DEF CallOk, same
<1>7. CallOk(calls[v], Versions, edits)
  BY DEF Inv
<1>8. CallOk(c, Versions, edits)
  BY <1>1, <1>5, <1>6, <1>7 DEF CallOk
<1> QED
  BY <1>1, <1>4, <1>5, <1>8, CallStep, Zenon

LEMMA EndCallKeeps == ASSUME Inv, NEW v \in Validators, EndCall(v) PROVE Inv'
  BY NoCallOk, CallStep, Zenon DEF EndCall

LEMMA NextInv == Inv /\ [Next]_vars => Inv'
<1> SUFFICES ASSUME Inv, [Next]_vars PROVE Inv'
  OBVIOUS
<1>1. CASE UNCHANGED vars
  BY <1>1, Zenon DEF vars, Inv, TypeOK, StateInv, Versions
<1>2. CASE EditFile
  BY <1>2, EditKeeps
<1>3. ASSUME NEW p \in Reloads, BeginReload(p) PROVE Inv'
  BY <1>3, BeginReloadKeeps
<1>4. ASSUME NEW p \in Reloads, NEW a \in Answers, EndReload(p, a) PROVE Inv'
  BY <1>4, EndReloadKeeps
<1>5. ASSUME NEW v \in Validators, BeginGetHeader(v) PROVE Inv'
  BY <1>5, BeginGetHeaderKeeps
<1>6. ASSUME NEW v \in Validators, EndGetHeader(v) PROVE Inv'
  BY <1>6, EndGetHeaderKeeps
<1>7. ASSUME NEW v \in Validators, SubmitBlock(v) PROVE Inv'
  BY <1>7, SubmitBlockKeeps
<1>8. ASSUME NEW v \in Validators, EndCall(v) PROVE Inv'
  BY <1>8, EndCallKeeps
<1> QED
  BY <1>1, <1>2, <1>3, <1>4, <1>5, <1>6, <1>7, <1>8 DEF Next

LEMMA Invariance == Spec => []Inv
  BY InitInv, NextInv, PTL DEF Spec

-----------------------------------------------------------------------------
(***************************************************************************)
(* File, state, reloads and calls keep their types.                        *)
(***************************************************************************)
THEOREM TypeCorrect == Spec => []TypeOK
<1>1. Inv => TypeOK
  BY DEF Inv
<1> QED
  BY <1>1, Invariance, PTL

(***************************************************************************)
(* The configuration requests run on is sound whatever was written to the  *)
(* file and whatever the loaders answered: load_pbs_config and             *)
(* validate_and_fill refuse everything else before the state is replaced.  *)
(***************************************************************************)
THEOREM ConfigSound == Spec => []RunningConfigSound
<1>1. Inv => RunningConfigSound
  <2> SUFFICES ASSUME Inv PROVE RunningConfigSound
    OBVIOUS
  <2>1. PICK a \in LoaderAnswers : Loads(source.file, a) /\ state = Runtime(source.file, a)
    BY DEF Inv, StateInv
  <2>2. source.file \in Files /\ {r.url : r \in state.all} = AllUrls(source.file)
    BY StateFound
  <2>3. state.all = AllRelays(source.file)
    BY <2>1 DEF Runtime
  <2>4. \A r, q \in state.all : r.url = q.url => r = q
    BY <2>2, <2>3, OneRelayPerUrl
  <2>5. ASSUME NEW v \in Validators
        PROVE  LET mux == MuxConfigAndRelays(state, v)
               IN  /\ mux.relays # <<>>
                   /\ 0 < mux.config.timeout /\ mux.config.timeout < mux.config.late
                   /\ Urls(mux.relays) \subseteq {r.url : r \in state.all}
    BY <2>1, <2>2, RuntimeSound, Zenon
  <2> QED
    BY <2>4, <2>5, SMTT(30) DEF RunningConfigSound
<1> QED
  BY <1>1, Invariance, PTL

(***************************************************************************)
(* A validator that the running file lists under a mux is served with that *)
(* mux's relays, whatever the loaders of other muxes answer: the check for *)
(* disjoint keys comes after the loaders.                                  *)
(***************************************************************************)
THEOREM MuxesSeparate == Spec => []MuxSeparation
<1>1. Inv => MuxSeparation
  <2> SUFFICES ASSUME Inv, NEW i \in DOMAIN source.file.muxes,
                      NEW v \in Range(source.file.muxes[i].keys)
               PROVE  MuxConfigAndRelays(state, v).relays = source.file.muxes[i].relays
    BY DEF MuxSeparation
  <2>1. PICK a \in LoaderAnswers : Loads(source.file, a) /\ state = Runtime(source.file, a)
    BY DEF Inv, StateInv
  <2>2. source.file \in Files
    BY StateFound
  <2>3. v \in MuxKeys(source.file, a, i)
    BY DEF MuxKeys
  <2>4. MuxConfigAndRelays(state, v)
          = [config |-> MuxConfigOf(source.file, i), relays |-> source.file.muxes[i].relays]
    BY <2>1, <2>2, <2>3, MuxOfKey
  <2> QED
    BY <2>4
<1> QED
  BY <1>1, Invariance, PTL

(***************************************************************************)
(* The relay whose header a validator signed is asked for the payload,     *)
(* unless a changed file was loaded in between: all_relays holds the       *)
(* relays of every mux, and reloads of one content, in whatever order they *)
(* end, give the same list.                                                *)
(***************************************************************************)
THEOREM PayloadAsked == Spec => []PayloadRelayAsked
<1>1. Inv => PayloadRelayAsked
  BY DEF Inv, CallOk, PayloadRelayAsked
<1> QED
  BY <1>1, Invariance, PTL

-----------------------------------------------------------------------------
(***************************************************************************)
(* RegisterValidator.  The inductive invariant: a task is in its first     *)
(* RetryLimit attempts; a sleep lasts at least the back-off, which has     *)
(* grown by one step per retry, and it ends in an attempt that is still    *)
(* allowed.                                                                *)
(***************************************************************************)
TaskOk(t) ==
  /\ t \in Task /\ t.retry < RetryLimit
  /\ t.backoff = (t.retry + 1) * BackoffStep
  /\ t.pc = "sending" => t.remaining > 0 /\ t.remaining + t.retry * BackoffStep <= Timeout
  /\ t.pc = "sleeping" => t.wake >= t.backoff /\ t.retry + 1 < RetryLimit

\* One task per chunk of every relay that was asked: all, unless one panics.
SpawnedInv ==
  \E asked \in SUBSET (Relays \ Panics(batchSize)) :
    /\ DOMAIN tasks = TaskIds(asked, batchSize, regs)
    /\ resp # "panic" => asked = Relays

\* An answer that waited for all tasks comes after all of them.
AnswerInv ==
  waitAll /\ resp \in {"ok", "no_response"} => \A id \in DOMAIN tasks : Finished(tasks[id])

RegisterInv == /\ RegisterTypeOK /\ SpawnedInv /\ AnswerInv /\ WaitAllAnswer
       /\ \A id \in DOMAIN tasks : TaskOk(tasks[id])

-----------------------------------------------------------------------------
(***************************************************************************)
(* The chunks of one relay: every registration is in exactly one.          *)
(***************************************************************************)
LEMMA RestRemoved ==
  ASSUME NEW c \in Nat, NEW b \in Nat \ {0}, NEW rest \in Nat, rest = c % b
  PROVE  (c - rest) % b = 0
  BY SMTT(30)

LEMMA LastMultiple ==
  ASSUME NEW c \in Nat, NEW b \in Nat \ {0}
  PROVE  c % b \in 0..(b - 1) /\ c % b <= c /\ (c - (c % b)) % b = 0
<1>1. c % b \in 0..(b - 1)
  OBVIOUS
<1>2. c % b <= c
  <2>1. CASE c < b
    BY <2>1
  <2>2. CASE c >= b
    BY <1>1, <2>2
  <2> QED
    BY <2>1, <2>2
<1>3. c % b \in Nat
  BY <1>1
<1> QED
  BY <1>1, <1>2, <1>3, RestRemoved, Zenon

LEMMA RestAfterMultiple ==
  ASSUME NEW b \in Nat \ {0}, NEW a \in Nat, NEW c \in Nat, a % b = 0, a <= c, c < a + b
  PROVE  c % b = c - a
  OBVIOUS

LEMMA ChunkStart ==
  ASSUME NEW size \in Nat \ {0}, NEW k \in Nat \ {0}
  PROVE  \E lo \in 1..k :
           /\ (lo - 1) % size = 0 /\ k <= lo + size - 1
           /\ \A m \in 1..k : (m - 1) % size = 0 /\ k <= m + size - 1 => m = lo
<1> DEFINE rest == (k - 1) % size
           lo == k - rest
<1>1. k - 1 \in Nat
  OBVIOUS
<1>2. rest \in 0..(size - 1) /\ rest <= k - 1 /\ ((k - 1) - rest) % size = 0
  BY <1>1, LastMultiple, Zenon
<1>3. ASSUME NEW m \in 1..k, (m - 1) % size = 0, k <= m + size - 1
      PROVE  rest = (k - 1) - (m - 1)
  <2>1. m - 1 \in Nat /\ m - 1 <= k - 1 /\ k - 1 < (m - 1) + size
    BY <1>3
  <2> QED
    BY <1>1, <1>3, <2>1, RestAfterMultiple, Zenon
<1> HIDE DEF rest
<1>4. lo \in 1..k /\ k <= lo + size - 1 /\ lo - 1 = (k - 1) - rest
  BY <1>2
<1>5. \A m \in 1..k : (m - 1) % size = 0 /\ k <= m + size - 1 => m = lo
  <2> SUFFICES ASSUME NEW m \in 1..k, (m - 1) % size = 0, k <= m + size - 1
               PROVE  m = lo
    OBVIOUS
  <2>1. rest = (k - 1) - (m - 1)
    BY <1>3
  <2> HIDE <1>3
  <2> QED
    BY <2>1
<1>6. (lo - 1) % size = 0
  BY <1>2, <1>4
<1> HIDE DEF lo
<1> QED
  BY <1>4, <1>5, <1>6

LEMMA ChunkOfEach ==
  ASSUME NEW size \in Nat \cup {NoBatch}, size # 0, NEW n \in Nat, NEW k \in 1..n
  PROVE  \E c \in Chunks(size, n) :
           /\ k \in c[1]..c[2]
           /\ \A d \in Chunks(size, n) : k \in d[1]..d[2] => d = c
<1>1. CASE size = NoBatch
  BY <1>1 DEF Chunks
<1>2. CASE size # NoBatch
  <2> DEFINE Hi(lo) == IF lo + size - 1 < n THEN lo + size - 1 ELSE n
             Starts == {j \in 1..n : (j - 1) % size = 0}
  <2>1. Chunks(size, n) = {<<j, Hi(j)>> : j \in Starts}
    BY <1>2 DEF Chunks
  <2>2. PICK lo \in 1..k :
          /\ (lo - 1) % size = 0 /\ k <= lo + size - 1
          /\ \A m \in 1..k : (m - 1) % size = 0 /\ k <= m + size - 1 => m = lo
    <3>1. size \in Nat \ {0} /\ k \in Nat \ {0}
      BY <1>2
    <3> QED
      BY <3>1, ChunkStart, Zenon
  <2>3. lo \in Starts /\ k \in lo..Hi(lo)
    BY <1>2, <2>2
  <2>4. \A j \in Starts : k \in j..Hi(j) => j = lo
    BY <1>2, <2>2
  <2> HIDE DEF Hi, Starts
  <2>5. \A j \in Starts : <<j, Hi(j)>>[1] = j /\ <<j, Hi(j)>>[2] = Hi(j)
    OBVIOUS
  <2>6. <<lo, Hi(lo)>> \in Chunks(size, n)
    BY <2>1, <2>3
  <2>7. ASSUME NEW d \in Chunks(size, n), k \in d[1]..d[2] PROVE d = <<lo, Hi(lo)>>
    <3>1. PICK j \in Starts : d = <<j, Hi(j)>>
      BY <2>1
    <3>2. k \in j..Hi(j)
      BY <2>5, <2>7, <3>1
    <3> QED
      BY <2>4, <3>1, <3>2
  <2> QED
    BY <2>3, <2>5, <2>6, <2>7
<1> QED
  BY <1>1, <1>2

\* The tasks of the relays that were asked, and no other, have the relay's chunks.
LEMMA TasksPartition ==
  ASSUME RegisterTypeOK, SpawnedInv, NEW r \in Relays, NEW k \in 1..regs,
         resp # "panic" \/ \E id \in DOMAIN tasks : id[1] = r
  PROVE  Cardinality({id \in DOMAIN tasks : id[1] = r /\ k \in id[2][1]..id[2][2]}) = 1
<1>1. PICK asked \in SUBSET (Relays \ Panics(batchSize)) :
        /\ DOMAIN tasks = TaskIds(asked, batchSize, regs)
        /\ resp # "panic" => asked = Relays
  BY DEF SpawnedInv
<1>2. \A id \in DOMAIN tasks : \E q \in asked : \E c \in Chunks(batchSize[q], regs) : id = <<q, c>>
  BY <1>1 DEF TaskIds
<1>3. \A q \in asked : \A c \in Chunks(batchSize[q], regs) : <<q, c>> \in DOMAIN tasks
  BY <1>1 DEF TaskIds
<1>4. r \in asked
  BY <1>1, <1>2
<1>5. batchSize[r] \in Nat \cup {NoBatch} /\ batchSize[r] # 0 /\ regs \in Nat
  BY <1>4, RegisterAssumption DEF RegisterTypeOK, Panics
<1>6. PICK c \in Chunks(batchSize[r], regs) :
        /\ k \in c[1]..c[2]
        /\ \A d \in Chunks(batchSize[r], regs) : k \in d[1]..d[2] => d = c
  BY <1>5, ChunkOfEach, Zenon
<1>7. \A id \in DOMAIN tasks :
        id[1] = r => \E d \in Chunks(batchSize[r], regs) : id = <<r, d>> /\ id[2] = d
  BY <1>2
<1>8. <<r, c>> \in DOMAIN tasks /\ <<r, c>>[1] = r /\ <<r, c>>[2] = c
  BY <1>3, <1>4
<1>9. {id \in DOMAIN tasks : id[1] = r /\ k \in id[2][1]..id[2][2]} = {<<r, c>>}
  BY <1>6, <1>7, <1>8
<1> QED
  BY <1>9, FS_Singleton, Zenon

-----------------------------------------------------------------------------
(***************************************************************************)
(* The retry loop.                                                         *)
(***************************************************************************)
LEMMA NewTaskOk ==
  /\ TaskOk(NewTask)
  /\ \A v \in {"ok", "failed"} : TaskOk(Finish(v)) /\ Finish(v).pc = v
<1>1. NewTask \in Task
  BY RetryAssumption DEF NewTask, Task, TaskState
<1>2. TaskOk(NewTask)
  BY <1>1, RetryAssumption, RegisterAssumption DEF TaskOk, NewTask
<1>3. ASSUME NEW v \in {"ok", "failed"}
      PROVE  TaskOk(Finish(v)) /\ Finish(v).pc = v
  <2>1. Finish(v) = [pc |-> v, retry |-> 0, backoff |-> BackoffStep,
                     remaining |-> Timeout, elapsed |-> 0, wake |-> 0]
    BY DEF Finish, NewTask
  <2>2. Finish(v) \in Task
    BY <2>1, RetryAssumption DEF Task, TaskState
  <2> QED
    BY <2>1, <2>2, RetryAssumption, RegisterAssumption DEF TaskOk
<1> QED
  BY <1>2, <1>3

\* An error is followed by a sleep only if another attempt is allowed.
LEMMA AfterErrorOk ==
  ASSUME NEW t, TaskOk(t), NEW err
  PROVE  TaskOk(AfterError(t, err))
<1>1. CASE ShouldRetry(err) /\ t.retry + 1 < RetryLimit
  <2>1. AfterError(t, err) = [t EXCEPT !.pc = "sleeping", !.wake = t.elapsed + t.backoff]
    BY <1>1 DEF AfterError, Sleep
  <2>2. t \in Task
    BY DEF TaskOk
  <2>3. t.elapsed + t.backoff \in Nat /\ "sleeping" \in TaskState
    BY <2>2 DEF Task, TaskState
  <2>4. AfterError(t, err) \in Task
    BY <2>1, <2>2, <2>3, Zenon DEF Task
  <2> QED
    BY <1>1, <2>1, <2>2, <2>4 DEF TaskOk, Task
<1>2. CASE ~ (ShouldRetry(err) /\ t.retry + 1 < RetryLimit)
  BY <1>2, NewTaskOk DEF AfterError
<1> QED
  BY <1>1, <1>2

LEMMA ElapseOk ==
  ASSUME NEW t, TaskOk(t)
  PROVE  TaskOk(Elapse(t)) /\ Elapse(t).pc = t.pc
<1>1. CASE Running(t)
  <2>1. Elapse(t) = [t EXCEPT !.elapsed = t.elapsed + 1] /\ t \in Task
    BY <1>1 DEF Elapse, TaskOk
  <2>2. Elapse(t) \in Task
    BY <2>1 DEF Task
  <2> QED
    BY <2>1, <2>2 DEF TaskOk, Task
<1>2. CASE ~ Running(t)
  BY <1>2 DEF Elapse
<1> QED
  BY <1>1, <1>2

\* The sleep before the next attempt lasted retry + 1 steps of the back-off,
\* and these come off the timeout.
LEMMA WakeUpOk ==
  ASSUME NEW t, TaskOk(t), t.pc = "sleeping", Due(t)
  PROVE  TaskOk(WakeUp(t))
<1> DEFINE left == SaturatingSub(Timeout, t.elapsed)
           slept == (t.retry + 1) * BackoffStep
<1>1. /\ t \in Task /\ t.retry \in Nat /\ t.elapsed \in Nat /\ t.wake \in Nat
      /\ t.backoff = slept /\ t.retry + 1 < RetryLimit /\ t.wake >= t.backoff
  BY DEF TaskOk, Task
<1>2. slept \in Nat /\ slept + BackoffStep = ((t.retry + 1) + 1) * BackoffStep
  BY <1>1, RetryAssumption
<1>3. CASE left = 0
  BY <1>3, NewTaskOk DEF WakeUp
<1>4. CASE left # 0
  <2>1. t.elapsed >= t.wake
    BY DEF Due
  <2>2. left = Timeout - t.elapsed /\ left > 0 /\ left \in Nat
    BY <1>1, <1>4, RetryAssumption DEF SaturatingSub
  <2>3. WakeUp(t) = [t EXCEPT !.pc = "sending", !.retry = t.retry + 1,
                       !.backoff = t.backoff + BackoffStep, !.remaining = left,
                       !.elapsed = 0, !.wake = 0]
    BY <1>4 DEF WakeUp
  <2> HIDE DEF left, slept
  <2>4. left + slept <= Timeout
    BY <1>1, <1>2, <2>1, <2>2, RetryAssumption
  <2>5. /\ t.retry + 1 \in Nat /\ t.backoff + BackoffStep \in Nat
        /\ 0 \in Nat /\ "sending" \in TaskState
    BY <1>1, <1>2, RetryAssumption DEF TaskState
  <2>6. WakeUp(t) \in Task
    BY <1>1, <2>2, <2>3, <2>5, Zenon DEF Task
  <2>7. /\ WakeUp(t).pc = "sending" /\ WakeUp(t).retry = t.retry + 1
        /\ WakeUp(t).backoff = t.backoff + BackoffStep /\ WakeUp(t).remaining = left
    BY <1>1, <2>3 DEF Task
  <2>8. WakeUp(t).retry * BackoffStep = slept
    BY <2>7 DEF slept
  <2> QED
    BY <1>1, <1>2, <2>2, <2>4, <2>6, <2>7, <2>8 DEF TaskOk
<1> QED
  BY <1>3, <1>4

-----------------------------------------------------------------------------
LEMMA RegisterInitInv == RegisterInit => RegisterInv
<1> SUFFICES ASSUME RegisterInit PROVE RegisterInv
  OBVIOUS
<1>1. PICK asked \in SUBSET (Relays \ Panics(batchSize)) :
        /\ Panics(batchSize) = {} => asked = Relays
        /\ tasks = [id \in TaskIds(asked, batchSize, regs) |-> NewTask]
  BY DEF RegisterInit
<1>2. /\ waitAll \in WaitAllSettings /\ batchSize \in BatchConfigs /\ regs \in RegCounts
      /\ resp = IF Panics(batchSize) = {} THEN "pending" ELSE "panic"
  BY DEF RegisterInit
<1>3. /\ DOMAIN tasks = TaskIds(asked, batchSize, regs)
      /\ \A id \in DOMAIN tasks : tasks[id] = NewTask
  BY <1>1
<1>4. SpawnedInv
  BY <1>1, <1>2, <1>3 DEF SpawnedInv
<1>5. TaskIds(asked, batchSize, regs) \subseteq TaskIds(Relays \ Panics(batchSize), batchSize, regs)
  BY DEF TaskIds
<1>6. \A id \in DOMAIN tasks : TaskOk(tasks[id])
  BY <1>3, NewTaskOk
<1>7. RegisterTypeOK
  BY <1>2, <1>3, <1>5, <1>6, Zenon DEF RegisterTypeOK, TaskOk
<1> QED
  BY <1>2, <1>4, <1>6, <1>7 DEF RegisterInv, AnswerInv, WaitAllAnswer

\* One running task goes on: an answer that waits for all has not been given.
LEMMA TaskStep ==
  ASSUME RegisterInv, NEW id \in DOMAIN tasks, Running(tasks[id]), NEW t, TaskOk(t),
         tasks' = [tasks EXCEPT ![id] = t], UNCHANGED <<waitAll, batchSize, regs, resp>>
  PROVE  RegisterInv'
<1>1. /\ DOMAIN tasks' = DOMAIN tasks
      /\ \A j \in DOMAIN tasks : tasks'[j] = IF j = id THEN t ELSE tasks[j]
  OBVIOUS
<1>2. ~ (waitAll /\ resp \in {"ok", "no_response"})
  BY DEF RegisterInv, AnswerInv, Finished
<1>3. \A j \in DOMAIN tasks' : TaskOk(tasks'[j])
  BY <1>1 DEF RegisterInv
<1>4. SpawnedInv'
  BY <1>1 DEF RegisterInv, SpawnedInv
<1>5. RegisterTypeOK'
  BY <1>1, <1>3, Zenon DEF RegisterInv, RegisterTypeOK, TaskOk
<1> QED
  BY <1>2, <1>3, <1>4, <1>5 DEF RegisterInv, AnswerInv, WaitAllAnswer

LEMMA TickKeeps == ASSUME RegisterInv, Tick PROVE RegisterInv'
<1>1. /\ tasks' = [id \in DOMAIN tasks |-> Elapse(tasks[id])]
      /\ UNCHANGED <<waitAll, batchSize, regs, resp>>
  BY DEF Tick
<1>2. /\ DOMAIN tasks' = DOMAIN tasks
      /\ \A j \in DOMAIN tasks : TaskOk(tasks'[j]) /\ tasks'[j].pc = tasks[j].pc
  BY <1>1, ElapseOk DEF RegisterInv
<1>3. RegisterTypeOK'
  BY <1>1, <1>2, Zenon DEF RegisterInv, RegisterTypeOK, TaskOk
<1>4. SpawnedInv' /\ AnswerInv' /\ WaitAllAnswer'
  BY <1>1, <1>2 DEF RegisterInv, SpawnedInv, AnswerInv, WaitAllAnswer, Finished, Running
<1> QED
  BY <1>2, <1>3, <1>4 DEF RegisterInv

\* A task that is finished and not ok has failed.
LEMMA FinishedOrFailed ==
  ASSUME NEW t \in Task, Finished(t), t.pc # "ok"
  PROVE  t.pc = "failed"
  BY DEF Task, TaskState, Finished, Running

LEMMA RespondAllKeeps == ASSUME RegisterInv, RespondAll PROVE RegisterInv'
<1>1. /\ waitAll /\ resp = "pending" /\ \A id \in DOMAIN tasks : Finished(tasks[id])
      /\ resp' = IF \E id \in DOMAIN tasks : tasks[id].pc = "ok" THEN "ok" ELSE "no_response"
      /\ UNCHANGED <<waitAll, batchSize, regs, tasks>>
  BY DEF RespondAll
<1>2. \A id \in DOMAIN tasks : tasks[id] \in Task
  BY DEF RegisterInv, RegisterTypeOK
<1>3. WaitAllAnswer'
  BY <1>1, <1>2, FinishedOrFailed DEF WaitAllAnswer
<1>4. RegisterTypeOK' /\ SpawnedInv' /\ AnswerInv'
  BY <1>1, Zenon DEF RegisterInv, RegisterTypeOK, SpawnedInv, AnswerInv
<1> QED
  BY <1>1, <1>3, <1>4 DEF RegisterInv

LEMMA RespondFirstKeeps == ASSUME RegisterInv, RespondFirst PROVE RegisterInv'
<1>1. /\ ~ waitAll /\ resp = "pending" /\ resp' \in {"ok", "no_response"}
      /\ UNCHANGED <<waitAll, batchSize, regs, tasks>>
  BY DEF RespondFirst
<1>2. RegisterTypeOK' /\ SpawnedInv' /\ AnswerInv' /\ WaitAllAnswer'
  BY <1>1 DEF RegisterInv, RegisterTypeOK, SpawnedInv, AnswerInv, WaitAllAnswer
<1> QED
  BY <1>1, <1>2 DEF RegisterInv

LEMMA RespondPanicKeeps == ASSUME RegisterInv, RespondPanic PROVE RegisterInv'
<1>1. /\ ~ waitAll /\ resp' = "panic" /\ UNCHANGED <<waitAll, batchSize, regs, tasks>>
  BY DEF RespondPanic
<1>2. RegisterTypeOK' /\ SpawnedInv' /\ AnswerInv' /\ WaitAllAnswer'
  BY <1>1 DEF RegisterInv, RegisterTypeOK, SpawnedInv, AnswerInv, WaitAllAnswer
<1> QED
  BY <1>1, <1>2 DEF RegisterInv

LEMMA RegisterNextInv == RegisterInv /\ [RegisterNext]_registerVars => RegisterInv'
<1> SUFFICES ASSUME RegisterInv, [RegisterNext]_registerVars PROVE RegisterInv'
  OBVIOUS
<1>1. CASE UNCHANGED registerVars
  BY <1>1 DEF registerVars, RegisterInv, RegisterTypeOK, SpawnedInv, AnswerInv, WaitAllAnswer
<1>2. ASSUME NEW id \in DOMAIN tasks,
             \/ RelayOk(id)
             \/ \E err \in {a.err : a \in RelayAnswers \ {[ok |-> TRUE]}} : RelayErr(id, err)
             \/ RequestTimeout(id)
             \/ Wake(id)
      PROVE  RegisterInv'
  <2>1. TaskOk(tasks[id])
    BY DEF RegisterInv
  <2>2. CASE RelayOk(id)
    BY <2>2, NewTaskOk, TaskStep, Zenon DEF RelayOk, Running
  <2>3. ASSUME NEW err, RelayErr(id, err) PROVE RegisterInv'
    <3>1. TaskOk(AfterError(tasks[id], err))
      BY <2>1, AfterErrorOk
    <3> QED
      BY <2>3, <3>1, TaskStep, Zenon DEF RelayErr, Running
  <2>4. CASE RequestTimeout(id)
    <3>1. PICK kind \in {"timeout", "read_response"} :
            tasks' = [tasks EXCEPT ![id] = AfterError(tasks[id], Transport(kind))]
      BY <2>4, Zenon DEF RequestTimeout
    <3>2. TaskOk(AfterError(tasks[id], Transport(kind)))
      BY <2>1, AfterErrorOk
    <3> QED
      BY <2>4, <3>1, <3>2, TaskStep, Zenon DEF RequestTimeout, Running
  <2>5. CASE Wake(id)
    <3>1. TaskOk(WakeUp(tasks[id]))
      BY <2>1, <2>5, WakeUpOk DEF Wake
    <3> QED
      BY <2>5, <3>1, TaskStep, Zenon DEF Wake, Running
  <2> QED
    BY <1>2, <2>2, <2>3, <2>4, <2>5
<1>3. CASE Tick
  BY <1>3, TickKeeps
<1>4. CASE RespondAll
  BY <1>4, RespondAllKeeps
<1>5. CASE RespondFirst
  BY <1>5, RespondFirstKeeps
<1>6. CASE RespondPanic
  BY <1>6, RespondPanicKeeps
<1> QED
  BY <1>1, <1>2, <1>3, <1>4, <1>5, <1>6 DEF RegisterNext

LEMMA RegisterInvariance == RegisterSpec => []RegisterInv
  BY RegisterInitInv, RegisterNextInv, PTL DEF RegisterSpec

-----------------------------------------------------------------------------
(***************************************************************************)
(* Settings, tasks and answer keep their types.                            *)
(***************************************************************************)
THEOREM RegisterTypeCorrect == RegisterSpec => []RegisterTypeOK
<1>1. RegisterInv => RegisterTypeOK
  BY DEF RegisterInv
<1> QED
  BY <1>1, RegisterInvariance, PTL

(***************************************************************************)
(* registrations.chunks(batch_size) hands every registration to every      *)
(* relay exactly once, for any batch size and number of registrations.     *)
(***************************************************************************)
THEOREM EachRegistrationOnce == RegisterSpec => []ChunksPartition
<1>1. RegisterInv => ChunksPartition
  BY TasksPartition DEF RegisterInv, ChunksPartition
<1> QED
  BY <1>1, RegisterInvariance, PTL

(***************************************************************************)
(* send_register_validator_with_timeout makes at most retry_limit attempts *)
(* for a chunk, each with what the back-offs left of the timeout.          *)
(***************************************************************************)
THEOREM AttemptsAreBounded == RegisterSpec => []AttemptsBounded
<1>1. RegisterInv => AttemptsBounded
  BY DEF RegisterInv, TaskOk, AttemptsBounded
<1> QED
  BY <1>1, RegisterInvariance, PTL

(***************************************************************************)
(* With wait_all_registrations, register_validator answers 200 exactly if  *)
(* some relay took a registration, and no task changes its verdict later.  *)
(***************************************************************************)
THEOREM WaitAllIsRight == RegisterSpec => []WaitAllAnswer
<1>1. RegisterInv => WaitAllAnswer
  BY DEF RegisterInv
<1> QED
  BY <1>1, RegisterInvariance, PTL
=============================================================================
