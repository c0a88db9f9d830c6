------------------------ MODULE LocalSigner_proofs ------------------------
(***************************************************************************)
(* Proofs about LocalSigner, for any modules, keys, proxies, key           *)
(* directories and crashes: granted proxies survive, only a torn key file  *)
(* can keep the service from starting, and modules are shown their own     *)
(* proxies.                                                                *)
(***************************************************************************)
EXTENDS LocalSigner, TLAPS

PathType == [module : Modules, delegator : Keys]
OpType == [proxy : Proxies, module : Modules, delegator : Keys, step : 1..4]
FileState == {"absent", "torn", "full"}

-----------------------------------------------------------------------------
(***************************************************************************)
(* The inductive invariant.  Files are written in order: when the n-th is  *)
(* at work, those before it are complete and those after it are absent.    *)
(***************************************************************************)
AfterLast == Len(WriteOrder(store)) + 1

WrittenUpTo(fs, order, n) ==
  \A i \in 1..Len(order) : /\ i < n => fs[order[i]] = "full"
                           /\ i > n => fs[order[i]] = "absent"

Written(p, n) == WrittenUpTo(files[p], WriteOrder(store), n)

DiskInv ==
  \A p \in Proxies : /\ \E n \in 1..AfterLast : Written(p, n)
                     /\ files[p] # NoFiles => path[p] \in PathType

\* The creation in progress has the proxy to itself.
OpInv ==
  op # NoOp =>
    /\ op \in OpType /\ up /\ op.step <= AfterLast /\ Written(op.proxy, op.step)
    /\ path[op.proxy] = [module |-> op.module, delegator |-> op.delegator]
    /\ op.proxy \notin DOMAIN signers
    /\ \A g \in granted : g.proxy # op.proxy

\* Both maps of the manager agree with the paths the proxies are stored under.
MemoryInv ==
  /\ up => consensus = LoadKeys(source) /\ LoadKeys(source) # Failed
  /\ ~ up => signers = <<>> /\ \A m \in Modules : listed[m] = {}
  /\ \A p \in DOMAIN signers :
       path[p] \in PathType /\ signers[p] = path[p].delegator /\ p \in listed[path[p].module]
  /\ \A m \in Modules : \A p \in listed[m] : p \in DOMAIN signers /\ path[p].module = m

GrantInv ==
  \A g \in granted :
    /\ path[g.proxy] = [module |-> g.module, delegator |-> g.delegator]
    /\ store # "none" => Written(g.proxy, AfterLast) /\ (up => g.proxy \in DOMAIN signers)

\* What was granted since the last start is in memory, store or no store.
RecentInv == \A g \in recent : g.proxy \in DOMAIN signers

Inv == TypeOK /\ DiskInv /\ OpInv /\ MemoryInv /\ GrantInv /\ RecentInv
-----------------------------------------------------------------------------
\* The write orders: distinct kinds of files, the key file last.
LEMMA OrderFacts ==
  ASSUME store \in Stores
  PROVE  /\ store \in {"none", "file", "erc2335"}
         /\ WriteOrder(store) \in Seq(FileKinds) /\ Len(WriteOrder(store)) \in 0..3
         /\ AfterLast \in 1..4 /\ AfterLast = Len(WriteOrder(store)) + 1
         /\ \A i, j \in 1..Len(WriteOrder(store)) :
              WriteOrder(store)[i] = WriteOrder(store)[j] => i = j
<1>1. store \in {"none", "file", "erc2335"}
  BY StoreAssumption
<1>2. CASE store = "none"
  <2>1. WriteOrder(store) = <<>>
    BY <1>2 DEF WriteOrder
  <2> QED
    BY <1>1, <2>1 DEF AfterLast
<1>3. CASE store = "file"
  <2>1. WriteOrder(store) = <<"key">>
    BY <1>3 DEF WriteOrder
  <2> QED
    BY <1>1, <2>1 DEF AfterLast, FileKinds
<1>4. CASE store = "erc2335"
  <2>1. WriteOrder(store) = <<"password", "sig", "json">>
    BY <1>4 DEF WriteOrder
  <2> QED
    BY <1>1, <2>1 DEF AfterLast, FileKinds
<1> QED
  BY <1>1, <1>2, <1>3, <1>4

\* The key file comes last, so a proxy that has one has all the rest.
LEMMA KeyFileLast ==
  ASSUME TypeOK, NEW p \in Proxies, NEW n \in 1..AfterLast, Written(p, n), p \in Found
  PROVE  /\ files[p][KeyFile(store)] \in {"torn", "full"}
         /\ store = "erc2335" => files[p].password = "full" /\ files[p].sig = "full"
         /\ files[p][KeyFile(store)] = "full" => Readable(p) /\ p \in Loaded
<1>1. store \in {"file", "erc2335"}
  BY OrderFacts DEF TypeOK, Found
<1>2. files[p] \in [FileKinds -> FileState]
  BY DEF TypeOK, FileState
<1>3. CASE store = "file"
  BY <1>2, <1>3 DEF Found, KeyFile, FileKinds, FileState, Readable, Loaded
<1>4. CASE store = "erc2335"
  <2>1. WriteOrder(store) = <<"password", "sig", "json">>
    BY <1>4 DEF WriteOrder
  <2>2. files[p].json # "absent" /\ files[p].json \in FileState
    BY <1>2, <1>4 DEF Found, KeyFile, FileKinds
  <2>3. n \in 1..4
    BY <2>1 DEF AfterLast
  <2>4. files[p].password = "full" /\ files[p].sig = "full"
    BY <2>1, <2>2, <2>3 DEF Written, WrittenUpTo
  <2> QED
    BY <1>4, <2>2, <2>4 DEF KeyFile, FileState, Readable, ProxyOpens, Loaded
<1> QED
  BY <1>1, <1>3, <1>4

\* What was written to the end is found, readable and loaded.
LEMMA CompleteIsLoaded ==
  ASSUME TypeOK, NEW p \in Proxies, Written(p, AfterLast), store # "none"
  PROVE  p \in Found /\ files[p][KeyFile(store)] = "full" /\ p \in Loaded
<1>1. CASE store = "file"
  <2>1. WriteOrder(store) = <<"key">>
    BY <1>1 DEF WriteOrder
  <2>2. files[p].key = "full"
    BY <2>1 DEF Written, WrittenUpTo, AfterLast
  <2> QED
    BY <1>1, <2>2 DEF Found, KeyFile, Loaded
<1>2. CASE store = "erc2335"
  <2>1. WriteOrder(store) = <<"password", "sig", "json">>
    BY <1>2 DEF WriteOrder
  <2>2. files[p].sig = "full" /\ files[p].json = "full"
    BY <2>1 DEF Written, WrittenUpTo, AfterLast
  <2> QED
    BY <1>2, <2>2 DEF Found, KeyFile, Loaded
<1> QED
  BY <1>1, <1>2, OrderFacts DEF TypeOK

\* Only keys that a source holds are loaded, and the formats with one file
\* load all of them.
LEMMA LoadedKeys ==
  ASSUME NEW src \in Sources, LoadKeys(src) # Failed
  PROVE  /\ LoadKeys(src) \subseteq Keys
         /\ src.format \in OneFile => \A e \in src.entries : e.holds \in LoadKeys(src)
<1>1. src.format \in Formats /\ \A e \in src.entries : e.holds \in Keys
  BY StoreAssumption
<1>2. CASE src.format = "lighthouse"
  <2>1. LoadKeys(src) = LighthouseKeys(src)
    BY <1>2 DEF LoadKeys
  <2> QED
    BY <1>1, <1>2, <2>1 DEF LighthouseKeys, OneFile
<1>3. CASE src.format = "nimbus"
  <2>1. LoadKeys(src) = NimbusKeys(src)
    BY <1>3 DEF LoadKeys
  <2> QED
    BY <1>1, <1>3, <2>1 DEF NimbusKeys, OneFile
<1>4. CASE src.format = "teku"
  <2>1. LoadKeys(src) = TekuKeys(src)
    BY <1>4 DEF LoadKeys
  <2> QED
    BY <1>1, <1>4, <2>1 DEF TekuKeys, OneFile
<1>5. CASE src.format = "lodestar"
  <2>1. LoadKeys(src) = LodestarKeys(src)
    BY <1>5 DEF LoadKeys
  <2> QED
    BY <1>1, <1>5, <2>1 DEF LodestarKeys, OneFile
<1>6. CASE src.format = "prysm"
  <2>1. LoadKeys(src) = PrysmKeys(src)
    BY <1>6 DEF LoadKeys
  <2>2. LoadKeys(src) = {e.holds : e \in src.entries}
    BY <2>1 DEF PrysmKeys
  <2> QED
    BY <1>1, <2>2
<1>7. CASE src.format = "file"
  <2>1. LoadKeys(src) = FileKeys(src)
    BY <1>7 DEF LoadKeys
  <2>2. LoadKeys(src) = {e.holds : e \in src.entries}
    BY <2>1 DEF FileKeys
  <2> QED
    BY <1>1, <2>2
<1> QED
  BY <1>1, <1>2, <1>3, <1>4, <1>5, <1>6, <1>7 DEF Formats
-----------------------------------------------------------------------------
\* What no step changes: the store, and so the order of the writes.
LEMMA SameOrder == ASSUME store' = store PROVE AfterLast' = AfterLast
  BY DEF AfterLast

\* The files of a proxy that a step does not touch.
LEMMA SameFiles ==
  ASSUME store' = store, NEW p \in Proxies, files'[p] = files[p]
  PROVE  \A n \in 1..4 : Written(p, n)' <=> Written(p, n)
  BY DEF Written

LEMMA InitInv == Init => Inv
<1> SUFFICES ASSUME Init PROVE Inv
  OBVIOUS
<1>1. store \in Stores /\ source \in Sources /\ LoadKeys(source) # Failed /\ up = TRUE
  BY DEF Init
<1>2. consensus = LoadKeys(source) /\ consensus \subseteq Keys
  BY <1>1, LoadedKeys DEF Init
<1>3. /\ DOMAIN signers = {} /\ \A m \in Modules : listed[m] = {}
      /\ listed \in [Modules -> SUBSET Proxies]
  BY DEF Init
<1>4. files \in [Proxies -> [FileKinds -> {"absent", "torn", "full"}]]
  BY DEF Init, NoFiles
<1>5. path \in [Proxies -> PathType \cup {NoProxy}] /\ granted = {} /\ recent = {} /\ op = NoOp
  BY DEF Init
<1>6. TypeOK
  BY <1>1, <1>2, <1>3, <1>4, <1>5 DEF TypeOK, PathType
<1>7. DiskInv
  <2>1. \A p \in Proxies : files[p] = NoFiles
    BY DEF Init
  <2>2. WriteOrder(store) \in Seq(FileKinds) /\ 1 \in 1..AfterLast
    BY <1>1, OrderFacts
  <2>3. \A i \in 1..Len(WriteOrder(store)) : NoFiles[WriteOrder(store)[i]] = "absent"
    BY <2>2 DEF NoFiles
  <2>4. \A p \in Proxies : Written(p, 1)
    BY <2>1, <2>2, <2>3 DEF Written, WrittenUpTo
  <2> QED
    BY <2>1, <2>2, <2>4 DEF DiskInv
<1> QED
  BY <1>1, <1>2, <1>3, <1>5, <1>6, <1>7 DEF Inv, OpInv, MemoryInv, GrantInv, RecentInv

\* A new proxy: its name is used nowhere, so nothing refers to its path yet.
LEMMA BeginKeeps ==
  ASSUME Inv, NEW m \in Modules, NEW k \in Keys, NEW p \in Proxies, BeginCreate(m, k, p)
  PROVE  Inv'
<1>1. /\ up /\ op = NoOp /\ files[p] = NoFiles /\ p \notin DOMAIN signers
      /\ \A g \in granted : g.proxy # p
  BY DEF BeginCreate, Used
<1>2. /\ op' = [proxy |-> p, module |-> m, delegator |-> k, step |-> 1]
      /\ path' = [path EXCEPT ![p] = [module |-> m, delegator |-> k]]
      /\ UNCHANGED <<store, source, up, consensus, signers, listed, files, granted, recent>>
  BY DEF BeginCreate, memory
<1>3. /\ op' \in OpType /\ op'.proxy = p /\ op'.module = m /\ op'.delegator = k /\ op'.step = 1
      /\ 1 \in 1..4
  BY <1>2 DEF OpType
<1>4. /\ path' \in [Proxies -> PathType \cup {NoProxy}]
      /\ \A q \in Proxies : path'[q] = IF q = p THEN [module |-> m, delegator |-> k] ELSE path[q]
      /\ path'[p] \in PathType
  BY <1>2 DEF Inv, TypeOK, PathType
<1>5. TypeOK'
  BY <1>2, <1>3, <1>4 DEF Inv, TypeOK, PathType, OpType
<1>6. AfterLast' = AfterLast /\ AfterLast \in 1..4 /\ WriteOrder(store) \in Seq(FileKinds)
  BY <1>2, OrderFacts, SameOrder DEF Inv, TypeOK
<1>7. \A q \in Proxies : \A n \in 1..4 : Written(q, n)' <=> Written(q, n)
  BY <1>2, SameFiles
<1>8. DiskInv'
  BY <1>2, <1>4, <1>6, <1>7 DEF Inv, DiskInv
<1>9. Written(p, 1)
  <2>1. \A i \in 1..Len(WriteOrder(store)) : NoFiles[WriteOrder(store)[i]] = "absent"
    BY <1>6 DEF NoFiles
  <2> QED
    BY <1>1, <2>1 DEF Written, WrittenUpTo
<1>10. OpInv'
  <2>1. Written(op.proxy, op.step)'
    BY <1>2, <1>3, <1>9 DEF Written
  <2> QED
    BY <1>1, <1>2, <1>3, <1>4, <1>6, <2>1 DEF OpInv
<1>11. MemoryInv'
  <2>1. DOMAIN signers \subseteq Proxies /\ listed \in [Modules -> SUBSET Proxies]
    BY DEF Inv, TypeOK
  <2> QED
    BY <1>1, <1>2, <1>4, <2>1 DEF Inv, MemoryInv
<1>12. GrantInv'
  <2>1. \A g \in granted : g.proxy \in Proxies
    BY DEF Inv, TypeOK
  <2> QED
    BY <1>1, <1>2, <1>4, <1>6, <1>7, <2>1, Zenon DEF Inv, GrantInv
<1>13. RecentInv'
  BY <1>2 DEF Inv, RecentInv
<1> QED
  BY <1>5, <1>8, <1>10, <1>11, <1>12, <1>13 DEF Inv

\* Writing: the n-th file of a proxy that has only the ones before it.
LEMMA WriteFacts ==
  ASSUME Inv, Writing
  PROVE  /\ op \in OpType /\ up /\ op.proxy \in Proxies
         /\ op.step \in 1..3 /\ op.step + 1 <= AfterLast
         /\ File \in FileKinds /\ files[op.proxy] \in [FileKinds -> FileState]
         /\ Written(op.proxy, op.step) /\ AfterLast \in 1..4
         /\ path[op.proxy] \in PathType /\ store # "none"
<1>1. store \in Stores /\ op # NoOp /\ up /\ op.step <= Len(WriteOrder(store))
  BY DEF Writing, Inv, TypeOK
<1>2. op \in OpType /\ Written(op.proxy, op.step)
      /\ path[op.proxy] = [module |-> op.module, delegator |-> op.delegator]
  BY <1>1 DEF Inv, OpInv
<1>3. /\ WriteOrder(store) \in Seq(FileKinds) /\ Len(WriteOrder(store)) \in 0..3
      /\ AfterLast \in 1..4 /\ AfterLast = Len(WriteOrder(store)) + 1
  BY <1>1, OrderFacts
<1>4. op.proxy \in Proxies /\ op.step \in 1..4 /\ path[op.proxy] \in PathType
  BY <1>2 DEF OpType, PathType
<1>5. store # "none"
  BY <1>1, <1>4 DEF WriteOrder
<1>6. op.step \in 1..3 /\ op.step + 1 <= AfterLast /\ File \in FileKinds
  BY <1>1, <1>3, <1>4 DEF File
<1> QED
  BY <1>1, <1>2, <1>3, <1>4, <1>5, <1>6 DEF Inv, TypeOK, FileState

\* A step that writes a file of the proxy being created, and keeps or ends op.
LEMMA OtherFiles ==
  ASSUME Inv, Writing, NEW s \in FileState,
         files' = [files EXCEPT ![op.proxy][File] = s],
         UNCHANGED <<store, source, up, memory, path, granted, recent>>,
         NEW n \in 1..AfterLast, WrittenUpTo(files'[op.proxy], WriteOrder(store), n)
  PROVE  /\ files' \in [Proxies -> [FileKinds -> FileState]]
         /\ DiskInv' /\ MemoryInv' /\ GrantInv'
<1> USE WriteFacts
<1> DEFINE new == [files[op.proxy] EXCEPT ![File] = s]
<1>1. new \in [FileKinds -> FileState]
  OBVIOUS
<1>2. files \in [Proxies -> [FileKinds -> FileState]]
  BY DEF Inv, TypeOK, FileState
<1>3. files' = [files EXCEPT ![op.proxy] = new]
  BY <1>2
<1> HIDE DEF new
<1>4. /\ files' \in [Proxies -> [FileKinds -> FileState]]
      /\ \A q \in Proxies : q # op.proxy => files'[q] = files[q]
  BY <1>1, <1>2, <1>3
<1>5. AfterLast' = AfterLast
  BY SameOrder
<1>6. \A q \in Proxies : q # op.proxy => \A k \in 1..4 : Written(q, k)' <=> Written(q, k)
  BY <1>4, SameFiles
<1>7. DiskInv'
  <2> SUFFICES ASSUME NEW q \in Proxies
               PROVE  /\ \E k \in 1..AfterLast' : Written(q, k)'
                      /\ files'[q] # NoFiles => path'[q] \in PathType
    BY DEF DiskInv
  <2>1. CASE q = op.proxy
    <3>1. Written(q, n)'
      BY <2>1 DEF Written
    <3> QED
      BY <1>5, <2>1, <3>1
  <2>2. CASE q # op.proxy
    <3>1. PICK k \in 1..AfterLast : Written(q, k)
      BY DEF Inv, DiskInv
    <3>2. k \in 1..4
      BY <3>1
    <3> QED
      BY <1>4, <1>5, <1>6, <2>2, <3>1, <3>2 DEF Inv, DiskInv
  <2> QED
    BY <2>1, <2>2
<1>8. MemoryInv'
  BY DEF Inv, MemoryInv, memory
<1>9. GrantInv'
  <2>1. \A g \in granted : g.proxy \in Proxies /\ g.proxy # op.proxy
    BY DEF Inv, TypeOK, OpInv, Writing
  <2> QED
    BY <1>5, <1>6, <2>1, Zenon DEF Inv, GrantInv, memory
<1> QED
  BY <1>4, <1>7, <1>8, <1>9

\* Only the file at work changes, so those before and after it stay as they are.
LEMMA OneFileWritten ==
  ASSUME Inv, Writing, NEW s \in FileState, NEW n \in {op.step, op.step + 1},
         files' = [files EXCEPT ![op.proxy][File] = s],
         n = op.step + 1 => s = "full"
  PROVE  WrittenUpTo(files'[op.proxy], WriteOrder(store), n)
<1> USE WriteFacts
<1>1. files'[op.proxy] = [files[op.proxy] EXCEPT ![File] = s]
  BY Zenon DEF Inv, TypeOK
<1>2. /\ WriteOrder(store) \in Seq(FileKinds)
      /\ \A i, j \in 1..Len(WriteOrder(store)) :
              WriteOrder(store)[i] = WriteOrder(store)[j] => i = j
      /\ op.step \in 1..Len(WriteOrder(store))
  BY OrderFacts DEF Inv, TypeOK
<1> SUFFICES ASSUME NEW i \in 1..Len(WriteOrder(store))
             PROVE  /\ i < n => files'[op.proxy][WriteOrder(store)[i]] = "full"
                    /\ i > n => files'[op.proxy][WriteOrder(store)[i]] = "absent"
  BY DEF WrittenUpTo
<1>3. CASE i = op.step
  BY <1>1, <1>2, <1>3 DEF File
<1>4. CASE i # op.step
  <2>1. WriteOrder(store)[i] # File
    BY <1>2, <1>4 DEF File
  <2>2. files'[op.proxy][WriteOrder(store)[i]] = files[op.proxy][WriteOrder(store)[i]]
    BY <1>1, <1>2, <2>1
  <2> QED
    BY <1>2, <1>4, <2>2 DEF Written, WrittenUpTo
<1> QED
  BY <1>3, <1>4

LEMMA CreateFileKeeps == ASSUME Inv, CreateFile PROVE Inv'
<1> USE WriteFacts
<1>1. Writing /\ files' = [files EXCEPT ![op.proxy][File] = "torn"]
      /\ UNCHANGED <<store, source, up, memory, path, granted, recent>> /\ op' = op
  BY DEF CreateFile
<1>2. op.step \in 1..AfterLast /\ "torn" \in FileState /\ op.step # op.step + 1
  BY <1>1 DEF FileState
<1>3. WrittenUpTo(files'[op.proxy], WriteOrder(store), op.step)
  BY <1>1, <1>2, OneFileWritten, Zenon
<1>4. files' \in [Proxies -> [FileKinds -> FileState]] /\ DiskInv' /\ MemoryInv' /\ GrantInv'
  BY <1>1, <1>2, <1>3, OtherFiles, Zenon
<1>5. TypeOK'
  BY <1>1, <1>4, Zenon DEF Inv, TypeOK, FileState, memory
<1>6. OpInv'
  BY <1>1, <1>3, SameOrder DEF Inv, OpInv, Written, memory
<1>7. RecentInv'
  BY <1>1 DEF Inv, RecentInv, memory
<1> QED
  BY <1>4, <1>5, <1>6, <1>7 DEF Inv

LEMMA WriteFileKeeps == ASSUME Inv, WriteFile PROVE Inv'
<1> USE WriteFacts
<1>1. Writing /\ files' = [files EXCEPT ![op.proxy][File] = "full"]
      /\ UNCHANGED <<store, source, up, memory, path, granted, recent>>
      /\ op' = [op EXCEPT !.step = @ + 1]
  BY DEF WriteFile
<1>2. op.step + 1 \in 1..AfterLast /\ op.step + 1 \in 1..4 /\ "full" \in FileState
  BY <1>1 DEF FileState
<1>3. WrittenUpTo(files'[op.proxy], WriteOrder(store), op.step + 1)
  BY <1>1, <1>2, OneFileWritten, Zenon
<1>4. files' \in [Proxies -> [FileKinds -> FileState]] /\ DiskInv' /\ MemoryInv' /\ GrantInv'
  BY <1>1, <1>2, <1>3, OtherFiles, Zenon
<1>5. /\ op' \in OpType /\ op'.step = op.step + 1 /\ op'.proxy = op.proxy
      /\ op'.module = op.module /\ op'.delegator = op.delegator
  BY <1>1, <1>2 DEF OpType
<1>6. TypeOK'
  BY <1>1, <1>4, <1>5 DEF Inv, TypeOK, FileState, memory, OpType
<1>7. OpInv'
  <2>1. Written(op.proxy, op.step)'
    BY <1>1, <1>3, <1>5 DEF Written
  <2>2. op # NoOp
    BY <1>1 DEF Writing
  <2> QED
    BY <1>1, <1>2, <1>5, <2>1, <2>2, SameOrder DEF Inv, OpInv, memory
<1>8. RecentInv'
  BY <1>1 DEF Inv, RecentInv, memory
<1> QED
  BY <1>4, <1>6, <1>7, <1>8 DEF Inv

\* A failed write leaves its file torn; nothing refers to the proxy.
LEMMA FailStoreKeeps == ASSUME Inv, FailStore PROVE Inv'
<1>1. op' = NoOp /\ UNCHANGED <<store, source, up, memory, files, path, granted, recent>>
  BY DEF FailStore
<1>2. TypeOK'
  BY <1>1 DEF Inv, TypeOK, memory
<1>3. AfterLast' = AfterLast /\ \A q \in Proxies : \A k : Written(q, k)' <=> Written(q, k)
  BY <1>1, SameOrder DEF Written
<1>4. DiskInv' /\ OpInv' /\ MemoryInv'
  BY <1>1, <1>3 DEF Inv, DiskInv, OpInv, MemoryInv, memory
<1>5. GrantInv'
  BY <1>1, <1>3, Zenon DEF Inv, GrantInv, TypeOK, memory
<1>6. RecentInv'
  BY <1>1 DEF Inv, RecentInv, memory
<1> QED
  BY <1>2, <1>4, <1>5, <1>6 DEF Inv

\* A proxy is entered into both maps, and granted, once all its files are there.
LEMMA AddProxyKeeps == ASSUME Inv, AddProxy PROVE Inv'
<1>1. up /\ op # NoOp /\ op.step > Len(WriteOrder(store))
  BY DEF AddProxy
<1>2. /\ op \in OpType /\ op.step <= AfterLast /\ Written(op.proxy, op.step)
      /\ path[op.proxy] = [module |-> op.module, delegator |-> op.delegator]
      /\ op.proxy \notin DOMAIN signers /\ \A g \in granted : g.proxy # op.proxy
  BY <1>1 DEF Inv, OpInv
<1>3. /\ op.proxy \in Proxies /\ op.module \in Modules /\ op.delegator \in Keys /\ op.step \in 1..4
      /\ path[op.proxy] \in PathType
      /\ path[op.proxy].module = op.module /\ path[op.proxy].delegator = op.delegator
  BY <1>2 DEF OpType, PathType
<1>4. Written(op.proxy, AfterLast)
  <2>1. AfterLast \in 1..4 /\ AfterLast = Len(WriteOrder(store)) + 1
    BY OrderFacts DEF Inv, TypeOK
  <2>2. op.step = AfterLast
    BY <1>1, <1>2, <1>3, <2>1
  <2> QED
    BY <1>2, <2>2
<1>5. /\ UNCHANGED <<store, source, up, consensus, files, path>> /\ op' = NoOp
      /\ granted' = granted \cup {Delegation} /\ recent' = recent \cup {Delegation}
  BY DEF AddProxy
<1>6. /\ DOMAIN signers' = DOMAIN signers \cup {op.proxy} /\ signers'[op.proxy] = op.delegator
      /\ \A q \in DOMAIN signers : signers'[q] = signers[q]
  BY <1>2 DEF AddProxy
<1>7. /\ listed' \in [Modules -> SUBSET Proxies]
      /\ \A m \in Modules :
           listed'[m] = IF m = op.module THEN listed[m] \cup {op.proxy} ELSE listed[m]
  BY <1>3, Zenon DEF AddProxy, Inv, TypeOK
<1>8. /\ Delegation \in [proxy : Proxies, module : Modules, delegator : Keys]
      /\ Delegation.proxy = op.proxy
      /\ Delegation.module = op.module /\ Delegation.delegator = op.delegator
  BY <1>3 DEF Delegation
<1>9. TypeOK'
  BY <1>3, <1>5, <1>6, <1>7, <1>8 DEF Inv, TypeOK
<1>10. AfterLast' = AfterLast /\ \A q \in Proxies : \A k : Written(q, k)' <=> Written(q, k)
  BY <1>5, SameOrder DEF Written
<1>11. DiskInv' /\ OpInv'
  BY <1>5, <1>10 DEF Inv, DiskInv, OpInv
<1>12. MemoryInv'
  <2>1. /\ up' => consensus' = LoadKeys(source') /\ LoadKeys(source') # Failed
        /\ up'
    BY <1>1, <1>5 DEF Inv, MemoryInv
  <2>2. \A q \in DOMAIN signers' :
          path'[q] \in PathType /\ signers'[q] = path'[q].delegator /\ q \in listed'[path'[q].module]
    <3> SUFFICES ASSUME NEW q \in DOMAIN signers'
                 PROVE  path[q] \in PathType /\ signers'[q] = path[q].delegator
                        /\ q \in listed'[path[q].module]
      BY <1>5
    <3>1. CASE q = op.proxy
      BY <1>3, <1>6, <1>7, <3>1
    <3>2. CASE q # op.proxy
      <4>1. /\ q \in DOMAIN signers /\ path[q] \in PathType /\ signers[q] = path[q].delegator
            /\ q \in listed[path[q].module]
        BY <1>6, <3>2 DEF Inv, MemoryInv
      <4>2. path[q].module \in Modules
        BY <4>1 DEF PathType
      <4> QED
        BY <1>6, <1>7, <4>1, <4>2
    <3> QED
      BY <3>1, <3>2
  <2>3. \A m \in Modules : \A q \in listed'[m] : q \in DOMAIN signers' /\ path'[q].module = m
    BY <1>3, <1>5, <1>6, <1>7 DEF Inv, MemoryInv
  <2> QED
    BY <2>1, <2>2, <2>3 DEF MemoryInv
<1>13. GrantInv'
  <2>1. \A g \in granted : g.proxy \in Proxies
    BY DEF Inv, TypeOK
  <2>2. \A g \in granted :
          /\ path'[g.proxy] = [module |-> g.module, delegator |-> g.delegator]
          /\ store' # "none" => Written(g.proxy, AfterLast)' /\ (up' => g.proxy \in DOMAIN signers')
    BY <1>5, <1>6, <1>10, <2>1, Zenon DEF Inv, GrantInv
  <2>3. Written(op.proxy, AfterLast) => WrittenUpTo(files'[op.proxy], WriteOrder(store'), AfterLast')
    BY <1>5, <1>10 DEF Written
  <2>4. WrittenUpTo(files'[Delegation.proxy], WriteOrder(store'), AfterLast')
    BY <1>4, <1>8, <2>3
  <2>5. path'[Delegation.proxy] = [module |-> Delegation.module, delegator |-> Delegation.delegator]
    BY <1>2, <1>5, <1>8
  <2>6. Delegation.proxy \in DOMAIN signers'
    BY <1>6, <1>8
  <2> SUFFICES ASSUME NEW g \in granted'
               PROVE  /\ path'[g.proxy] = [module |-> g.module, delegator |-> g.delegator]
                      /\ store' # "none" => Written(g.proxy, AfterLast)' /\ (up' => g.proxy \in DOMAIN signers')
    BY Zenon DEF GrantInv
  <2>7. CASE g \in granted
    BY <2>2, <2>7
  <2>8. CASE g = Delegation
    <3>1. WrittenUpTo(files'[g.proxy], WriteOrder(store'), AfterLast')
      BY <2>4, <2>8
    <3> QED
      BY <2>5, <2>6, <2>8, <3>1 DEF Written
  <2> QED
    BY <1>5, <2>7, <2>8
<1>14. RecentInv'
  BY <1>5, <1>6, <1>8 DEF Inv, RecentInv
<1> QED
  BY <1>9, <1>11, <1>12, <1>13, <1>14 DEF Inv

LEMMA CrashKeeps == ASSUME Inv, Crash PROVE Inv'
<1>1. /\ up' = FALSE /\ op' = NoOp /\ consensus' = {} /\ signers' = <<>>
      /\ listed' = [m \in Modules |-> {}] /\ recent' = {}
      /\ UNCHANGED <<store, source, files, path, granted>>
  BY DEF Crash
<1>2. DOMAIN signers' = {} /\ \A m \in Modules : listed'[m] = {}
  BY <1>1
<1>3. TypeOK'
  BY <1>1, <1>2, Zenon DEF Inv, TypeOK
<1>4. AfterLast' = AfterLast /\ \A q \in Proxies : \A k : Written(q, k)' <=> Written(q, k)
  BY <1>1, SameOrder DEF Written
<1>5. DiskInv' /\ OpInv' /\ MemoryInv'
  BY <1>1, <1>2, <1>4 DEF Inv, DiskInv, OpInv, MemoryInv
<1>6. GrantInv'
  BY <1>1, <1>4, Zenon DEF Inv, GrantInv, TypeOK
<1>7. RecentInv'
  BY <1>1 DEF RecentInv
<1> QED
  BY <1>3, <1>5, <1>6, <1>7 DEF Inv

\* After a restart the maps are what the disk says.
LEMMA RestartKeeps == ASSUME Inv, Restart PROVE Inv'
<1>1. ~ up /\ Loadable /\ up' = TRUE /\ UNCHANGED <<store, op, files, path, granted, recent>>
  BY DEF Restart
<1>2. PICK src \in Sources : ManagerFrom(src)
  BY DEF Restart
<1>3. /\ LoadKeys(src) # Failed /\ source' = src /\ consensus' = LoadKeys(src)
      /\ signers' = [p \in Loaded |-> path[p].delegator]
      /\ listed' = [m \in Modules |-> {p \in Loaded : path[p].module = m}]
  BY <1>2 DEF ManagerFrom
<1>4. LoadKeys(src) \subseteq Keys
  BY <1>3, LoadedKeys
<1>5. Loaded \subseteq Proxies
  BY DEF Loaded, Found
<1>6. \A p \in Loaded : path[p] \in PathType
  <2> SUFFICES ASSUME NEW p \in Loaded PROVE path[p] \in PathType
    OBVIOUS
  <2>1. p \in Proxies /\ files[p][KeyFile(store)] # "absent" /\ KeyFile(store) \in FileKinds
    BY DEF Loaded, Found, KeyFile, FileKinds
  <2>2. files[p] # NoFiles
    BY <2>1 DEF NoFiles
  <2> QED
    BY <2>1, <2>2 DEF Inv, DiskInv
<1>7. \A p \in Loaded : path[p].module \in Modules /\ path[p].delegator \in Keys
  BY <1>6 DEF PathType
<1>8. listed' \in [Modules -> SUBSET Proxies] /\ DOMAIN signers' = Loaded
      /\ \A p \in Loaded : signers'[p] = path[p].delegator
  BY <1>3, <1>5
<1>9. TypeOK'
  BY <1>1, <1>3, <1>4, <1>5, <1>7, <1>8 DEF Inv, TypeOK
<1>10. AfterLast' = AfterLast /\ \A q \in Proxies : \A k : Written(q, k)' <=> Written(q, k)
  BY <1>1, SameOrder DEF Written
<1>11. op = NoOp
  BY <1>1 DEF Inv, OpInv
<1>12. DiskInv' /\ OpInv'
  BY <1>1, <1>10, <1>11 DEF Inv, DiskInv, OpInv
<1>13. MemoryInv'
  BY <1>1, <1>3, <1>6, <1>7, <1>8, SMTT(30) DEF MemoryInv
<1>14. GrantInv'
  <2>1. \A g \in granted : g.proxy \in Proxies
    BY DEF Inv, TypeOK
  <2>2. \A g \in granted : store # "none" => g.proxy \in Loaded
    BY <2>1, CompleteIsLoaded, Zenon DEF Inv, GrantInv
  <2> QED
    BY <1>1, <1>8, <1>10, <2>1, <2>2, Zenon DEF Inv, GrantInv
<1>15. RecentInv'
  <2>1. recent = {}
    BY <1>1 DEF Inv, MemoryInv, RecentInv
  <2> QED
    BY <1>1, <2>1 DEF RecentInv
<1> QED
  BY <1>9, <1>12, <1>13, <1>14, <1>15 DEF Inv

LEMMA NextInv == Inv /\ [Next]_vars => Inv'
<1> SUFFICES ASSUME Inv, [Next]_vars PROVE Inv'
  OBVIOUS
<1>1. CASE UNCHANGED vars
  BY <1>1 DEF vars, Inv, TypeOK, DiskInv, OpInv, MemoryInv, GrantInv, RecentInv, Written, AfterLast
<1>2. ASSUME NEW m \in Modules, NEW k \in Keys, NEW p \in Proxies, BeginCreate(m, k, p)
      PROVE  Inv'
  BY <1>2, BeginKeeps
<1>3. CASE CreateFile
  BY <1>3, CreateFileKeeps
<1>4. CASE WriteFile
  BY <1>4, WriteFileKeeps
<1>5. CASE FailStore
  BY <1>5, FailStoreKeeps
<1>6. CASE AddProxy
  BY <1>6, AddProxyKeeps
<1>7. CASE Crash
  BY <1>7, CrashKeeps
<1>8. CASE Restart
  BY <1>8, RestartKeeps
<1> QED
  BY <1>1, <1>2, <1>3, <1>4, <1>5, <1>6, <1>7, <1>8 DEF Next

LEMMA Invariance == Spec => []Inv
  BY InitInv, NextInv, PTL DEF Spec

-----------------------------------------------------------------------------
(***************************************************************************)
(* The manager's maps, the files of the store and the creation at work     *)
(* keep their types, whatever crashes and write failures there are.        *)
(***************************************************************************)
THEOREM TypeCorrect == Spec => []TypeOK
<1>1. Inv => TypeOK
  BY DEF Inv
<1> QED
  BY <1>1, Invariance, PTL

(***************************************************************************)
(* With a proxy store, a service that is up signs with every proxy key it  *)
(* ever granted, for the module and consensus key it was granted for:      *)
(* add_proxy_signer runs after the last file is written, and load_proxies  *)
(* finds whatever was written to the end.                                  *)
(***************************************************************************)
THEOREM GrantsPersist == Spec => []GrantedSurvive
<1>1. Inv => GrantedSurvive
  <2> SUFFICES ASSUME Inv, store # "none", up, NEW g \in granted
               PROVE  /\ g.proxy \in listed[g.module] /\ g.proxy \in DOMAIN signers
                      /\ signers[g.proxy] = g.delegator
    BY DEF GrantedSurvive
  <2>1. /\ path[g.proxy] = [module |-> g.module, delegator |-> g.delegator]
        /\ g.proxy \in DOMAIN signers
    BY DEF Inv, GrantInv
  <2>2. path[g.proxy].module = g.module /\ path[g.proxy].delegator = g.delegator
    BY <2>1
  <2> QED
    BY <2>1, <2>2 DEF Inv, MemoryInv
<1> QED
  BY <1>1, Invariance, PTL

(***************************************************************************)
(* load_proxies fails only on a key file that a creation left torn, of a   *)
(* proxy never granted: store_proxy_bls and store_proxy_ecdsa complete     *)
(* password and delegation before the key file they are found by exists.   *)
(***************************************************************************)
THEOREM TornKeysBlock == Spec => []OnlyTornKeysBlock
<1>1. Inv => OnlyTornKeysBlock
  <2> SUFFICES ASSUME Inv, ~ Loadable
               PROVE  \E p \in Found : /\ files[p][KeyFile(store)] = "torn"
                                       /\ \A g \in granted : g.proxy # p
    BY DEF OnlyTornKeysBlock
  <2>1. PICK p \in Found : ~ Readable(p)
    BY DEF Loadable
  <2>2. p \in Proxies /\ store # "none"
    BY DEF Found
  <2>3. PICK n \in 1..AfterLast : Written(p, n)
    BY <2>2 DEF Inv, DiskInv
  <2>4. files[p][KeyFile(store)] = "torn"
    BY <2>1, <2>2, <2>3, KeyFileLast DEF Inv
  <2>5. ASSUME NEW g \in granted PROVE g.proxy # p
    <3>1. Written(g.proxy, AfterLast)
      BY <2>2, Zenon DEF Inv, GrantInv
    <3> QED
      BY <2>2, <2>4, <3>1, CompleteIsLoaded DEF Inv
  <2> QED
    BY <2>4, <2>5
<1> QED
  BY <1>1, Invariance, PTL

(***************************************************************************)
(* get_consensus_proxy_maps shows a module its own proxies only, each      *)
(* under the key it was created for, and every proxy it was granted since  *)
(* the last start, or ever if there is a store.  It fails only when such a *)
(* key is gone or, in a format that skips what does not open, cannot be    *)
(* loaded.                                                                 *)
(***************************************************************************)
THEOREM OwnProxiesListed == Spec => []ListedRightly
<1>1. Inv => ListedRightly
  <2> SUFFICES ASSUME Inv, up, NEW m \in Modules
               PROVE  /\ \A k \in consensus : \A p \in ConsensusProxyMaps(m)[k] :
                           path[p] = [module |-> m, delegator |-> k]
                      /\ ~ MapsFail(m) =>
                           \A g \in recent \cup (IF store = "none" THEN {} ELSE granted) :
                             g.module = m => /\ g.delegator \in consensus
                                             /\ g.proxy \in ConsensusProxyMaps(m)[g.delegator]
                      /\ MapsFail(m) => \E p \in listed[m] :
                           /\ path[p].delegator \notin consensus
                           /\ source.format \in OneFile =>
                                \A e \in source.entries : e.holds # path[p].delegator
    BY Zenon DEF ListedRightly
  <2>1. ASSUME NEW p \in listed[m]
        PROVE  /\ p \in DOMAIN signers /\ path[p] \in PathType
               /\ path[p].module = m /\ signers[p] = path[p].delegator
    BY DEF Inv, MemoryInv
  <2>2. ASSUME NEW k \in consensus, NEW p \in ConsensusProxyMaps(m)[k]
        PROVE  path[p] = [module |-> m, delegator |-> k]
    <3>1. p \in listed[m] /\ signers[p] = k
      BY DEF ConsensusProxyMaps
    <3>2. path[p] \in PathType /\ path[p].module = m /\ path[p].delegator = k
      BY <2>1, <3>1
    <3> QED
      BY <3>2 DEF PathType
  <2>3. ASSUME MapsFail(m)
        PROVE  \E p \in listed[m] :
                 /\ path[p].delegator \notin consensus
                 /\ source.format \in OneFile =>
                      \A e \in source.entries : e.holds # path[p].delegator
    <3>1. PICK p \in listed[m] : p \notin DOMAIN signers \/ signers[p] \notin consensus
      BY <2>3 DEF MapsFail
    <3>2. path[p].delegator \notin consensus
      BY <2>1, <3>1
    <3>3. source \in Sources /\ LoadKeys(source) # Failed /\ consensus = LoadKeys(source)
      BY DEF Inv, TypeOK, MemoryInv
    <3> QED
      BY <3>2, <3>3, LoadedKeys
  <2>4. ASSUME ~ MapsFail(m), NEW g \in recent \cup (IF store = "none" THEN {} ELSE granted),
               g.module = m
        PROVE  g.delegator \in consensus /\ g.proxy \in ConsensusProxyMaps(m)[g.delegator]
    <3>1. g \in granted
      BY DEF Inv, TypeOK
    <3>2. g.proxy \in DOMAIN signers
      BY Zenon DEF Inv, GrantInv, RecentInv
    <3>3. path[g.proxy].module = m /\ path[g.proxy].delegator = g.delegator
      <4>1. path[g.proxy] = [module |-> g.module, delegator |-> g.delegator]
        BY <3>1, Zenon DEF Inv, GrantInv
      <4> QED
        BY <2>4, <4>1
    <3>4. g.proxy \in listed[m] /\ signers[g.proxy] = g.delegator
      BY <3>2, <3>3 DEF Inv, MemoryInv
    <3>5. g.delegator \in consensus
      BY <2>4, <3>4 DEF MapsFail
    <3> QED
      BY <3>4, <3>5 DEF ConsensusProxyMaps
  <2> QED
    BY <2>2, <2>3, <2>4
<1> QED
  BY <1>1, Invariance, PTL
=============================================================================
