------------------------------ MODULE PbsState ------------------------------
(***************************************************************************)
(* The shared state of the PBS service: requests clone it when they come,  *)
(* reloads read the configuration file, wait for the mux key loaders and   *)
(* then replace it (crates/pbs/src/state.rs, routes/ and                   *)
(* mev_boost/reload.rs).  A validator's get_header and the submit_block    *)
(* that follows it each work on the state they found.                      *)
(***************************************************************************)
EXTENDS PbsConfig

CONSTANTS
  Files,          \* contents the configuration file may have
  LoaderAnswers,  \* pubkeys the loaders may answer: one sequence per mux
  LoaderFails,    \* the answer of a loader that failed
  Validators,     \* proposers whose beacon nodes use the service
  Reloads,        \* reload requests that may be served at the same time
  MaxEdits        \* bound: how often the file is edited

\* The parsed file has a list of relays and a list of muxes.
ASSUME PbsAssumption ==
  /\ MaxEdits \in Nat
  /\ \A f \in Files : f.relays \in Seq(Range(f.relays)) /\ f.muxes \in Seq(Range(f.muxes))

VARIABLES
  file,        \* the content of the configuration file
  edits,       \* how often it has been edited: the version of its content
  state,       \* the shared PbsState
  source,      \* [file, edit]: the content and version it was read from
  reloads,     \* reload -> [pc, file, edit]
  calls        \* validator -> its get_header / submit_block in progress

vars == <<file, edits, state, source, reloads, calls>>

NoCall == [pc |-> "idle", url |-> "none", edit |-> 0, relays |-> {}, asked |-> {},
           sameFile |-> FALSE]

NoReload == [pc |-> "idle", file |-> CHOOSE f \in Files : TRUE, edit |-> 0]

Answers == LoaderAnswers \cup {LoaderFails}

Init ==
  /\ file \in {f \in Files : \E a \in LoaderAnswers : Loads(f, a)}
  /\ edits = 0
  /\ \E a \in LoaderAnswers : Loads(file, a) /\ state = Runtime(file, a)
  /\ source = [file |-> file, edit |-> 0]
  /\ reloads = [p \in Reloads |-> NoReload]
  /\ calls = [v \in Validators |-> NoCall]

\* The operator writes another content to the file.
EditFile ==
  /\ edits < MaxEdits
  /\ file' \in Files \ {file}
  /\ edits' = edits + 1
  /\ UNCHANGED <<state, source, reloads, calls>>

(***************************************************************************)
(* handle_reload: the file is read at once; the loaders, and the checks    *)
(* after them, come later; the write of the state is the last step.        *)
(***************************************************************************)
BeginReload(p) ==
  /\ reloads[p].pc = "idle"
  /\ reloads' = [reloads EXCEPT ![p] = [pc |-> "loading", file |-> file, edit |-> edits]]
  /\ UNCHANGED <<file, edits, state, source, calls>>

EndReload(p, answer) ==
  /\ reloads[p].pc = "loading"
  /\ IF answer # LoaderFails /\ Loads(reloads[p].file, answer)
     THEN /\ state' = Runtime(reloads[p].file, answer)
          /\ source' = [file |-> reloads[p].file, edit |-> reloads[p].edit]
     ELSE UNCHANGED <<state, source>>
  /\ reloads' = [reloads EXCEPT ![p] = NoReload]
  /\ UNCHANGED <<file, edits, calls>>

(***************************************************************************)
(* handle_get_header works on the relays of the state it cloned, and a     *)
(* relay of these wins; handle_submit_block asks all relays of the state   *)
(* it finds when it comes.                                                 *)
(***************************************************************************)
BeginGetHeader(v) ==
  /\ calls[v].pc = "idle"
  /\ calls' = [calls EXCEPT ![v] =
       [NoCall EXCEPT !.pc = "asking",
                      !.relays = Urls(MuxConfigAndRelays(state, v).relays),
                      !.edit = source.edit]]
  /\ UNCHANGED <<file, edits, state, source, reloads>>

EndGetHeader(v) ==
  /\ calls[v].pc = "asking"
  /\ \/ \E u \in calls[v].relays :
          calls' = [calls EXCEPT ![v].pc = "header", ![v].url = u]
     \/ calls' = [calls EXCEPT ![v] = NoCall]
  /\ UNCHANGED <<file, edits, state, source, reloads>>

SubmitBlock(v) ==
  /\ calls[v].pc = "header"
  /\ calls' = [calls EXCEPT ![v].pc = "submitted",
                            ![v].asked = {r.url : r \in state.all},
                            ![v].sameFile = (calls[v].edit = source.edit)]
  /\ UNCHANGED <<file, edits, state, source, reloads>>

EndCall(v) ==
  /\ calls[v].pc \in {"header", "submitted"}
  /\ calls' = [calls EXCEPT ![v] = NoCall]
  /\ UNCHANGED <<file, edits, state, source, reloads>>

Next ==
  \/ EditFile
  \/ \E p \in Reloads : BeginReload(p) \/ \E a \in Answers : EndReload(p, a)
  \/ \E v \in Validators :
       BeginGetHeader(v) \/ EndGetHeader(v) \/ SubmitBlock(v) \/ EndCall(v)

Spec == Init /\ [][Next]_vars

-----------------------------------------------------------------------------
AllUrls(f) == {r.url : r \in AllRelays(f)}
FileUrls == UNION {AllUrls(f) : f \in Files}

TypeOK ==
  /\ file \in Files /\ edits \in 0..MaxEdits
  /\ source.file \in Files /\ source.edit \in 0..edits
  /\ reloads \in [Reloads -> [pc : {"idle", "loading"}, file : Files, edit : 0..MaxEdits]]
  /\ calls \in [Validators ->
       [pc : {"idle", "asking", "header", "submitted"}, url : FileUrls \cup {"none"},
        edit : 0..MaxEdits, relays : SUBSET FileUrls, asked : SUBSET FileUrls,
        sameFile : BOOLEAN]]

(***************************************************************************)
(* Whatever was written to the file and whatever the loaders answered, the *)
(* configuration that requests see is one to run on: every validator has   *)
(* relays, a timeout that ends before the slot is late, and no relay it    *)
(* may take a header from is missing in the list blocks are sent to, where *)
(* every URL occurs once.                                                  *)
(***************************************************************************)
RunningConfigSound ==
  /\ \A r, q \in state.all : r.url = q.url => r = q
  /\ \A v \in Validators :
       LET mux == MuxConfigAndRelays(state, v)
       IN  /\ mux.relays # <<>>
           /\ 0 < mux.config.timeout /\ mux.config.timeout < mux.config.late
           /\ Urls(mux.relays) \subseteq {r.url : r \in state.all}

(***************************************************************************)
(* A validator that the file in force lists under a mux is served with     *)
(* exactly that mux's relays, though another mux's loader may name the     *)
(* same key: such a reload fails and leaves the state alone.               *)
(***************************************************************************)
MuxSeparation ==
  \A i \in DOMAIN source.file.muxes : \A v \in Range(source.file.muxes[i].keys) :
    MuxConfigAndRelays(state, v).relays = source.file.muxes[i].relays

(***************************************************************************)
(* The relay whose header a validator signed is among those its block is   *)
(* sent to, even if reloads of the same file came between the two          *)
(* requests and moved the validator to another mux.                        *)
(***************************************************************************)
PayloadRelayAsked ==
  \A v \in Validators :
    (calls[v].pc = "submitted" /\ calls[v].sameFile) => calls[v].url \in calls[v].asked
=============================================================================
