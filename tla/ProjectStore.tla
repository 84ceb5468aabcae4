----------------------------- MODULE ProjectStore -----------------------------
(***************************************************************************)
(* memory/project_store.py under the verbs that drive it: init             *)
(* (orchestration/workflows/init.py), reset (workflows/reset.py) and the   *)
(* engine resolution of run/test (anchor_resolution.py), as processes that *)
(* interleave at system calls and may crash between them.                  *)
(*                                                                         *)
(* A TREE is one .novetest directory; it is live, or renamed to a          *)
(* .novetest.deleting.* name ("staged"), or removed.  In a tree, the names *)
(* store.json and store.json.tmp refer to FILES.  Trees and files are      *)
(* named after the process and the call that makes them:                   *)
(* create_project_store for the EXISTING store, of an init without an      *)
(* engine, or for the CHOSEN engine, and set_pinned_engine.                *)
(***************************************************************************)
EXTENDS Naturals, FiniteSets

CONSTANTS
  Inits, Resets, Runners,  \* invocations of `init`, `reset` and `run`/`test`
  Supported,               \* SUPPORTED_ENGINE_PAIRS
  FirstPins,               \* pins the store at the start may have, NoPin for a
                           \* legacy store.  They need not be supported: the
                           \* reader accepts pins of newer releases.
  Choice,                  \* what choose_workspace_engine (D1) answers here,
                           \* NoPin when markers are missing or ambiguous
  AutoEngine,              \* `init` without --engine
  Size,                    \* [Pins -> rank of the length of metadata with that
                           \* pin]; lengths that differ by the final newline
                           \* have one rank
  Overlap,                 \* may a verb begin while another one runs?
  NoPin, NoFile, NoTree, First

Procs == Inits \cup Resets \cup Runners
Calls == {"existing", "chosen"}
Trees == (Procs \X Calls) \cup {First}
Pins  == Supported \cup FirstPins \cup {NoPin}
Files == (Procs \X (Calls \cup {"pin"})) \cup {First}

ASSUME StoreConstants ==
  /\ Inits \cap Resets = {} /\ Inits \cap Runners = {} /\ Resets \cap Runners = {}
  /\ First \notin Procs \X (Calls \cup {"pin"}) /\ NoTree \notin Trees /\ NoFile \notin Files
  /\ NoPin \notin Supported /\ AutoEngine \notin Pins /\ "torn" \notin Trees
  /\ Choice \in Supported \cup {NoPin} /\ Size \in [Pins -> Nat]
  /\ Overlap \in BOOLEAN

VARIABLES
  live,     \* the tree called .novetest, or NoTree
  staged,   \* trees under a .novetest.deleting.* name
  meta,     \* [Trees -> the file its store.json refers to]
  tmp,      \* [Trees -> the file its store.json.tmp refers to]
  file,     \* [Files -> what is in it]
  runs,     \* [Trees -> run evidence in it, named by the runner that stored it]
  pc,       \* [Procs -> next step]
  want,     \* [Procs -> the engine it pins, AutoEngine while undecided]
  text,     \* [Procs -> the metadata it is about to write]
  fd,       \* [Procs -> the file it holds open]
  cut,      \* [Procs -> the tree it detached, NoTree before that]
  pinned,   \* history: [Procs -> the pin a reset found when it began]
  crossed   \* history: has a verb opened the staging file of store.json while
            \* another one was between its open and its replace?

diskVars == <<live, staged, meta, tmp, file, runs>>
vars     == <<live, staged, meta, tmp, file, runs, pc, want, text, fd, cut, pinned, crossed>>
-----------------------------------------------------------------------------
\* initialized_at is told apart by the call that created the metadata.
Metadata == [born : Trees, pin : Pins]

\* A file that is no JSON: opened and not yet written, or written over a longer
\* text, of metadata with that pin, whose end it keeps.
Opened == [born |-> "torn", pin |-> "none"]
Torn   == {Opened} \cup [born : {"torn"}, pin : Pins]

Staging == {"write", "replace", "pin_write", "pin_replace"}
Steps == {"peek", "choose", "sweep", "exists", "readback", "skeleton", "open", "pin_read", "pin_open",
          "locate", "load", "wipe_sweep", "wipe_check", "wipe_read", "detach", "rmtree", "check", "mkdir"}
         \cup Staging
Ended == {"done", "refused", "corrupt", "failed", "wipe_failed", "crashed"}

StoreTypeOK ==
  /\ live \in Trees \cup {NoTree}
  /\ staged \subseteq Trees
  /\ meta \in [Trees -> Files \cup {NoFile}]
  /\ tmp \in [Trees -> Files \cup {NoFile}]
  /\ file \in [Files -> Metadata \cup Torn]
  /\ runs \in [Trees -> SUBSET Runners]
  /\ pc \in [Procs -> {"idle"} \cup Steps \cup Ended]
  /\ want \in [Procs -> Pins \cup {AutoEngine}]
  /\ text \in [Procs -> Metadata \cup {Opened}]
  /\ fd \in [Procs -> Files \cup {NoFile}]
  /\ cut \in [Procs -> Trees \cup {NoTree}]
  /\ pinned \in [Procs -> Pins]
  /\ crossed \in BOOLEAN

\* store.json is there / what it says.
IsStore    == live # NoTree /\ meta[live] # NoFile
OnDisk     == file[meta[live]]
IsReadable == IsStore /\ OnDisk.born # "torn"

InFlight(p) == pc[p] \in Steps

\* An initialised workspace, or one where nothing was created yet.
Init ==
  /\ live \in {First, NoTree}
  /\ staged = {}
  /\ meta = [t \in Trees |-> IF t = live THEN First ELSE NoFile]
  /\ tmp  = [t \in Trees |-> NoFile]
  /\ \E first \in FirstPins :
       file = [f \in Files |-> IF f = First THEN [born |-> First, pin |-> first] ELSE Opened]
  /\ runs = [t \in Trees |-> {}]
  /\ pc   = [p \in Procs |-> "idle"]
  /\ want = [p \in Procs |-> AutoEngine]
  /\ text = [p \in Procs |-> Opened]
  /\ fd   = [p \in Procs |-> NoFile]
  /\ cut  = [p \in Procs |-> NoTree]
  /\ pinned = [p \in Procs |-> NoPin]
  /\ crossed = FALSE

Goes(p, from, to) == pc[p] = from /\ pc' = [pc EXCEPT ![p] = to]

\* _sweep_staging_residue: every tree under a staging name is removed.
Sweeps == staged' = {}
-----------------------------------------------------------------------------
(* The verbs begin *)

Begin(p, first) ==
  /\ Goes(p, "idle", first)
  /\ Overlap \/ \A q \in Procs : ~InFlight(q)
  /\ UNCHANGED <<diskVars, text, fd, cut, pinned, crossed>>

BeginInit(p) ==
  \E e \in Supported \cup {AutoEngine} :
    /\ want' = [want EXCEPT ![p] = e]
    /\ Begin(p, IF e = AutoEngine THEN "peek" ELSE "sweep")

BeginOther(p) ==
  /\ Begin(p, "locate")
  /\ UNCHANGED want

\* _existing_store_metadata: an init without --engine reads the store that is
\* there by create_project_store.
Peek(p) ==
  /\ Goes(p, "peek", IF IsStore THEN "sweep" ELSE "choose")
  /\ UNCHANGED <<diskVars, want, text, fd, cut, pinned, crossed>>

\* There was no pin to govern: D1 chooses.
Choose(p) ==
  /\ Goes(p, "choose", IF Choice = NoPin THEN "refused" ELSE "sweep")
  /\ want' = [want EXCEPT ![p] = Choice]
  /\ UNCHANGED <<diskVars, text, fd, cut, pinned, crossed>>

\* locate_project_store: is there a store?  A reset of nothing sweeps first.
Locate(p) ==
  /\ Goes(p, "locate", IF IsStore THEN "load" ELSE "refused")
  /\ IF p \in Resets /\ ~IsStore THEN Sweeps ELSE UNCHANGED staged
  /\ UNCHANGED <<live, meta, tmp, file, runs, want, text, fd, cut, pinned, crossed>>

\* Mutant: the D1 choice is preferred to the pin.
LoadByChoice(p) ==
  LET engine == IF Choice # NoPin THEN Choice ELSE OnDisk.pin
  IN  /\ Goes(p, "load",
              IF ~IsReadable THEN "corrupt"
              ELSE IF engine = NoPin THEN "refused"
              ELSE IF p \in Resets THEN "wipe_sweep"
              ELSE IF engine \notin Supported THEN "refused"
              ELSE IF OnDisk.pin = NoPin THEN "pin_read" ELSE "check")
      /\ want' = IF IsReadable THEN [want EXCEPT ![p] = engine] ELSE want
      /\ pinned' = IF IsReadable THEN [pinned EXCEPT ![p] = OnDisk.pin] ELSE pinned
      /\ UNCHANGED <<diskVars, text, fd, cut, crossed>>

\* What it says, and then the engine: the pin, else the D1 choice.  A runner
\* goes on to migrate or to store.
Load(p) ==
  LET engine == IF OnDisk.pin # NoPin THEN OnDisk.pin ELSE Choice
  IN  /\ Goes(p, "load",
              IF ~IsReadable THEN "corrupt"
              ELSE IF engine = NoPin THEN "refused"
              ELSE IF p \in Resets THEN "wipe_sweep"
              ELSE IF engine \notin Supported THEN "refused"
              ELSE IF OnDisk.pin = NoPin THEN "pin_read" ELSE "check")
      /\ want' = IF IsReadable THEN [want EXCEPT ![p] = engine] ELSE want
      /\ pinned' = IF IsReadable THEN [pinned EXCEPT ![p] = OnDisk.pin] ELSE pinned
      /\ UNCHANGED <<diskVars, text, fd, cut, crossed>>
-----------------------------------------------------------------------------
(* create_project_store *)

\* The call of it that p is in: an init that has not decided yet reads what
\* exists, or, when that has just gone, creates it.
Call(p) == <<p, IF want[p] = AutoEngine THEN "existing" ELSE "chosen">>
Created(p) == IF want[p] = AutoEngine THEN "choose" ELSE "pin_read"

Sweep(p) ==
  /\ Goes(p, "sweep", "exists")
  /\ Sweeps
  /\ UNCHANGED <<live, meta, tmp, file, runs, want, text, fd, cut, pinned, crossed>>

Exists(p) ==
  /\ Goes(p, "exists", IF IsStore THEN "readback" ELSE "skeleton")
  /\ UNCHANGED <<diskVars, want, text, fd, cut, pinned, crossed>>

\* Mutant: any store counts as pinned.
ReadBackAsPinned(p) ==
  /\ Goes(p, "readback", IF ~IsReadable THEN "corrupt"
                         ELSE IF want[p] = AutoEngine THEN "done" ELSE "pin_read")
  /\ UNCHANGED <<diskVars, want, text, fd, cut, pinned, crossed>>

\* The store was there; its pin ends an init that named no engine.
ReadBack(p) ==
  /\ Goes(p, "readback", IF ~IsReadable THEN "corrupt"
                         ELSE IF want[p] = AutoEngine /\ OnDisk.pin # NoPin THEN "done" ELSE Created(p))
  /\ UNCHANGED <<diskVars, want, text, fd, cut, pinned, crossed>>

\* mkdir(exist_ok=True) completes whatever skeleton is there.
MakeSkeleton(p) ==
  /\ Goes(p, "skeleton", "open")
  /\ live' = IF live = NoTree THEN Call(p) ELSE live
  /\ text' = [text EXCEPT ![p] = [born |-> Call(p), pin |-> NoPin]]
  /\ UNCHANGED <<staged, meta, tmp, file, runs, want, fd, cut, pinned, crossed>>
-----------------------------------------------------------------------------
(* _atomic_write_json: open store.json.tmp, write, os.replace *)

\* The staging file is being written by another verb, too.
Crosses(p) == live # NoTree /\ \E q \in Procs \ {p} : pc[q] \in Staging

\* Mutant: store.json itself is opened for writing, no staging file.
OpenTmpInPlace(p, from, to, mine) ==
  /\ Goes(p, from, IF live # NoTree THEN to ELSE "failed")
  /\ IF live # NoTree
     THEN LET f == IF meta[live] = NoFile THEN mine ELSE meta[live]
          IN  /\ tmp' = [tmp EXCEPT ![live] = f]
              /\ meta' = [meta EXCEPT ![live] = f]
              /\ file' = [file EXCEPT ![f] = Opened]
              /\ fd' = [fd EXCEPT ![p] = f]
     ELSE UNCHANGED <<meta, tmp, file, fd>>
  /\ crossed' = (crossed \/ Crosses(p))
  /\ UNCHANGED <<live, staged, runs, want, text, cut, pinned>>

\* Mutant: the staging file a crash left is not truncated.
OpenTmpKeeping(p, from, to, mine) ==
  /\ Goes(p, from, IF live # NoTree THEN to ELSE "failed")
  /\ IF live # NoTree
     THEN LET f == IF tmp[live] = NoFile THEN mine ELSE tmp[live]
          IN  /\ tmp' = [tmp EXCEPT ![live] = f]
              /\ file' = [file EXCEPT ![f] = IF tmp[live] = NoFile THEN Opened ELSE @]
              /\ fd' = [fd EXCEPT ![p] = f]
     ELSE UNCHANGED <<tmp, file, fd>>
  /\ crossed' = (crossed \/ Crosses(p))
  /\ UNCHANGED <<live, staged, meta, runs, want, text, cut, pinned>>

\* open(..., "w"): created, or truncated for everybody who holds it open.
OpenTmp(p, from, to, mine) ==
  /\ Goes(p, from, IF live # NoTree THEN to ELSE "failed")
  /\ IF live # NoTree
     THEN LET f == IF tmp[live] = NoFile THEN mine ELSE tmp[live]
          IN  /\ tmp' = [tmp EXCEPT ![live] = f]
              /\ file' = [file EXCEPT ![f] = Opened]
              /\ fd' = [fd EXCEPT ![p] = f]
     ELSE UNCHANGED <<tmp, file, fd>>
  /\ crossed' = (crossed \/ Crosses(p))
  /\ UNCHANGED <<live, staged, meta, runs, want, text, cut, pinned>>

\* What a file with old in it holds once new is written from its first byte.
Over(old, new) ==
  IF old # Opened /\ Size[old.pin] > Size[new.pin] THEN [born |-> "torn", pin |-> old.pin] ELSE new

\* Each descriptor has an offset of its own: the write starts at the first byte
\* whatever another writer has put there, and does not shorten the file.
WriteTmp(p, from, to) ==
  /\ Goes(p, from, to)
  /\ file' = [file EXCEPT ![fd[p]] = Over(@, text[p])]
  /\ UNCHANGED <<live, staged, meta, tmp, runs, want, text, fd, cut, pinned, crossed>>

Replace(p, from, to) ==
  LET there == live # NoTree /\ tmp[live] # NoFile
  IN  /\ Goes(p, from, IF there THEN to ELSE "failed")
      /\ IF there
         THEN /\ meta' = [meta EXCEPT ![live] = tmp[live]]
              /\ tmp' = [tmp EXCEPT ![live] = NoFile]
         ELSE UNCHANGED <<meta, tmp>>
      /\ UNCHANGED <<live, staged, file, runs, want, text, fd, cut, pinned, crossed>>

Create(p) ==
  \/ OpenTmp(p, "open", "write", Call(p))
  \/ WriteTmp(p, "write", "replace")
  \/ Replace(p, "replace", Created(p))
-----------------------------------------------------------------------------
(* set_pinned_engine: validate the pair, re-read store.json, write it back.  *)
(* Nothing holds the store between the read and the write.                   *)

PinRead(p) ==
  /\ Goes(p, "pin_read",
          IF want[p] \notin Supported THEN "failed"
          ELSE IF IsReadable THEN "pin_open" ELSE "corrupt")
  /\ text' = IF want[p] \in Supported /\ IsReadable
             THEN [text EXCEPT ![p] = [OnDisk EXCEPT !.pin = want[p]]] ELSE text
  /\ UNCHANGED <<diskVars, want, fd, cut, pinned, crossed>>

Pin(p) ==
  \/ PinRead(p)
  \/ OpenTmp(p, "pin_open", "pin_write", <<p, "pin">>)
  \/ WriteTmp(p, "pin_write", "pin_replace")
  \/ Replace(p, "pin_replace", IF p \in Runners THEN "check" ELSE "done")
-----------------------------------------------------------------------------
(* wipe_project_store *)

WipeSweep(p) ==
  /\ Goes(p, "wipe_sweep", "wipe_check")
  /\ Sweeps
  /\ UNCHANGED <<live, meta, tmp, file, runs, want, text, fd, cut, pinned, crossed>>

WipeCheck(p) ==
  /\ Goes(p, "wipe_check", IF IsStore THEN "wipe_read" ELSE "refused")
  /\ UNCHANGED <<diskVars, want, text, fd, cut, pinned, crossed>>

WipeRead(p) ==
  /\ Goes(p, "wipe_read", IF IsReadable THEN "detach" ELSE "corrupt")
  /\ UNCHANGED <<diskVars, want, text, fd, cut, pinned, crossed>>

\* Path.rename(.novetest, .novetest.deleting.<ulid>)
Detach(p) ==
  /\ Goes(p, "detach", IF live # NoTree THEN "rmtree" ELSE "wipe_failed")
  /\ live' = NoTree
  /\ staged' = staged \cup ({live} \ {NoTree})
  /\ cut' = [cut EXCEPT ![p] = live]
  /\ UNCHANGED <<meta, tmp, file, runs, want, text, fd, pinned, crossed>>

\* Mutant: reset re-pins without re-creating the store.
RmtreeThenPin(p) ==
  /\ Goes(p, "rmtree", IF cut[p] \in staged THEN "pin_read" ELSE "wipe_failed")
  /\ staged' = staged \ {cut[p]}
  /\ UNCHANGED <<live, meta, tmp, file, runs, want, text, fd, cut, pinned, crossed>>

\* rmtree(ignore_errors=False): a tree somebody else removed is an error.
Rmtree(p) ==
  /\ Goes(p, "rmtree", IF cut[p] \in staged THEN "sweep" ELSE "wipe_failed")
  /\ staged' = staged \ {cut[p]}
  /\ UNCHANGED <<live, meta, tmp, file, runs, want, text, fd, cut, pinned, crossed>>

Wipe(p) == WipeSweep(p) \/ WipeCheck(p) \/ WipeRead(p) \/ Detach(p) \/ Rmtree(p)
-----------------------------------------------------------------------------
(* store_run_evidence: is the store still initialised?  then mkdir(parents) *)

Check(p) ==
  /\ Goes(p, "check", IF IsStore THEN "mkdir" ELSE "refused")
  /\ UNCHANGED <<diskVars, want, text, fd, cut, pinned, crossed>>

StoreRun(p) ==
  /\ Goes(p, "mkdir", "done")
  /\ live' = IF live = NoTree THEN Call(p) ELSE live
  /\ runs' = [runs EXCEPT ![live'] = @ \cup {p}]
  /\ UNCHANGED <<staged, meta, tmp, file, want, text, fd, cut, pinned, crossed>>

\* A crash; also an rmtree that meets an undeletable file, which ends the verb
\* at the same place with the same disk.
Crash(p) ==
  /\ InFlight(p)
  /\ pc' = [pc EXCEPT ![p] = "crashed"]
  /\ UNCHANGED <<diskVars, want, text, fd, cut, pinned, crossed>>

Step(p) ==
  \/ Peek(p) \/ Choose(p) \/ Locate(p) \/ Load(p)
  \/ Sweep(p) \/ Exists(p) \/ ReadBack(p) \/ MakeSkeleton(p) \/ Create(p) \/ Pin(p)
  \/ Wipe(p) \/ Check(p) \/ StoreRun(p)

Next ==
  \/ \E p \in Inits : BeginInit(p)
  \/ \E p \in Resets \cup Runners : BeginOther(p)
  \/ \E p \in Procs : Step(p) \/ Crash(p)

Spec == Init /\ [][Next]_vars

\* A verb that has begun runs on unless it crashes; beginning is the user's.
FairSpec == Spec /\ \A p \in Procs : WF_vars(Step(p))
-----------------------------------------------------------------------------
(* What a verb alone guarantees: no lock keeps two verbs apart, so these     *)
(* hold with Overlap = FALSE, verbs one after the other, each crashing       *)
(* anywhere.                                                                 *)

\* XCT-04: no crash of a verb leaves a torn store.json.
MetaNeverTorn == IsStore => IsReadable

\* "reset never destroys state it cannot rebuild": a reset that took the store
\* away ends, unless it crashes, with a readable store.  It ends in success but
\* for the pin of a newer release, which set_pinned_engine refuses after the
\* wipe, although reset_project_workspace says it cannot fail: that pin is lost.
ResetRebuilds ==
  [][\A p \in Resets :
       InFlight(p) /\ cut[p] # NoTree /\ pc'[p] \in Ended \ {"crashed"} =>
         /\ IsReadable'
         /\ \/ pc'[p] = "done"
            \/ pc'[p] = "failed" /\ pinned[p] \notin Supported \cup {NoPin} /\ OnDisk'.pin = NoPin]_vars

\* A pc step of p that ends its verb with success.
Succeeds(p) == InFlight(p) /\ pc'[p] = "done"

\* The re-created store carries the pin of the old one, or the D1 choice when
\* the old one was a legacy store.
PinSurvivesReset ==
  [][\A p \in Resets : Succeeds(p) =>
       OnDisk'.pin = IF pinned[p] # NoPin THEN pinned[p] ELSE Choice]_vars

\* An init that has begun, and may pin something, makes the workspace ready.
InitRecovers ==
  \A p \in Inits :
    pc[p] \in {"peek", "sweep"} ~>
      \/ pc[p] \in {"crashed", "refused"}
      \/ IsReadable /\ OnDisk.pin # NoPin

(* Verbs that overlap *)

\* _atomic_write_json: no crash and no reader beside a writer makes store.json
\* torn.  It takes two writers, the second of which opens the staging file the
\* first has not replaced yet; then store.json may stay torn for good.
TornNeedsTwoWriters == IsStore /\ ~crossed => IsReadable
=============================================================================
