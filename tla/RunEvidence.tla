----------------------------- MODULE RunEvidence -----------------------------
(***************************************************************************)
(* memory/store.py: run evidence as files, touched by concurrent CLI       *)
(* processes that may crash between any two system calls.                  *)
(*                                                                         *)
(* One run is one directory, moved by rename from memory/runs/ ("live") to *)
(* memory/tombstones/ ("tomb"), or carried off with the whole store by a   *)
(* reset ("wiped").  In the directory two names matter: record.json and    *)
(* its staging sibling record.json.tmp.  A name refers to a FILE (an       *)
(* inode): a process that opened a file keeps writing to it after the name *)
(* was renamed, which is what makes a shared staging name dangerous.  A    *)
(* process creates at most one file, so a file is named by its creator.    *)
(*                                                                         *)
(* A step is one system call (or a run of calls that touch nothing         *)
(* shared).  write_text is two: open, which truncates, then the write.     *)
(***************************************************************************)
EXTENDS Naturals, FiniteSets

CONSTANTS
  Runs,              \* run references.  A run id is a fresh ULID minted by the
                     \* process that stores it, so Runs also names the recorders.
  Legacy,            \* runs stored by a release without the stored_at stamp
  Deleters,          \* `memory delete` invocations
  Readers,           \* `retrieve_run_evidence` invocations
  NoFile,            \* a name that refers to no file
  ConcurrentDeletes  \* may two deletes of one run overlap?  Nothing in the code
                     \* forbids it; FALSE is the single careful user.

Clients == Deleters \cup Readers
Inodes  == Runs \cup Deleters

ASSUME ConstantsAssumption ==
  /\ Legacy \subseteq Runs
  /\ Runs \cap Clients = {}
  /\ Deleters \cap Readers = {}
  /\ NoFile \notin Inodes
  /\ ConcurrentDeletes \in BOOLEAN

VARIABLES
  store,    \* .novetest/: "ready" (store.json is there), "skeleton", "absent"
  place,    \* [Runs -> where the run's directory is]
  record,   \* [Runs -> the file its name record.json refers to]
  staged,   \* [Runs -> the file its name record.json.tmp refers to]
  file,     \* [Inodes -> contents]
  rec,      \* [Runs -> how far the process storing it has come]
  pc,       \* [Clients -> how far a delete or a read has come]
  target,   \* [Clients -> the run it names]
  fd,       \* [Clients -> the file a delete holds open]
  stamp,    \* [Clients -> the stored_at it read]
  found,    \* history: [Clients -> was the evidence there when it began?]
  window    \* history: recorders between check and mkdir at the last detach

diskVars   == <<store, place, record, staged, file>>
clientVars == <<pc, target, fd, stamp, found>>
vars       == <<store, place, record, staged, file, rec,
                pc, target, fd, stamp, found, window>>
-----------------------------------------------------------------------------
Stores  == {"ready", "skeleton", "absent"}
Places  == {"none", "live", "tomb", "wiped"}
\* "origin": the instant the evidence was stored.  "late": any later instant.
Instants == {"none", "origin", "late"}
\* An empty body is a file that was opened for writing and not yet written.
Contents == [body : {"empty", "stored", "tombstoned"},
             stored_at : Instants, mtime : {"origin", "late"}]

RecSteps == {"idle", "executing", "prepared", "checked", "made", "opened",
             "done", "refused", "failed", "crashed"}
Busy     == {"probe_live", "read_live", "stat_live", "probe_tomb", "read_tomb",
             "open_tmp", "write_tmp", "replace", "make_root", "rename"}
Ended    == {"ok", "notfound", "corrupt", "oserror", "crashed"}

TypeOK ==
  /\ store \in Stores
  /\ place \in [Runs -> Places]
  /\ record \in [Runs -> Inodes \cup {NoFile}]
  /\ staged \in [Runs -> Inodes \cup {NoFile}]
  /\ file \in [Inodes -> Contents]
  /\ rec \in [Runs -> RecSteps]
  /\ pc \in [Clients -> {"idle"} \cup Busy \cup Ended]
  /\ target \in [Clients -> Runs]
  /\ fd \in [Clients -> Inodes \cup {NoFile}]
  /\ stamp \in [Clients -> Instants]
  /\ found \in [Clients -> BOOLEAN]
  /\ window \subseteq Runs

\* Truncated by open(..., "w"); the mtime moves with it.
Empty      == [body |-> "empty", stored_at |-> "none", mtime |-> "late"]
\* A legacy record carries no stored_at; its mtime is when it was stored.
LegacyBody == [body |-> "stored", stored_at |-> "none", mtime |-> "origin"]
NewBody    == [body |-> "stored", stored_at |-> "origin", mtime |-> "origin"]

HasRecord(r, where) == place[r] = where /\ record[r] # NoFile
BodyOf(r)  == file[record[r]].body
Evident(r) == (HasRecord(r, "live") \/ HasRecord(r, "tomb")) /\ BodyOf(r) # "empty"

\* _stored_at_of: the persisted stamp, else the record's mtime.
StoredAtOf(r) ==
  IF file[record[r]].stored_at # "none" THEN file[record[r]].stored_at
  ELSE file[record[r]].mtime

\* mkdir(parents=True) under a store that was renamed away recreates its path.
WithParents == IF store = "absent" THEN "skeleton" ELSE store

Init ==
  /\ store = "ready"
  /\ place  = [r \in Runs |-> IF r \in Legacy THEN "live" ELSE "none"]
  /\ record = [r \in Runs |-> IF r \in Legacy THEN r ELSE NoFile]
  /\ staged = [r \in Runs |-> NoFile]
  /\ file   = [i \in Inodes |-> IF i \in Legacy THEN LegacyBody ELSE Empty]
  /\ rec    = [r \in Runs |-> IF r \in Legacy THEN "done" ELSE "idle"]
  /\ pc     = [c \in Clients |-> "idle"]
  /\ target \in [Clients -> Runs]
  /\ fd     = [c \in Clients |-> NoFile]
  /\ stamp  = [c \in Clients |-> "none"]
  /\ found  = [c \in Clients |-> FALSE]
  /\ window = {}
-----------------------------------------------------------------------------
(* store_run_evidence *)

RecMoves(r, from, to) == rec[r] = from /\ rec' = [rec EXCEPT ![r] = to]

\* The workflow found the store ready and runs the tests for a while; the
\* adapter's prepare_artifact_dirs makes its directories with parents=True.
Execute(r) ==
  /\ RecMoves(r, "idle", "executing")
  /\ store = "ready"
  /\ UNCHANGED <<diskVars, clientVars, window>>

PrepareArtifacts(r) ==
  /\ RecMoves(r, "executing", "prepared")
  /\ store' = WithParents
  /\ UNCHANGED <<place, record, staged, file, clientVars, window>>

\* Mutant: MEM-01's re-check of store.json left out.
CheckStoreUnguarded(r) ==
  /\ place[r] = "none"
  /\ RecMoves(r, "prepared", "checked")
  /\ UNCHANGED <<diskVars, clientVars, window>>

\* The two checks before the mkdir.  A fresh ULID has no directory yet, so the
\* already-exists refusal (place[r] # "none") is never taken.
CheckStore(r) ==
  /\ place[r] = "none"
  /\ RecMoves(r, "prepared", IF store = "ready" THEN "checked" ELSE "refused")
  /\ UNCHANGED <<diskVars, clientVars, window>>

MakeRunDir(r) ==
  /\ RecMoves(r, "checked", "made")
  /\ place' = [place EXCEPT ![r] = "live"]
  /\ store' = WithParents
  /\ UNCHANGED <<record, staged, file, clientVars, window>>

\* write_text, first half: open("w") creates an empty record.json.
OpenRecord(r) ==
  /\ RecMoves(r, "made", IF place[r] = "live" THEN "opened" ELSE "failed")
  /\ record' = IF place[r] = "live" THEN [record EXCEPT ![r] = r] ELSE record
  /\ file' = [file EXCEPT ![r] = Empty]
  /\ UNCHANGED <<store, place, staged, clientVars, window>>

WriteRecord(r) ==
  /\ RecMoves(r, "opened", "done")
  /\ file' = [file EXCEPT ![r] = NewBody]
  /\ UNCHANGED <<store, place, record, staged, clientVars, window>>

CrashRecorder(r) ==
  /\ rec[r] \in {"executing", "prepared", "checked", "made", "opened"}
  /\ rec' = [rec EXCEPT ![r] = "crashed"]
  /\ UNCHANGED <<diskVars, clientVars, window>>

Recorder(r) ==
  \/ Execute(r) \/ PrepareArtifacts(r) \/ CheckStore(r)
  \/ MakeRunDir(r) \/ OpenRecord(r) \/ WriteRecord(r)
-----------------------------------------------------------------------------
(* _resolve: live first, then tombstone.  Shared by delete and retrieve. *)

Goes(c, from, to) == pc[c] = from /\ pc' = [pc EXCEPT ![c] = to]

DeleteInFlight(r) == \E d \in Deleters : target[d] = r /\ pc[d] \in Busy

\* A reference names a run somebody saw; a delete was preceded by a scan that
\* parsed the record (find_entry_by_run_id in cli/handlers/memory.py).
Begin(c) ==
  /\ Goes(c, "idle", "probe_live")
  /\ store = "ready"
  /\ c \in Deleters =>
       /\ Evident(target[c])
       /\ ConcurrentDeletes \/ ~DeleteInFlight(target[c])
  /\ found' = [found EXCEPT ![c] = Evident(target[c])]
  /\ UNCHANGED <<diskVars, rec, target, fd, stamp, window>>

ProbeLive(c) ==
  /\ Goes(c, "probe_live",
          IF HasRecord(target[c], "live") THEN "read_live" ELSE "probe_tomb")
  /\ UNCHANGED <<diskVars, rec, target, fd, stamp, found, window>>

\* What reading r's record at `where` leads to.  A vanished file is an OSError
\* that nobody catches; a torn one is a ProjectStoreCorruptError.
AfterRead(r, where, next) ==
  IF ~HasRecord(r, where) THEN "oserror"
  ELSE IF BodyOf(r) = "empty" THEN "corrupt"
  ELSE next

\* Mutant: a record whose status says tombstoned counts as deleted already.
AfterParseByStatus(c) ==
  IF BodyOf(target[c]) = "tombstoned" THEN "ok"
  ELSE IF file[record[target[c]]].stored_at = "none" THEN "stat_live"
  ELSE IF c \in Deleters THEN "open_tmp" ELSE "ok"

\* A record without a stamp costs one more look at the path: its mtime.
AfterParse(c) ==
  IF file[record[target[c]]].stored_at = "none" THEN "stat_live"
  ELSE IF c \in Deleters THEN "open_tmp" ELSE "ok"

ReadLive(c) ==
  /\ Goes(c, "read_live", AfterRead(target[c], "live", AfterParse(c)))
  /\ stamp' = IF HasRecord(target[c], "live")
              THEN [stamp EXCEPT ![c] = file[record[target[c]]].stored_at] ELSE stamp
  /\ UNCHANGED <<diskVars, rec, target, fd, found, window>>

StatLive(c) ==
  /\ Goes(c, "stat_live",
          IF ~HasRecord(target[c], "live") THEN "oserror"
          ELSE IF c \in Deleters THEN "open_tmp" ELSE "ok")
  /\ stamp' = IF HasRecord(target[c], "live")
              THEN [stamp EXCEPT ![c] = file[record[target[c]]].mtime] ELSE stamp
  /\ UNCHANGED <<diskVars, rec, target, fd, found, window>>

ProbeTomb(c) ==
  /\ Goes(c, "probe_tomb",
          IF HasRecord(target[c], "tomb") THEN "read_tomb" ELSE "notfound")
  /\ UNCHANGED <<diskVars, rec, target, fd, stamp, found, window>>

\* A tombstone is where both calls stop: retrieve returns it, delete is a no-op.
ReadTomb(c) ==
  /\ Goes(c, "read_tomb", AfterRead(target[c], "tomb", "ok"))
  /\ stamp' = IF HasRecord(target[c], "tomb")
              THEN [stamp EXCEPT ![c] = StoredAtOf(target[c])] ELSE stamp
  /\ UNCHANGED <<diskVars, rec, target, fd, found, window>>

\* Mutant: tombstones are probed before the live tree.
ResolveTombFirst(c) ==
  \/ /\ Goes(c, "probe_live",
             IF HasRecord(target[c], "tomb") THEN "read_tomb" ELSE "probe_tomb")
     /\ UNCHANGED <<diskVars, rec, target, fd, stamp, found, window>>
  \/ /\ Goes(c, "probe_tomb",
             IF HasRecord(target[c], "live") THEN "read_live" ELSE "notfound")
     /\ UNCHANGED <<diskVars, rec, target, fd, stamp, found, window>>
  \/ ReadLive(c) \/ StatLive(c) \/ ReadTomb(c)

Resolve(c) ==
  \/ ProbeLive(c) \/ ReadLive(c) \/ StatLive(c) \/ ProbeTomb(c) \/ ReadTomb(c)
-----------------------------------------------------------------------------
(* delete_run_evidence on a live run, and _atomic_write_record inside it *)

\* Mutant: record.json itself is opened for writing, no staging file.
OpenTmpInPlace(d) ==
  LET r == target[d]
      there == place[r] = "live"
  IN  /\ Goes(d, "open_tmp", IF there THEN "write_tmp" ELSE "oserror")
      /\ IF there
         THEN /\ staged' = [staged EXCEPT ![r] = record[r]]
              /\ file' = [file EXCEPT ![record[r]] = Empty]
              /\ fd' = [fd EXCEPT ![d] = record[r]]
         ELSE UNCHANGED <<staged, file, fd>>
      /\ UNCHANGED <<store, place, record, rec, target, stamp, found, window>>

\* open(record.json.tmp, "w") creates the file, or truncates the one there.
OpenTmp(d) ==
  LET r == target[d]
      f == IF staged[r] = NoFile THEN d ELSE staged[r]
      there == place[r] = "live"
  IN  /\ Goes(d, "open_tmp", IF there THEN "write_tmp" ELSE "oserror")
      /\ IF there
         THEN /\ staged' = [staged EXCEPT ![r] = f]
              /\ file' = [file EXCEPT ![f] = Empty]
              /\ fd' = [fd EXCEPT ![d] = f]
         ELSE UNCHANGED <<staged, file, fd>>
      /\ UNCHANGED <<store, place, record, rec, target, stamp, found, window>>

\* Mutant: the rewrite takes the clock instead of the original stored_at.
WriteTmpRestamped(d) ==
  /\ Goes(d, "write_tmp", "replace")
  /\ file' = [file EXCEPT ![fd[d]] =
                [body |-> "tombstoned", stored_at |-> "late", mtime |-> "late"]]
  /\ UNCHANGED <<store, place, record, staged, rec, target, fd, stamp, found, window>>

WriteTmp(d) ==
  /\ Goes(d, "write_tmp", "replace")
  /\ file' = [file EXCEPT ![fd[d]] =
                [body |-> "tombstoned", stored_at |-> stamp[d], mtime |-> "late"]]
  /\ UNCHANGED <<store, place, record, staged, rec, target, fd, stamp, found, window>>

\* tmp.replace(record.json) acts on names: whatever file is staged now.
Replace(d) ==
  LET r == target[d]
      there == place[r] = "live" /\ staged[r] # NoFile
  IN  /\ Goes(d, "replace", IF there THEN "make_root" ELSE "oserror")
      /\ IF there
         THEN /\ record' = [record EXCEPT ![r] = staged[r]]
              /\ staged' = [staged EXCEPT ![r] = NoFile]
         ELSE UNCHANGED <<record, staged>>
      /\ UNCHANGED <<store, place, file, rec, target, fd, stamp, found, window>>

MakeTombstoneRoot(d) ==
  /\ Goes(d, "make_root", "rename")
  /\ store' = WithParents
  /\ UNCHANGED <<place, record, staged, file, rec, target, fd, stamp, found, window>>

RenameToTombstone(d) ==
  LET r == target[d]
  IN  /\ Goes(d, "rename", IF place[r] = "live" THEN "ok" ELSE "oserror")
      /\ place' = IF place[r] = "live" THEN [place EXCEPT ![r] = "tomb"] ELSE place
      /\ UNCHANGED <<store, record, staged, file, rec, target, fd, stamp, found, window>>

\* Mutant: the order before MEM-02, rename first and write in the tombstone.
DeleteRenameFirst(d) ==
  LET r == target[d]
  IN  \/ /\ Goes(d, "open_tmp", IF place[r] = "live" THEN "write_tmp" ELSE "oserror")
         /\ place' = IF place[r] = "live" THEN [place EXCEPT ![r] = "tomb"] ELSE place
         /\ UNCHANGED <<store, record, staged, file, rec, target, fd, stamp, found, window>>
      \/ /\ Goes(d, "write_tmp", "ok")
         /\ file' = [file EXCEPT ![record[r]] =
                [body |-> "tombstoned", stored_at |-> stamp[d], mtime |-> "late"]]
         /\ UNCHANGED <<store, place, record, staged, rec, target, fd, stamp, found, window>>

Delete(d) ==
  \/ OpenTmp(d) \/ WriteTmp(d) \/ Replace(d)
  \/ MakeTombstoneRoot(d) \/ RenameToTombstone(d)

CrashClient(c) ==
  /\ pc[c] \in Busy
  /\ pc' = [pc EXCEPT ![c] = "crashed"]
  /\ UNCHANGED <<diskVars, rec, target, fd, stamp, found, window>>
-----------------------------------------------------------------------------
(* What `reset` does to evidence: wipe_project_store renames .novetest away, *)
(* create_project_store brings a ready store back (ProjectStore details it). *)

\* Mutant: the store is emptied run by run, not renamed away.
DetachOneRun ==
  /\ store = "ready"
  /\ store' = "absent"
  /\ \E r \in Runs :
       place' = [place EXCEPT ![r] = IF @ \in {"live", "tomb"} THEN "wiped" ELSE @]
  /\ window' = {r \in Runs : rec[r] = "checked"}
  /\ UNCHANGED <<record, staged, file, rec, clientVars>>

Detach ==
  /\ store = "ready"
  /\ store' = "absent"
  /\ place' = [r \in Runs |-> IF place[r] \in {"live", "tomb"} THEN "wiped" ELSE place[r]]
  /\ window' = {r \in Runs : rec[r] = "checked"}
  /\ UNCHANGED <<record, staged, file, rec, clientVars>>

Reinit ==
  /\ store # "ready"
  /\ store' = "ready"
  /\ UNCHANGED <<place, record, staged, file, rec, clientVars, window>>
-----------------------------------------------------------------------------
Next ==
  \/ \E r \in Runs : Recorder(r) \/ CrashRecorder(r)
  \/ \E c \in Clients : Begin(c) \/ Resolve(c) \/ CrashClient(c)
  \/ \E d \in Deleters : Delete(d)
  \/ Detach
  \/ Reinit

Spec == Init /\ [][Next]_vars

\* A process that has begun keeps running unless it crashes.  Nobody has to
\* begin a command, to reset, or to crash.
Fairness == \A d \in Deleters : WF_vars(Resolve(d) \/ Delete(d))

FairSpec == Spec /\ Fairness
-----------------------------------------------------------------------------
(* Properties that hold however deletes overlap *)

\* Evidence that was there when the lookup began is reported missing only if a
\* reset took it: _resolve probes live before tombstones, and rename moves a
\* run the same way, so the lookup cannot fall between the two.
EvidenceIsFound ==
  \A c \in Clients :
    pc[c] = "notfound" /\ found[c] => place[target[c]] = "wiped"

\* A delete that returned its entry has taken the run out of the live tree.
DeleteTakesEffect ==
  \A d \in Deleters : pc[d] = "ok" => place[target[d]] \in {"tomb", "wiped"}

\* MEM-01: a recording that outlives the store can orphan its run (leave it in
\* a store.json-less skeleton) only if the reset fell between its check and its
\* mkdir; every recording that checks later is refused.
OrphansWereInTheWindow ==
  \A r \in Runs : place[r] = "live" /\ store # "ready" => r \in window

(* Properties of deletes that do not overlap *)

\* MEM-02: whatever crashed when, a tombstoned run holds the complete
\* tombstoned record, never the original one.
TombstonesComplete ==
  \A r \in Runs : place[r] = "tomb" => record[r] # NoFile /\ BodyOf(r) = "tombstoned"

\* MEM-04: deletes, interrupted and re-issued ones too, leave the instant the
\* evidence was stored unchanged, also for a record that had only its mtime.
StoredAtPreserved ==
  \A r \in Runs : Evident(r) => StoredAtOf(r) = "origin"

\* _atomic_write_record: once a record is written no reader finds it torn.
NoTornEvidence ==
  \A r \in Runs : rec[r] = "done" /\ place[r] \in {"live", "tomb"} => Evident(r)

\* A delete of evidence that was there fails only if a reset took the run, also
\* when earlier deletes of the run crashed half-way.
DeleteFailsOnlyAfterReset ==
  \A d \in Deleters :
    pc[d] \in {"notfound", "corrupt", "oserror"} => place[target[d]] = "wiped"

\* Self-healing: once a delete has begun, it crashes or the run leaves the live
\* tree, whatever residue earlier crashed deletes left there.
DeleteDecided ==
  \A d \in Deleters :
    pc[d] = "probe_live" ~>
      (pc[d] = "crashed" \/ place[target[d]] \in {"tomb", "wiped"})

\* The files implement the ledger: evidence is what is complete at its place.
LedgerStatus ==
  [r \in Runs |->
     CASE place[r] = "wiped" -> "wiped"
       [] place[r] = "tomb"  -> "tombstoned"
       [] place[r] = "live" /\ Evident(r) -> "recorded"
       [] OTHER -> "absent"]

Ledger == INSTANCE RunLedger WITH status <- LedgerStatus

ImplementsLedger == Ledger!LedgerSpec
=============================================================================
