------------------------------ MODULE RunHistory ------------------------------
(***************************************************************************)
(* memory/store.py, the scan interfaces: list_run_history,                 *)
(* find_runs_for_target and find_entry_by_run_id all walk _iter_all_records, *)
(* first memory/runs/, then memory/tombstones/, while other processes store,*)
(* delete and reset (RunEvidence).  The walk is lazy: a record.json is first *)
(* yielded by the directory listing, later read, and, when it carries no   *)
(* stored_at, later still stat-ed.                                         *)
(***************************************************************************)
EXTENDS RunEvidence, Sequences

CONSTANT Scanners   \* history walks

VARIABLES
  step,      \* [Scanners -> "idle", "walk", "read", "stat", "done", "died"]
  phase,     \* [Scanners -> the index in PhaseOrder of the tree being walked]
  left,      \* [Scanners -> runs of this tree not listed yet]
  at,        \* [Scanners -> the run whose record was yielded last]
  hits,      \* [Scanners -> entries of the walk: run, tree, record status]
  skipped,   \* [Scanners -> runs whose record could not be read]
  known      \* history: [Scanners -> evidence there when the walk began]

scanVars    == <<step, phase, left, at, hits, skipped, known>>
historyVars == <<vars, scanVars>>

\* Mutant: the tombstones are walked first.
TombstonesFirst == <<"tomb", "live">>

PhaseOrder == <<"live", "tomb">>

Here(s) == PhaseOrder[phase[s]]

HistoryTypeOK ==
  /\ step \in [Scanners -> {"idle", "walk", "read", "stat", "done", "died"}]
  /\ phase \in [Scanners -> 1..2]
  /\ left \in [Scanners -> SUBSET Runs]
  /\ at \in [Scanners -> Runs \cup {NoFile}]
  /\ hits \in [Scanners -> SUBSET (Runs \X {"live", "tomb"} \X {"stored", "tombstoned"})]
  /\ skipped \in [Scanners -> SUBSET Runs]
  /\ known \in [Scanners -> SUBSET Runs]

HistoryInit ==
  /\ Init
  /\ step    = [s \in Scanners |-> "idle"]
  /\ phase   = [s \in Scanners |-> 1]
  /\ left    = [s \in Scanners |-> Runs]
  /\ at      = [s \in Scanners |-> NoFile]
  /\ hits    = [s \in Scanners |-> {}]
  /\ skipped = [s \in Scanners |-> {}]
  /\ known   = [s \in Scanners |-> {}]

BeginScan(s) ==
  /\ step[s] = "idle"
  /\ store = "ready"
  /\ step' = [step EXCEPT ![s] = "walk"]
  /\ known' = [known EXCEPT ![s] = {r \in Runs : Evident(r)}]
  /\ UNCHANGED <<vars, phase, left, at, hits, skipped>>

\* The listing reaches r's place in the tree, at whatever moment it does.
List(s) ==
  /\ step[s] = "walk"
  /\ \E r \in left[s] :
       /\ left' = [left EXCEPT ![s] = @ \ {r}]
       /\ IF HasRecord(r, Here(s))
          THEN /\ step' = [step EXCEPT ![s] = "read"]
               /\ at' = [at EXCEPT ![s] = r]
          ELSE UNCHANGED <<step, at>>
  /\ UNCHANGED <<vars, phase, hits, skipped, known>>

Readable(s) == HasRecord(at[s], Here(s)) /\ BodyOf(at[s]) # "empty"

Hit(s) == hits' = [hits EXCEPT ![s] = @ \cup {<<at[s], Here(s), BodyOf(at[s])>>}]

\* _read_record_isolated: a torn or vanished record is skipped and collected.
Skip(s) ==
  /\ step[s] = "read"
  /\ ~Readable(s)
  /\ skipped' = [skipped EXCEPT ![s] = @ \cup {at[s]}]
  /\ step' = [step EXCEPT ![s] = "walk"]
  /\ UNCHANGED <<vars, phase, left, at, hits, known>>

Take(s) ==
  /\ step[s] = "read"
  /\ Readable(s)
  /\ Hit(s)
  /\ step' = [step EXCEPT ![s] =
                IF file[record[at[s]]].stored_at = "none" THEN "stat" ELSE "walk"]
  /\ UNCHANGED <<vars, phase, left, at, skipped, known>>

\* _stored_at_of for a record without a stamp: a stat of the path, outside the
\* per-record isolation.  A path that moved away raises out of the whole walk.
Stat(s) ==
  /\ step[s] = "stat"
  /\ step' = [step EXCEPT ![s] = IF HasRecord(at[s], Here(s)) THEN "walk" ELSE "died"]
  /\ UNCHANGED <<vars, phase, left, at, hits, skipped, known>>

NextTree(s) ==
  /\ step[s] = "walk"
  /\ left[s] = {}
  /\ IF phase[s] < Len(PhaseOrder)
     THEN /\ phase' = [phase EXCEPT ![s] = @ + 1]
          /\ left' = [left EXCEPT ![s] = Runs]
          /\ UNCHANGED step
     ELSE /\ step' = [step EXCEPT ![s] = "done"]
          /\ UNCHANGED <<phase, left>>
  /\ UNCHANGED <<vars, at, hits, skipped, known>>

Scan(s) == List(s) \/ Skip(s) \/ Take(s) \/ Stat(s) \/ NextTree(s)

HistoryNext ==
  \/ Next /\ UNCHANGED scanVars
  \/ \E s \in Scanners : BeginScan(s) \/ Scan(s)

HistorySpec == HistoryInit /\ [][HistoryNext]_historyVars
-----------------------------------------------------------------------------
InHistory(s, r) == \E h \in hits[s] : h[1] = r

\* A walk that ends has every run whose evidence was there when it began, save
\* those a reset took: deletes move a run in the direction of the walk.  A run
\* whose record two deletes were tearing is at least among the skipped.
HistoryComplete ==
  \A s \in Scanners : step[s] = "done" =>
    \A r \in known[s] :
      InHistory(s, r) \/ place[r] = "wiped" \/ (ConcurrentDeletes /\ r \in skipped[s])

=============================================================================
