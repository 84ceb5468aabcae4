# Nove-Test verification project

Nove-Test (`src/src/novetest/`) is a command line tool that runs a project's
tests through one of six supported language/engine pairs (pytest, jest, junit, go-test,
cargo-test, xunit), keeps what happened as
*run evidence* in a Project Store (`.novetest/`), and derives facts from that
evidence: coverage, regressions between two runs, suspicious source locations,
replay verdicts. It has no daemon and takes no lock: every invocation is a
process of its own that reads and writes the store with plain system calls, may
be killed between any two of them, and may run beside others (two terminals, an
agent and a CI job). Inside a process there is one asyncio event loop and, per
test run, one child process tree.

This directory holds TLA+ modules translated from that code, TLC configurations
that check them on small instances, and TLAPS proofs for any instance. Line
numbers of every definition are in `PROJECT.json` ("map"); hazards, mutants of
the code each property must catch, and findings are there too.

- [1. Inventory](#1-inventory)
- [2. Modules](#2-modules)
- [3. Runs, bounds and what they show](#3-runs-bounds-and-what-they-show)
- [4. Fairness](#4-fairness)
- [5. What is proved](#5-what-is-proved)
- [6. Where the code and what is said of it disagree](#6-where-the-code-and-what-is-said-of-it-disagree)
- [7. What is not modelled, and the plan](#7-what-is-not-modelled-and-the-plan)

## 1. Inventory

Paths are below `src/src/novetest/`.

| Component | State it keeps | Operations | Hard behaviour | What makes it correct |
|---|---|---|---|---|
| **Evidence store** `memory/store.py`, `memory/tombstones.py`, `models/run_record.py` | `memory/runs/<ulid>/record.json` with artifacts; `memory/tombstones/<ulid>/` | `store_run_evidence`, `retrieve_run_evidence`, `delete_run_evidence`, `list_run_history`, `find_runs_for_target`, `find_entry_by_run_id` | check-then-act on files without a lock; a shared staging name; rename moving a run under a reader; crash half-way through a delete; records of older releases without `stored_at` | evidence is never lost, torn or half deleted; a deleted run stays deleted; a scan is complete |
| **Project store** `memory/project_store.py`, `workflows/init.py`, `workflows/reset.py`, `anchor_resolution.py` | `.novetest/store.json` (metadata and engine pin), its staging file, `.novetest.deleting.*` trees | `create_project_store`, `locate_project_store`, `set_pinned_engine`, `wipe_project_store`, residue sweep | create and pin are two writes; reset detaches, removes and re-creates; a crash anywhere; concurrent writers share one staging name | metadata is whole; init is idempotent and recovers; a reset rebuilds what it wipes and keeps the pin |
| **Subprocess harness** `utils/asyncio_subprocess.py` | process tree, two pipes, bounded capture buffers | `run_subprocess`, `_terminate_tree`, `_finish_drain`, `_StreamDrainer.run` | timeout racing exit; SIGTERM ignored; grandchildren holding pipes; capture cap | always returns; reaps the child; keeps exactly what it should |
| **Coverage** `coverage/` | `coverage/<run>/coverage_facts.json`; native payloads in the run | `derive_coverage_facts`, `get_coverage_facts`, `check_coverage_availability`, `compute_coverage_delta`; five parsers | in-place write; a torn file is met by other verbs; a payload that is truncated, split over documents or names files twice; sources that move after the run | facts are those of the run, no line that ran is lost, a truncated payload gives none, a delta only of comparable runs |
| **Regression** `regression/` | `regression/<baseline>__<target>/regression_facts.json` | `compare_runs`, `derive_regression_facts`, `resolve_latest_baseline`, `resolve_baseline_for_run`, `get_regression_facts` | cache written before its inputs are final; tombstones hidden by a cache; torn cache; a node id with several results | the right baseline; no facts about deleted runs; a crash heals; a failure is never hidden by a repeated result |
| **Localization** `localization/`, `workflows/localization.py` | `localization/<run>/localization_findings.json` | `derive_localization_findings`, the four formulas, the candidate filter, flag-override policy, `_invalidate_and_rederive` | cached under other flags or by an older release; reads three other caches; test code among the candidates; ties and unbounded scores | the finding served is of the flags asked for and of this release; the culprit is ranked first; leaving out test code leaves suspects |
| **Replay** `replay/` | `replay/<run>/...` and the reruns, which are runs of their own | `replay_run`, `classify`, rerun context | the original may be deleted or the store reset during the reruns; one rerun crashes; two sessions on one original | the verdict accounts for every rerun; each rerun is evidence of its own; a session ends |
| **Run engine** `run/engine.py`, `run/engine_selector.py`, `run/readiness.py`, `run/adapters/`, `run/normalizer.py` | none of its own; artifacts in the run directory, build outputs in the workspace | select, probe readiness, invoke an adapter, normalize native results | timeout, empty, torn, missing or stale output, exit codes of six engines, tools that go away between the probe and the launch | a failing suite is never reported as passed; what the probe calls ready can be run; results are of this run |
| **Workflows** `orchestration/workflows/` | none | `run`, `test`, `compare`, `localize`, `inspect`, `replay`, `status`, `init`, `reset` | the order of stages; which failures later stages survive | each verb answers about the run it is asked about |
| **Recommendation** `orchestration/recommendation/` | none | `build_fact_bundle`, category rules, thinning rules, citations | one rule swallowing what another says; a citation of something that is not there; asking again later | every regression is told of; citations resolve; the same answer when asked again |
| **Projection, onboarding, licenses** `orchestration/...` | none | payloads, static texts | none: pure functions | |
| **Command line** `cli/` | none | parsing, envelopes, rendering, exit codes | the error each way out maps to | one envelope and exit code per outcome |
| **Installers** `scripts/` | outside the program | download, checksum, unpack | network | not modelled |

How they interact. The command line calls one workflow per verb. `run` and
`test` choose an engine from the pin, start an adapter, which starts the
subprocess harness, normalize what it left, and call `store_run_evidence`. `run
--coverage` and `test` then derive coverage facts; `test` goes on to compare
with the latest baseline and to localize. `compare`, `regression`, `localize`
and `inspect` read evidence and each other's caches and write their own.
`memory delete` moves evidence and leaves the caches. `reset` renames the whole
store away under whatever else is running. The only communication between
processes is the file system; a call never waits for another process except for
its own child.

The hazards in `PROJECT.json` are drawn from that: interleavings at every
check-then-act in the store, crashes between the system calls of a rewrite,
caches that are stale or torn, timeouts that race exits, and sequences of verbs.
They are what the properties are for.

## 2. Modules

| Module | Models | Extends / composes |
|---|---|---|
| `RunLedger` | the abstract promise about a run's evidence: absent, recorded, tombstoned, wiped, in that order | |
| `RunEvidence` | `memory/store.py`: storing, resolving, deleting, at system calls | implements `RunLedger` (refinement mapping `LedgerStatus`) |
| `RunHistory`, `MCRunHistory` | the lazy history walk over both trees | extends `RunEvidence` |
| `ProjectStore` | `store.json`, pin, residue and wipe under `init`, `reset`, `run`/`test` | |
| `Subprocess` | one `run_subprocess` call with its process tree | |
| `Readiness` | the six readiness probes, the candidate engines of a workspace, D1's choice and the resolution of a verb's engine | |
| `Adapters` | the six adapters around the tool they start: refusals, clean-up, what they make of what the tool left | extends `Readiness` |
| `Normalizer` | outcome vocabularies and the verdict of a run | |
| `RunEngine`, `MCRunEngine` | runs one after another in a workspace whose machine changes | composes the three above |
| `Replay`, `MCReplay` | replay sessions and the classifier | extends `RunLedger` as its evidence |
| `CoverageFacts` | the parsers' line rules, merging, the coverage delta | |
| `Coverage`, `MCCoverage` | runs that leave payloads, derivation, the availability probe, sources that come and go | extends `CoverageFacts` |
| `DerivedFacts`, `MCDerivedFacts` | the coverage, regression and localization caches under `run`, `run --coverage`, `test`, `compare`, `regression compare`, `regression latest`, `localize` | uses `RunLedger` as the evidence |
| `Regression` | what a comparison says: buckets, transitions, counts, drift, output difference, baselines | extends `CoverageFacts` |
| `Scores`, `Suspicion` | the four formulas; candidates, exclusion and ranks of the three localization modes | extends `Regression` |
| `Recommendation` | which recommendations follow from a bundle of facts, and what they cite | extends `Suspicion` |
| `Analysis`, `MCAnalysis` | the stages of `test` over a history of runs, other clients beside it, and asking again | composes the four above |
| `RunEvidenceProofs` (also of `RunHistory`), `CoverageProofs`, `ProjectStoreProofs`, `DerivedFactsProofs`, `SubprocessProofs`, `ReplayProofs`, `RunEngineProofs`, `AnalysisProofs` | TLAPS proofs about the module each is named after | extend it |

The caches appear twice, on purpose. `DerivedFacts` has the steps of every write
and every race, with facts whose content is only the run and the flags they came
from. `Analysis` has the content, with each derivation one step. In the same way
`Replay` and `DerivedFacts` use the ledger that `RunEvidence` implements with
files, and `RunEvidence` takes from `RunEngine` only that some record comes out.

Every module names beside a definition the mutant of it (a comment that begins
with "Mutant:"): a plausible slip in that code, kept to show that the properties
would notice. Each state module has a type invariant, and each is proved.

### RunEvidence

A step is one system call, or a run of calls that touch nothing shared. A name
in a run's directory refers to a *file* (an inode), because a process that has
opened `record.json.tmp` goes on writing to that file after somebody renamed it.
`Path.write_text` is two steps, the open that truncates and the write. A
directory is at one *place*: `runs/` ("live"), `tombstones/` ("tomb"), or
carried off by a reset ("wiped").

- `Execute`, `PrepareArtifacts`, `CheckStore`, `MakeRunDir`, `OpenRecord`,
  `WriteRecord` are a recorder: the workflow's locate, the adapter's
  `mkdir(parents=True)`, and `store_run_evidence`, whose existing-run refusal is
  in `CheckStore`'s guard: a run id is a ULID minted by the process itself, so
  the refusal has no reachable state.
- `ProbeLive`, `ReadLive`, `StatLive`, `ProbeTomb`, `ReadTomb` are `_resolve` and
  what its callers do with the record. `StatLive` exists because a record that an
  older release wrote has no `stored_at` and is dated by its mtime.
- `OpenTmp`, `WriteTmp`, `Replace`, `MakeTombstoneRoot`, `RenameToTombstone` are
  `delete_run_evidence`. A delete of a tombstone ends after the read.
- `Detach` and `Reinit` are what `reset` does to evidence; `ProjectStore` has the
  detail.
- `CrashRecorder` and `CrashClient` stop a process anywhere.

Nothing in the code keeps two deletes of one run apart. `ConcurrentDeletes` says
whether the instance has such users: with `TRUE` the properties are those that
hold regardless (`DeleteTakesEffect`, `OrphansWereInTheWindow`, and
`EvidenceIsFound`, which is proved for both), with `FALSE` those that one careful user gets.
A directory listing (`rglob`) that meets a directory vanishing under it is left
to `RunHistory`'s record-level steps.

### RunHistory

`_iter_all_records` is lazy: the tree is listed, a record is read later, and a
record without `stored_at` is stat-ed later still, so a delete can come between
any two. `List`, `Skip` (the per-record isolation of MEM-05), `Take`, `Stat`,
`NextTree` are one walk, beside everything `RunEvidence` does. `HistoryComplete`
allows for one loss: while two deletes of one run overlap, `record.json` can be
read empty, and the walk then skips it.

### ProjectStore

A *tree* is one `.novetest` directory, which can be live, under a staging name, or
gone; `store.json` and `store.json.tmp` in it refer to files. `Peek`, `Choose`,
`Locate` and `Load` are the verbs' engine resolution; `Sweep` ... `Create`
`create_project_store`, which an init without `--engine` also reads with;
`PinRead` ... the read-modify-write of `set_pinned_engine`; `WipeSweep` ...
`Rmtree` `wipe_project_store`. What D1 (`choose_workspace_engine`) answers is the
constant `Choice`; its refusals are `NoPin`. `Overlap` says whether a verb may begin
while another runs. `Crash` also stands for an `rmtree` that meets a file it
cannot delete: the verb ends at that point with that disk.

`_atomic_write_json` is three steps. The open truncates the staging file for
everybody who has it open; the write starts at the first byte through the writer's own
descriptor and does not shorten the file, so of two writers whose texts differ in
length (`Size`) the shorter one, written last, keeps the tail of the longer (`Over`);
the replace gives `store.json` whatever file the staging name refers to. `crossed`
is a history variable: whether a verb ever opened the staging file of another one
that was between its open and its replace.

### Subprocess

The tree is a child leading its group, a kid in the group and a stray outside it;
each may write, hang, ignore SIGTERM and outlive the others. Time is abstracted
to "a running timer may fire at any moment". The exit of the child is two
events: the watcher reaps it, and the loop learns of it (`Reap`, `Notice`), so
that a timeout can fire in between. Bytes are counted, not told apart, which is
what a cap can tell apart. On Windows `taskkill /T` kills the child and some
of what is below it; that a `taskkill` that starts kills the child is an
assumption the code makes too. `asyncio.wait_for` and `proc.wait()` are taken as
documented.

### DerivedFacts

Evidence is the abstract ledger, which `RunEvidence` implements for deletes that do
not overlap; runs are `1..N` in ULID order with one target expression; a run's
`trait` is its engine, whether it failed and what kind of coverage payload it
left. A reset is left out: it takes every cache with the evidence at one rename.

- `Store`, `Derive`, `CovOpen`, `CovWrite`: recorder and coverage derivation.
  Coverage and pair files are truncated and then written in place; findings are
  staged under a name of their own and renamed, hence one step.
- `Pick`, `Base`: `resolve_latest_baseline` (the latest run, then the newest
  older run of its engine), two walks of the history that deletes may separate.
- `Check`, `Cache`, `Recheck`, `ReadBase`, `ReadTarget`, `PairOpen`, `PairWrite`, `View`:
  `compare_runs`, `derive_regression_facts` and, for the verb `compare`,
  `build_compare_view`, which asks for the coverage delta whatever the comparison came
  to, and answers with both.
- `LocCheck`, `LocProbe`, `LocRead`, `LocCov`, `LocReg`, `LocWrite`: the derivation of
  a finding and its cache; `Policy` the flag policy and stale-build
  re-derivation of the verb `localize`.
- The stages of a verb are the sequence `StagesOf(verb)`; a stage of `test` that
  finds no facts lets the next one go on.

Left out on purpose: "coverage-schema-stale" (the delta's schema is version 1,
so it cannot occur), the separate retrievals of the two sides inside one check
(one step), and a target expression per run.

### Readiness, Adapters, Normalizer, RunEngine

A *host* is what a probe can see of the machine and the workspace: marker files
and what manifests declare (`marks`), tools on the path (`tools`), tools that
start and fail (`broken`), modules an interpreter imports (`imports`), .NET test
projects. A probe is a list of gates, the first that fails gives the state
(`FirstOf`), in the order of `run/readiness.py`. `Choose` is D1: the candidates by
marker, ready ones first; `Resolve` is override, pin, back-fill.

A run is `Ask` (resolve; D1's choice is pinned before anything runs), `Gate`,
`Launch`, `Finish`. `Drift` lets the machine change before any of them but the last, so that
the tool the probe saw may be gone at the launch. `Spawn` is the tool itself and
external: how far each test gets, its exit code within what such a tool can
answer, which report it leaves (whole, torn, none), what is lost from it. What the
adapter does before and after is `BeforeRun`, `AfterRun` and the six `...Collect`:
each a list of refusals in the adapter's order, then the native result. `disk` has
what builds leave in the workspace, which is how a report of an earlier run can be
read as this run's. Nobody tells Gradle to run its test task again, so a task that
ended well may be up to date when it is asked for the same tests (`MayBeUpToDate`, from
the `tested` of a disk): it then runs nothing and leaves the reports as they are. jest's payload is
its success flag and its count of failed tests, which need not agree with its exit code.

A test is a model value, a report a function from tests to outcomes with the run
that wrote it. Left out: command lines, report syntax, several occurrences of one
test in a report, several modules' reports, failure logs, durations. A target is
one of five *shapes* (whole workspace, directory, filter, one that begins with a
dash, one with metacharacters), since that is what the adapters tell apart.

### Replay

A session (`Begin`, `Reconstruct`, `Probe`, then `RerunCrashes` or `RerunParses` and
`Keep` per rerun, `Stage`, `Publish`) reads its original once and goes on with
that copy. A rerun is stored as a run of its own; a delete or a reset may take
the original, a rerun or the store between any two steps; `Die` stops a session
anywhere. Result files are staged in the tree that was there (`staged.tree`), so a
result can be published into the store that a reset made meanwhile. The classifier
is `OriginalOutcome`, `Divergent`, `FocalTest` and `Classify`.

### CoverageFacts, Coverage

A document is a sequence of records or entries in the order of the file, because
order is what merging depends on: `LcovRecord` folds LCOV line by line with the
open block as its state, `CoberturaClass` entries of one file merge (`MergeFile`),
whole documents overwrite one another. Lines are small numbers, hits are counts.
`Derived` is `derive_coverage_facts` by engine, with the filters on sources that are
no longer on disk; `Available` the probe of `availability.py`, which is written
apart from it and has to agree. Syntax is left out, and of branches all but the arcs
and totals of LCOV.
`CoveragePayloads` says what is assumed of a payload: numbers are naturals, counts
are not negative, a JSON object or a JaCoCo report (whose packages are read only
directly under its root) has a file once, and a JaCoCo file has a line once. Nothing
is assumed of the order, the number or the totals of the records of an LCOV file, of
how many classes of a Cobertura report are about one file, of how often a class lists
a line (Coverlet does so once per method), or of several documents.

### Regression, Scores, Suspicion, Recommendation, Analysis

`Regression!Transitions` is the nine-way table after `Representative` has collapsed
the results of each node. `Scores` has the formulas as exact fractions: Ochiai
squared, since only the order matters; DStar's unbounded case above every other score. `Suspicion` is `localization/derive.py`: per-test
spectra grouped by symbol (`PerTest`), aggregate coverage with stack evidence
(`Aggregate`), stack evidence alone (`FailureProximity`), test code left out unless
nothing would remain (`ExcludeTests`), dense ranks. Symbols of a file and frames of a
failure are given with the instance (`Extents`, a result's `frames`): the regular
expressions and the AST walk that find them are not modelled.

`Recommendation!Hits` has one operator per category, `Swallow` and `Exclusive` the two
thinning rules, `Citations` what each recommendation points at. `Analysis` walks
`test` through its stages; `CompareElsewhere` and `LocalizeElsewhere` are other clients,
the latter with the flag policy of the verb; `Rebuilt` is the bundle that is put
together when the run is asked about again.

## 3. Runs, bounds and what they show

| Run | Instance | Shows |
|---|---|---|
| `evidence_serial` | an old legacy run and a new one; two deletes that do not overlap; a reader; resets; crashes | tombstones are complete, `stored_at` stays, no record is torn, lookups never fall between the trees, the files implement `RunLedger`, a delete that begins decides |
| `history` | two deletes of any runs, also of the same at once; a walk; a recorder; resets; crashes | a walk loses nothing it began with but what overlapping deletes emptied; a returned delete has taken effect; only a recorder between check and mkdir orphans a run |
| `store_serial` | two inits, a reset, a runner, one after the other, each crashing anywhere; a legacy store without pin, a store pinned by a newer release, or none | `store.json` whole, `reset` rebuilds and keeps every pin but that of a newer release, `init` goes through and makes the workspace ready |
| `store_overlap` | an init, a reset, a runner interleaved freely, each crashing anywhere; metadata of three lengths | a torn `store.json` takes a second writer that opened the staging file before the first replaced it; no crash and no reader does it |
| `subprocess` | both platforms, with and without timeout; a cap of 1 byte, chunks of 2, a pipe of 2, demand 4 | the call returns, the child is reaped, capture is exact |
| `engine` | nine workspaces, each a set of hosts it can turn into; two runs; five target shapes, with and without coverage; two tests | a ready engine can be run; a failing suite never passes (but where an engine ignores failures and the report lost one); a passed run is about this run or warns, but where Gradle's test task was up to date; six engines agree on one vocabulary |
| `replay` | one old run and two reruns to come; two sessions; `--reruns` of -1, 1 and 2; deletes, one reset, deaths | the verdict accounts for every execution and is strict; the test it blames is the only one that moved; reruns are evidence of their own; a session ends |
| `coverage` | every LCOV file of up to four records; one and two classes or documents of the others; two runs; two sources that come and go | a line is executed or missing, not both, unless the one class of its file is at odds with itself, and counted; no hit of an LCOV file, of a JSON or of one XML document is lost; truncated LCOV is refused, by branch totals where a branch record is left; the probe agrees with the derivation |
| `derived` | one old and one new run, a recorder with any verb, a client with any analysis verb, two formulas and two lengths, five kinds of run | no regression facts or finding about a deleted run, no finding of an old release served, caches written from final inputs, comparisons heal |
| `analysis` | some 230 histories of two runs over four engines; a client comparing and one localizing by another formula; replays | a failure is never hidden by a repeated result; the culprit ranks first, with room for every candidate; the formula orders and does not choose; leaving out test code leaves suspects in a per-test finding; every regression is told of; citations resolve, but for the test result of a replay that blames no test; asked again, the same answer, unless the finding was made anew or the replay could not be had |
| `coverage_modules` | one run | violation: staged coverage of a Maven build of several modules is never derived |
| `analysis_errored` | as `analysis` | violation: a red run whose bad tests are errored gets no explanation |

Bounds. Two runs suffice for the evidence properties because they speak of one run
at a time and runs share only the store; the second run is there so that an old
record and a recording are in the store at once. Two deletes are what a shared
staging name takes, and the second may also be the re-issue of a crashed first; in
`history` they are interchangeable, which is the symmetry used there.
In `store_serial` two inits and a reset give every order of create, wipe and
re-create; a third init meets no disk that two do not leave. The pin of a newer
release is there because it is the one a reset carries over in vain; two supported
engines and no pin give three lengths, so that either writer may be the longer. In `subprocess` the
cap is crossed inside a chunk, at its edge and after it, and the pipe is full
before the program is done. In `engine` the second run is what can meet the first
one's build outputs; two tests give mixed outcomes and one that is lost. In `replay`
two reruns are what it takes to differ from each other, and a second session races
the first for run ids and for the published result (`Last` bounds the reruns of both
together). In `coverage` an
LCOV block is `SF`, `DA`, one total and `end_of_record`, so four records reach a
whole block, a nested one and a truncated one, and one with a branch and a total that
denies it; two classes of one file are what merging takes, and one of them lists a
line twice. In `derived` two runs make one ordered pair, and the
old run brings the facts of an older release. In `analysis` a test with two results,
a symbol inside another, a file known by two paths, a place
outside every symbol, and each evidence of failure proximity occur in some history;
`TopN` is 2 and cuts. `CHECK_DEADLOCK FALSE` is set where verbs end and a finished
system stops; `coverage` and `engine` are checked for deadlock.

## 4. Fairness

- `RunEvidence!Fairness`: a delete that has begun runs on (weak fairness of its
  own steps) unless it crashes. The operating system schedules processes; nobody
  has to begin, reset or crash.
- `ProjectStore!FairSpec`: the same for every verb.
- `Subprocess!LoopFairness`: the event loop runs its ready callbacks and timers,
  the kernel's reaping reaches the watcher, drainers that can read do. Only when
  no timeout was given, `ProgramFairness` assumes that the program writes when it
  is not blocked, and ends: nothing else could make such a call return. With a
  timeout nothing is assumed about the tree.
- `ReplaySpec`: weak fairness of each session's steps. That a rerun comes to an end
  is what `Subprocess!AlwaysReturns` shows; a crash of it is an end too.

The other specifications state no fairness: their properties are safety properties.

## 5. What is proved

`RunEvidenceProofs` proves, for any sets of runs, deletes and readers, from
`ConstantsAssumption` alone (runs, deletes and readers are distinct things):

| Theorem | Statement |
|---|---|
| `TypeOKHolds` | `Spec => []TypeOK` |
| `DeleteTakesEffectHolds` | `Spec => []DeleteTakesEffect` |
| `EvidenceIsFoundHolds` | `Spec => []EvidenceIsFound` |
| `OrphansWereInTheWindowHolds` | `Spec => []OrphansWereInTheWindow` |
| `TombstonesCompleteHolds`, `NoTornEvidenceHolds`, `StoredAtPreservedHolds`, `DeleteFailsOnlyAfterResetHolds` | the same, of the four properties of deletes that do not overlap (`ConcurrentDeletes = FALSE`) |
| `LedgerIsImplemented` | every step of the files is a step of `RunLedger` or leaves it alone, so `Spec => Ledger!LedgerSpec` (`ConcurrentDeletes = FALSE`) |

The argument. Typing comes first. `DeleteTakesEffect` follows from two facts about
single steps: places only move forwards (`StepMoves`), and a delete's target is
fixed while it runs (`TargetFixed`). `EvidenceIsFound` needs `LookupInv`: a lookup
that began with the evidence there and has passed the live tree finds the run
deleted or wiped, because a directory leaves `runs/` only for a place the lookup
has yet to probe. `OrphansWereInTheWindow` needs `WindowInv`: a
recorder past its check is in the window of the last detach.

The serial properties are not inductive one by one: that a tombstone is complete
depends on what the delete in flight has written, that on which file its
descriptor names, and that on no other delete sharing the staging name.
`SerialInv` says it all together: what each record holds for each place and each
recorder's step (`RecordInv`), which files the two names of a run can refer to
(`NamesInv`), what a delete at each step knows of its target, descriptor and stamp
(`DeleteInv`), and that two deletes of one run are never both busy (`Solo`). It is
proved preserved by the recorder, the lookup, the delete and the reset in a lemma
each, and the four properties and the refinement are read off it.

Of `RunHistory` it proves `HistoryCompleteHolds` and `HistoryTypeOKHolds`, for any
runs, walks, deletes and readers, deletes overlapping or not, from the same
assumption. A walk goes through `runs/` first and the tombstones after it, and
evidence moves the same way, so a run that was there when the walk began is found
already, gone with a reset, or still ahead of it (`Ahead`: in the tree it is in and not
yet passed, or in the tree that follows). That a run ahead can be read when it is
reached is `SerialInv` of `RunEvidence`, cited; where deletes overlap it may be torn,
and is among the skipped. The walk's specification implies that of `RunEvidence`
(`EvidenceHolds`), which is how the earlier theorems are brought in.

`ProjectStoreProofs` proves, for any verbs, engines and pins, crashes anywhere, from
`StoreConstants`:

| Theorem | Statement |
|---|---|
| `StoreTypeOKHolds` | `Spec => []StoreTypeOK` |
| `TornNeedsTwoWritersHolds` | `Spec => []TornNeedsTwoWriters`, also when verbs overlap |
| `MetaNeverTornHolds` | `Spec => []MetaNeverTorn` (`Overlap = FALSE`) |
| `ResetRebuildsHolds` | `Spec => ResetRebuilds`, an action property (`Overlap = FALSE`) |
| `PinSurvivesResetHolds` | `Spec => PinSurvivesReset`, an action property (`Overlap = FALSE`) |

While no verb has opened the staging file of another one, whatever verbs overlap, `Solo`
says that every `store.json` in any tree is whole and is no tree's staging file
(`Names`), that at most one verb is between open and replace (`Lone`), and what its file
holds at each step (`Staged`); to know that its file is no `store.json`, `Fresh` says
which trees and files a verb has not made yet. For one verb at a time `SerialInv` adds
what a verb in flight may rely on, its store among it (`Held`), and what a reset knows
of the pin it found and of the store it took away (`ResetInv`). `NeverCrosses` shows
that such verbs never cross, which brings the first invariant in.

`DerivedFactsProofs` proves, for any number of runs and clients, any kinds of runs
and flags, any interleaving of verbs, deletes and crashes, from `FactsConstants`
alone:

| Theorem | Statement |
|---|---|
| `DerivedTypeOKHolds` | `Spec => []DerivedTypeOK` |
| `RefusesDeletedHolds` | `Spec => []RefusesDeleted` |
| `NoStaleBuildServedHolds` | `Spec => []NoStaleBuildServed` |
| `FactsAreFinalHolds` | `Spec => []FactsAreFinal` |
| `ComparisonHealsHolds` | `Spec => []ComparisonHeals` |

Typing is inductive only together with `WorkInv`: which fields of its memory a verb
relies on at each step (a chosen target, a chosen baseline, a mode). That a baseline
resolution answers with a run is `MaxIsIn` applied to the live runs, which rests on
the well-foundedness of the naturals. `RefusesDeleted` needs `DoomedInv`: a verb whose
subject was deleted before it began stands before its look at the evidence, or is in
its last steps with nothing but a coverage delta to answer with; `TombstonesStay` (no verb undoes a
delete) keeps the look negative. `NoStaleBuildServed` needs `RenewedInv`: after
the policy removed a finding, the cache of that run holds nothing or a finding of
this release, because every writer writes one of this release (`FindingsRenew`), so
that the second outcome can be returned as it comes, whoever derived it.

The last two are about verbs that never overlapped, so their invariant, `SoloInv`, is
conditional on that: at most one verb is in flight (`Alone`); a run that anything was
derived from is settled, its coverage facts no longer change (`PairFinal`,
`FindingFinal`); what a comparison or a localization in flight has decided agrees
with the caches it read (`ComparingInv`, `LocalizingInv`); and a comparison that has an
answer has what the cache holds (`HealInv`). A crash between any two steps leaves
all of it true, which is the self-heal.

`ReplayProofs` proves, for any records, sessions and numbers of reruns, with deletes,
resets and deaths between the steps, from `ReplayRuns`, `ReplayReruns` and
`ReplayRecords`: `AttemptsAreEvidenceHolds`, `StrictVerdictHolds`,
`FocalTestDivergedHolds`, `ReplayTypeOKHolds`, and `ReplayKeepsLedger`, that sessions
together with deletes and resets refine the `RunLedger` that `RunEvidence`
implements with files. Verdicts are computed at the end of a session from records
that deletes and other sessions may touch, so `ReplayInv` says what stays: what a
session tried is, in order, what it saw happen (`Accounted`, `Counted`); the context it
remembers is still the content of its original (`Remembered`); no run is tried or
stored twice (`Apart`); and a published result is the verdict of the session that ended
with it (`Published`). `Classify` depends only on contents that no longer change
(`ClassifyStable`), so a verdict once published remains the right one. What
`StrictVerdict` and `FocalTestDiverged` say of it is then about the operators alone:
the class (`VerdictClass`), and the focal test by what an index of outcomes
by test keeps of several results of one test (`CountsAreOutcomes`, `OriginalOutcomeCounts`).

`AnalysisProofs` proves, for any histories, coverage, findings, replays and other
clients, from `AnalysisConstants` (results and covered files are finite lists, lines
are numbers, paths can be sorted, and `TopN` is at least one):

| Theorem | Statement |
|---|---|
| `NoRegressionLostHolds` | `Spec => []NoRegressionLost` |
| `FailureNeverHiddenHolds` | `Spec => []FailureNeverHidden` |
| `AskedAgainHolds` | `Spec => []AskedAgain` |
| `CulpritRanksFirstHolds` | `Spec => []CulpritRanksFirst` |
| `SuspectsDoNotDependOnFormulaHolds` | `Spec => []SuspectsDoNotDependOnFormula` |
| `ExclusionLeavesSuspectsHolds` | `Spec => []ExclusionLeavesSuspects` |
| `CitationsResolveHolds` | `Spec => []CitationsResolve` |
| `AnalysisTypeOKHolds` | `Spec => []AnalysisTypeOK` |

`RegressionSaid` is about any bundle: what is said of one regressed test survives
both thinning rules, on its own or inside a compound about that very test.
`ToldIsSynthesized` carries it to what each run was told.

`FailureNeverHidden` is about the fold that collapses the results under one node id.
The library's induction theorems cannot be used here, so the two inductions are made
by hand from the well-foundedness of the naturals: the least number of results for
which the claim fails is neither 0 nor the successor of another. One shows that the
fold exists (`FoldExists`), the other that what it keeps is a failure as soon as one of
the results is (`FoldKeepsWell`). `RegInv` says that the stored facts of a pair are what a
comparison of these two runs says.

`AskedAgain` relates a bundle that was gathered in stages to one put together later
from what is stored. `GatherInv` says the bundle under way is, as far as the stages
came, that of the newest run; `ToldInv`, that a bundle told of is still what is stored,
because later stages, other clients' comparisons among them, leave the slots of
older runs alone (`ElsewhereUntouched`, `OthersUntouched`) and the facts of a pair do
not change once there (`RegGrows`). The two bundles need not be equal, only `Alike`: the
rules look at no stage's reason, only at its facts (`AlikeHits`, `AlikeIsTold`).

The other four are about suspects and their ranks, for coverage, counts and findings
of any size. Scores are fractions compared by cross multiplication; `ScoreIs` says for
each formula that they are in order, that a place is suspicious exactly when a failing
test ran it, and that none is above a place that all failing tests and no passing one
ran. A list sorted by them holds every candidate once, suspicious ones first
(`SortedIs`, `SuspectedFirst`), and its ranks start at one (`RanksExist`,
`FirstRankIs`): `RankedIs` says what a finding shows of its candidates. A function
keeps the worst of its lines whatever the formula (`GroupedIs`), so two formulas
disagree on scores and on nothing else (`Agree`), and leaving out test code decides
alike under both (`ExcludeTestsIs`, `KeptAlike`). That gives `CulpritRanksFirst` and
`SuspectsDoNotDependOnFormula`. The other two look at findings stored earlier:
`CovInv` and `LocInv` say each was made of its own run's results and coverage facts,
which did not change since. For `CitationsResolve` each rule is followed from the
bundle to its citations (`HitsAreWell`, `CitationsAreWell`), and `BlameInv` says that a
replay blames a test of the run it is of, or none.

`CulpritRanksFirst` is about the finding the run would get with room for every
candidate: a stored one is cut at `TopN`, and of more than `TopN` places that tie for
the first rank the cut decides by path and line. `AskedAgain` says nothing of a run whose finding
was made anew since, or whose replay could not be had; later runs are stored in the
order of their ids, and nothing is deleted.

`SubprocessProofs` proves `ReturnsReapedHolds`, `CaptureExactHolds` and
`SubprocessTypeOKHolds` for any cap, chunk, pipe and demand, from
`SubprocessConstants`. `ReturnsReaped` needs `ExitSeen`: a child ends, is reaped and is
noticed in that order, and no wait ends before. `CaptureExact` is inductive once the
counts are typed; the leaf that matters is the chunk in which the cap is crossed.

`RunEngineProofs` proves `FailingSuiteNeverPassesHolds` and `PassedMeansRunHolds` for
any machines, changes of the machine, requests, tests and number of runs, from
`MaxRunsAssumption`, `TestsAssumption` and `EnginesAssumption`. A record comes out of
`Finish` only, so the question is what `Finish` knows. `EndedInv` says it: which exit
codes the tool can have ended with, that only a report can lose a result, and, for
Maven and Gradle, that the reports in the workspace are of this run once its test
task ran. For a task found up to date there is `OneRun` instead: Gradle's reports are
all of one run, because the task replaces them; a passed record of such a run is about
that one. The former is what the clean-up before the launch is for
(`ReportsAreOfThisRun`), and it is established by `Launch` from whatever earlier
runs left. Adapter by adapter, a collection either refuses or takes the results that
are there (`CollectedIsTaken`); `FailuresAreRead` says that no vocabulary loses a
failure, and `RecordSays` what the record makes of them.

`ReadyIsRunnableHolds` and `EnginesAgreeHolds` follow from the same invariant and one
more each. `RunnableInv`: while the machine stays as it is, the engine past the gate is
still ready and the tool complains of exactly what it lacks; then, engine by engine,
what the probe asked for is what preflight and tool ask for (`ReadyPassesPreflight`,
`ReadyCollects`), but for the two things `ReadyIsRunnable` names, which the probe does
not ask. `AgreeInv`: each test of a tool that has ended got as far as its engine can
tell; then each vocabulary reads its own words back (`WordsAreRead`), each collection
takes a whole report whole (`WholeIsTaken`), and each verdict rule comes to the same
(`FinishAgrees`).

`EngineTypeOKHolds` needs `TypesInv`: the reports and coverage files on the disk are of
known tests and of runs made so far (`DiskTyped`, which each clean-up and each build
keep: `CleanedIsTyped`, `LeftIsTyped`), and an adapter that got past its preflight has a
build tool to look for. Every way out then is an error of a known kind or a record
(`PreflightRefuses`, `CollectedIsTaken`, `ResolvedIsKnown`).

`CoverageProofs` proves, for any payloads that `CoveragePayloads` admits, of any
length, any number of runs and any moving of sources:

| Theorem | Statement |
|---|---|
| `LinesAreDecidedHolds` | `Spec => []LinesAreDecided` |
| `NoLostHitHolds` | `Spec => []NoLostHit` |
| `TruncatedIsRefusedHolds` | `Spec => []TruncatedIsRefused` |
| `ProbeMissesNothingHolds` | `Spec => []ProbeMissesNothing` |
| `CoverageTypeOKHolds` | `Spec => []CoverageTypeOK` |

The state invariant is plain: stored facts are about files that were parsed of the
run's payload (`Sound`). The work is in what a parser makes of a list of any length.
Each parser is a fold, and the library's theorems on folds take operators, so the turn
of every loop is a case of one operator (`Turn`); that such a loop has a value after
every turn is shown once (`FoldExists`, `FoldGoes`), and a claim about it by the
induction `UpTo`. What is carried along the list differs: for Cobertura, that
each class so far has a file with at least its hits, and that a file is at odds with
itself only as the one class it was read from (`Merged`, `Alone`); for JaCoCo, that each
file is that of an entry; for LCOV, `LcovInv`: each block opened so far is closed with
its totals and some file has its hits (`Closed`, `Shown`), but for the one that is open,
whose counts are those of its records since (`Reading`, `Tallied`), so that the totals
it declares are compared with the right numbers when it ends (`BlockEnds`).
`TruncatedIsRefused` at first asked every declared total to be right; a block may
declare one twice, and the parser keeps the last.

Only model-checked:
- the liveness properties (`DeleteDecided`, `InitRecovers`, `AlwaysReturns`,
  `SessionEnds`), since fairness and `ENABLED` are beyond the prover. Every safety and action property of the passing runs is a theorem.

## 6. Where the code and what is said of it disagree

Two disagreements are runs that TLC ends with a counterexample (`PROJECT.json`
"findings" has the quotations):

1. `coverage_modules`: `_derive_junit_jacoco` wants a file before it looks at the
   several-modules case, and the adapter registers a directory
   (`coverage/derive.py:318`, `run/adapters/junit_adapter.py:431-434`).
2. `analysis_errored`: `record_has_failed_tests` trusts `summary_counts["failed"]`,
   which the junit and xunit normalizers write without the errored tests
   (`orchestration/recommendation/fact_bundle.py:358`, `categories.py:402-404`).

Others the models show, or that were met while they were written; the properties
that are checked are stated so as to hold beside them:

- Two overlapping deletes of a run can publish a truncated `record.json`
  (`memory/store.py:475`; 471 says a reader "never observes a torn record.json").
- A delete during `list_run_history` can end it with `FileNotFoundError`: the stat
  of a record without stamp is outside the isolation of one record
  (`memory/store.py:494`, against 162-163).
- `reset` of a store pinned by a newer release wipes, re-creates, and then refuses the
  pin (`workflows/reset.py:139`; 97-98 says this path "cannot fail"): a readable store is
  left, without a pin. It is in `store_serial`, and `ResetRebuilds` names it.
- A child that obeys SIGTERM ends the clean-up, though a kid of its group may live on
  (`utils/asyncio_subprocess.py:153`, against 192).
- A torn `coverage_facts.json` ends every later comparison of that run with a
  `JSONDecodeError` (`coverage/persistence.py:47`, against
  `docs/human/advanced.md:160-162`).
- A replay compares every occurrence of a test in a rerun with the one outcome the
  original's occurrences collapse to, so a title that occurs with both outcomes
  diverges from an identical rerun (`replay/classifier.py:202`, against 192-193).
  `FocalTestDiverged` leaves such outcomes aside.
- A Gradle build that fails before its test task leaves the reports of an earlier run,
  which are recorded as this run's, with the verdict failed or errored, never passed
  (`run/adapters/junit_adapter.py:711-719`, against `docs/release-notes/v0.2.0.md:140`).
- A Gradle test task that is up to date runs nothing, succeeds, and leaves the reports of the
  earlier run, which are recorded as a passed run of now
  (`run/adapters/junit_adapter.py:635-650` asks for `test` without `--rerun-tasks` or
  `cleanTest`; 711-719 count on Gradle to clean "when the task re-executes", and
  `docs/release-notes/v0.2.0.md:140-141` says "a stale JUnit report can no longer bleed
  into a later run"). `PassedMeansRun` and `EnginesAgree` name it.
- `gradlew` without its executable bit is ready for the probe and refused by the
  adapter; `ReadyIsRunnable` names it, as it names `pytest-cov`.
- A `dotnet restore` whose `dotnet` is gone raises a raw `FileNotFoundError`
  (`run/adapters/dotnet_adapter.py:1000-1006`).
- A reader of a record without a stamp that stats after a concurrent delete
  replaced it reports the deletion time (`memory/store.py:494`).
- A run deleted between a walk's two trees is listed twice, with two statuses.
- Two verbs that stage `store.json` at once can publish a text with the tail of a longer
  one behind it, which stays when both have ended without a crash
  (`memory/project_store.py:375-377`, against 366-373: "a crash or a concurrent reader
  therefore never observes a torn store.json"). It takes two writers, as
  `TornNeedsTwoWriters` says.
- Two overlapping inits of a fresh workspace can both create `store.json`, and one
  can replace the pin the other set with none.
- A verb's residue sweep removes the tree a running reset is removing, which then
  fails although the store could be rebuilt.
- SIGKILL may be sent to a group whose leader was just reaped, as its pid is looked
  up when the exit was not yet noticed.
- `compare` refuses regression facts about a deleted run and shows its coverage delta in
  the same answer: `compare_coverage_facts` looks at no tombstone
  (`orchestration/workflows/compare.py:73-76`, `coverage/compare.py:204-230`; against it
  stands only `regression/compare.py:90-92`, that tombstones short-circuit "regardless of
  cache state"). `RefusesDeleted` names the delta.
- A `compare` beside a `test` that has stored its run but not its coverage caches the
  pair with `coverage_change: null` for good; `docs/agent/advanced.md:302` says it is
  null unless both runs carried coverage facts.
- Two localize calls with different flags can return each other's finding, or die on
  a cache the other unlinked (`workflows/localization.py:405`).
- `docs/agent/advanced.md:478-487` says a finding cached by an older release is
  never dropped "because the binary changed"; `workflows/localization.py:282-298`
  re-derives exactly those.
- A failure-proximity ranking can never be reweighted by regression: it is chosen
  when the run has no coverage facts, and the weights come from a coverage change.
- `docs/agent/advanced.md:615` says `test` never runs a replay; `test --reruns N` does.
- `docs/agent/troubleshooting.md:588` calls `compare` read-only; it writes the pair's cache.
- A replay that was unavailable when `test` ran is forgotten when the run is asked
  about again, and the recommendations may differ then; `AskedAgain` excepts it.
- Several documents of Cobertura coverage overwrite one another per file
  (`coverage/cobertura_parser.py:264`); `NoLostHit` is about one document.
- Two LCOV blocks of one path give two entries, of which `compute_coverage_delta` reads
  the later (`coverage/compare.py:239`); `NoLostHit` takes them together.
- An LCOV block whose branch records were all cut is believed, whatever its `BRF` and
  `BRH` say: `_build_branch_pairs` returns before it looks at them
  (`coverage/lcov_parser.py:449-450`; against it 105-107, "`LF` / `LH` / `BRF` / `BRH`
  summary value disagrees ... → raise"). `TruncatedIsRefused` asks for these totals
  only beside a branch record.
- An LCOV block that declares a total twice is held to the last one
  (`coverage/lcov_parser.py:298-301`); `TruncatedIsRefused` is stated so.
- A Cobertura class that lists a line twice, once hit and once not, as Coverlet does for
  the accessors of a property on one line, gives a line both executed and missing, which
  the summary counts twice (`coverage/cobertura_parser.py:335-366`); only classes are
  merged with one another. `LinesAreDecided` excepts the lines of such a class where it
  is the only one of its file (`AtOdds`), and no others.
- Maven modules of one base name stage their coverage under one name; the failure logs of two
  tests whose names make one slug overwrite one another; the gap recommendations of
  two nested functions share an id (`categories.py:345`). None of these is in a model.
- A test result is cited by its first occurrence, whatever the collapsed outcome
  (`citations.py:382-386`): a test that also failed can be cited as passed. The model does the
  same; `CitationsResolve` asks that the outcome cited is that of one of its results.
- An inconsistent replay that blames no single test is told of with a `test_result`
  citation of `test_id` `''` and outcome `failed`, although no test has that id and no
  result was read (`categories.py:373`, `citations.py:231`, 382-393; against it
  `citations.py:3-8`, "every citation carry enough state to be resolved back to its source").
  `CitationsResolve` excepts this citation and no other.

## 7. What is not modelled, and the plan

Not modelled, and why:

- *Text*: command lines, rendering, envelopes, exit codes, help and license texts, the
  wording of recommendations. No state, and no property here is about wording.
- *Syntax*: XML, JSON and TRX reading, regular expressions over failure texts, the AST
  walk for symbols, normalisation of targets and paths. A model of them would restate
  them; what they yield is an input of the modules.
- *Numbers*: scores are exact fractions, so ties that floating point makes or breaks are
  not seen; durations and percentages are left out.
- `inspect`, `status` and discovery beyond the history walk, the target filter of
  the history, the availability flags of an entry, and reading a stored replay result:
  sequential readers of what the modules have.
- Symbols are resolved on the sources of now, not of the run (`localization/derive.py:1101`):
  `Analysis` keeps the sources fixed; `Coverage` lets files come and go but not change.
- Frames of jest with absolute paths, a defect the code itself names
  (`localization/derive.py:622-677`), are modelled as the code treats them.
- Installers and vendored reporters: outside the program.

What is left of the plan, the most important first:

1. Report merging: several reports and several occurrences per test in `Adapters`, and which of them counts.
2. The exit code and envelope of every way out, as a decision table over the answers of
   `RunEngine`, `Replay` and `DerivedFacts`.
3. A composition of `RunEngine` with `RunEvidence`'s recorder, as a refinement of `Execute`.
