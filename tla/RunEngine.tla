----------------------------- MODULE RunEngine ------------------------------
(***************************************************************************)
(* A workspace in which runs are made one after the other: engine          *)
(* resolution, the readiness gate, the adapter, the normalizer             *)
(* (orchestration/workflows/run.py, run/engine.py). Storing the record is  *)
(* RunEvidence's business. Between any two steps the machine may change:   *)
(* tools come and go, packages are removed, manifests are edited.          *)
(***************************************************************************)
EXTENDS Adapters, Normalizer, FiniteSets

CONSTANTS
  MaxRuns,    \* bound on the runs made
  Machines,   \* sets of hosts: what one machine and workspace may change between
  Requests,   \* [override, shape, names, coverage]
  FirstPins   \* what the store's metadata may pin when it all starts

ASSUME MaxRunsAssumption == MaxRuns \in Nat \ {0}
ASSUME TestsAssumption == IsFiniteSet(Tests)
\* --engine and the pin name engines of this release, a target names tests.
ASSUME EnginesAssumption ==
  /\ \A r \in Requests : r.override \in Engines \cup {"none"} /\ r.names \subseteq Tests
  /\ FirstPins \subseteq Engines \cup {"none"}

VARIABLES
  host,     \* the machine and the workspace
  pin,      \* the engine pinned in the store
  pc,       \* "idle", "asked", "ready", "ended"
  req,      \* the request, with the engine it was resolved to
  n,        \* the number of the run
  calm,     \* the host has not changed since the probe
  disk,     \* the build outputs of the workspace
  child,    \* what the tool did
  answer    \* what the invocation answered: an error kind or a run record

vars == <<host, pin, pc, req, n, calm, disk, child, answer>>

NoReq == [engine |-> "none", shape |-> "workspace", names |-> {}, coverage |-> FALSE]
NoChild == [timedOut |-> FALSE, rc |-> 0, built |-> FALSE, upToDate |-> FALSE, ran |-> <<>>, lost |-> {},
            report |-> "none", success |-> FALSE, numFailed |-> 0, cov |-> FALSE, lacks |-> {},
            blind |-> FALSE]
NoAnswer == [kind |-> "nothing"]

Init ==
  /\ host \in UNION Machines /\ pin \in FirstPins
  /\ pc = "idle" /\ req = NoReq /\ n = 0 /\ calm = FALSE
  /\ disk = CleanDisk /\ child = NoChild /\ answer = NoAnswer

Refuse(kind) ==
  /\ pc' = "idle" /\ answer' = [kind |-> kind]

\* A verb starts: which engine? D1's choice is pinned before anything runs.
Ask(r) ==
  /\ pc = "idle" /\ n < MaxRuns
  /\ n' = n + 1 /\ child' = NoChild /\ UNCHANGED <<host, calm, disk>>
  /\ LET resolved == Resolve(r.override, pin, host) IN
     IF resolved.engine = "none"
     THEN Refuse(resolved.how) /\ UNCHANGED <<pin, req>>
     ELSE /\ req' = [engine |-> resolved.engine, shape |-> r.shape, names |-> r.names,
                     coverage |-> r.coverage]
          /\ pin' = IF resolved.how = "backfill" THEN resolved.engine ELSE pin
          /\ pc' = "asked" /\ answer' = NoAnswer

\* The readiness gate of exactly that engine.
Gate ==
  /\ pc = "asked"
  /\ calm' = TRUE
  /\ IF Ready(req.engine, host) THEN pc' = "ready" /\ UNCHANGED answer ELSE Refuse("engine-not-ready")
  /\ UNCHANGED <<host, pin, req, n, disk, child>>

-----------------------------------------------------------------------------
(***************************************************************************)
(* The native tool (external): how far each test it was told to run gets,  *)
(* and which of its outputs it leaves.                                     *)
(***************************************************************************)
\* Exit codes: pytest tells a failed suite (1) from an interrupted one (2),
\* a bad command line (4) and an empty one (5); the others only succeed or
\* fail, and may fail for reasons of their own.
ExitCodes(e, ran, built, ignores) ==
  CASE e = "pytest" -> IF ran = <<>> THEN {2, 4, 5} ELSE IF Failing(ran) THEN {1, 2} ELSE {0, 2}
    [] e # "pytest" /\ (~built \/ Unfinished(ran)) -> {1}
    [] e # "pytest" /\ built /\ ~Unfinished(ran) /\ Failing(ran) -> IF ignores THEN {0, 1} ELSE {1}
    [] OTHER -> {0, 1}

\* What each engine calls an error of a test is known to three of them.
Reachable(e) ==
  CASE e \in {"go-test", "cargo-test"} -> {"passed", "failed", "skipped", "started"}
    [] e = "jest" -> {"passed", "failed", "skipped"}
    [] OTHER -> {"passed", "failed", "errored", "skipped"}

\* A report lost in part: a class whose XML is malformed, or the end of a
\* captured output that is cut at its cap.
LosesPart(e) == e \in {"go-test", "cargo-test", "junit"}

\* What stderr can complain about.
Lacks(e) ==
  CASE e = "pytest" ->
         {m \in {"pytest", "json-report", "pytest-cov"} : <<Interpreter(host), m>> \notin host.imports}
    [] e = "jest" -> IF "node_modules/.bin/jest" \in host.marks THEN {} ELSE {"jest"}
    [] e = "cargo-test" -> IF "old nextest" \in host.marks THEN {"libtest-json"} ELSE {}
    [] OTHER -> {}

\* A tool that lacks something it is loaded with writes no report.
Reports(e, req0, built) ==
  IF \/ ~built
     \/ e \in {"pytest", "jest"} /\ Lacks(e) \ (IF req0.coverage THEN {} ELSE {"pytest-cov"}) # {}
  THEN {"none"}
  ELSE IF e \in {"pytest", "jest", "xunit"} THEN {"none", "torn", "whole"} ELSE {"whole"}

\* jest's own verdict on the suite: a suite that succeeded may still exit with
\* 1, below a coverage threshold, and one without a failing test may fail.
Successes(e, ran, rc) ==
  CASE e # "jest" \/ Failing(ran) -> {FALSE} [] e = "jest" /\ ~Failing(ran) /\ rc = 0 -> {TRUE}
    [] OTHER -> BOOLEAN

FailedCount(ran) == Cardinality({t \in DOMAIN ran : ran[t] \in {"failed", "errored"}})

Spawn ==
  LET e == req.engine IN
  LET blind == IgnoresFailures(req, host) IN
  \E built \in BOOLEAN, upToDate \in BOOLEAN, timedOut \in BOOLEAN, cov \in BOOLEAN :
    /\ cov => built /\ req.coverage
    /\ upToDate => built /\ MayBeUpToDate(req, host, disk)
    /\ \E asked \in SUBSET Asked(req, host) :
       \E ran \in [IF built /\ ~upToDate THEN asked ELSE {} -> Reachable(e)] :
       \E rc \in ExitCodes(e, ran, built, blind) :
       \E lost \in SUBSET (IF LosesPart(e) THEN DOMAIN ran ELSE {}) :
       \E report \in Reports(e, req, built), success \in Successes(e, ran, rc) :
         child' = [timedOut |-> timedOut, rc |-> rc, built |-> built, upToDate |-> upToDate, ran |-> ran,
                   lost |-> lost, report |-> report, success |-> success, numFailed |-> FailedCount(ran),
                   cov |-> cov, lacks |-> Lacks(e), blind |-> blind]

-----------------------------------------------------------------------------
\* The adapter launches the tool, unless it refuses, or the launcher is
\* gone by the time it is started.
Launch ==
  /\ pc = "ready"
  /\ LET kind == Preflight(req, host) IN
     IF kind # "none"
     THEN Refuse(kind) /\ UNCHANGED <<disk, child, calm>>
     ELSE LET cleaned == BeforeRun(req, host, disk) IN
          \/ /\ \E early \in BOOLEAN : Refuse(Vanished(req, host, early))
             /\ calm' = FALSE /\ disk' \in {disk, cleaned} /\ UNCHANGED child
          \/ /\ Spawn
             /\ disk' = AfterRun(req, host, cleaned, child', n)
             /\ pc' = "ended" /\ UNCHANGED <<calm, answer>>
  /\ UNCHANGED <<host, pin, req, n>>

\* The run record of a native result.
Record(native) ==
  LET words == [t \in DOMAIN native.results |-> Word(req.engine, native.results[t].status)]
      results == [t \in DOMAIN words |-> Normalized(req.engine, words[t])]
      status == Verdict(req.engine, results, child)
      empty == results = <<>> /\ status = "passed"
  IN  [kind |-> "record", status |-> status, results |-> results,
       from |-> {native.results[t].by : t \in DOMAIN results}, cov |-> native.cov,
       warnings |-> Warnings(req, host) \cup (IF empty THEN {"zero-tests-collected"} ELSE {})]

Finish ==
  /\ pc = "ended"
  /\ pc' = "idle"
  /\ LET native == Collect(req, host, child, disk, n) IN
     answer' = IF native.kind = "none" THEN Record(native) ELSE [kind |-> native.kind]
  /\ UNCHANGED <<host, pin, req, n, calm, disk, child>>

\* The machine changes (external). The workspace's own build outputs stay.
Drift ==
  /\ pc \in {"asked", "ready"} \/ (pc = "idle" /\ n < MaxRuns)
  /\ \E m \in Machines : host \in m /\ host' \in m \ {host}
  /\ calm' = FALSE
  /\ UNCHANGED <<pin, pc, req, n, disk, child, answer>>

Done == pc = "idle" /\ n = MaxRuns /\ UNCHANGED vars

Next ==
  \/ \E r \in Requests : Ask(r)
  \/ Gate
  \/ Launch
  \/ Finish
  \/ Drift
  \/ Done

Spec == Init /\ [][Next]_vars

-----------------------------------------------------------------------------
Recorded == answer.kind = "record"

ErrorKinds ==
  {"nothing", "undetected", "ambiguous", "engine-not-ready", "invalid-target", "missing-binary",
   "missing-engine", "missing-plugin", "build-tool-undetermined", "project-not-found", "timed-out",
   "misconfigured-environment", "unparseable-output", "FileNotFoundError"}

\* Types: what every step of a run keeps, whatever tool ran. An answer is an
\* error of a known kind or a record of a verdict over known tests.
EngineTypeOK ==
  /\ n \in 0..MaxRuns
  /\ pc \in {"idle", "asked", "ready", "ended"}
  /\ pin \in Engines \cup {"none"} /\ req.engine \in Engines \cup {"none"}
  /\ \A b \in DOMAIN disk : DOMAIN disk[b].reports \subseteq Tests /\ disk[b].jacoco \in 0..n
  /\ Recorded => /\ answer.status \in {"passed", "failed", "errored"}
                 /\ DOMAIN answer.results \subseteq Tests /\ answer.from \subseteq 1..n
  /\ ~Recorded => answer.kind \in ErrorKinds

\* What the probe calls ready can be run: on a machine that does not change
\* after the probe, no adapter misses its tool. Two things are not probed:
\* pytest-cov, needed for --coverage only, and whether gradlew may be
\* executed, which the adapter asks and the probe does not.
ReadyIsRunnable ==
  calm /\ answer.kind \in {"missing-binary", "missing-engine", "missing-plugin", "FileNotFoundError",
                           "build-tool-undetermined", "project-not-found"}
    => \/ req.engine = "pytest" /\ req.coverage /\ <<Interpreter(host), "pytest-cov">> \notin host.imports
       \/ req.engine = "junit" /\ "gradlew" \in host.marks /\ "gradlew +x" \notin host.marks

\* A suite with a failing test is never recorded as passed, although each
\* engine's verdict is put together from an exit code, a flag and a report
\* in its own way. It takes both an exit code that ignores failures
\* (--coverage with cargo, Maven and Gradle) and a failure lost from the
\* report (a malformed class report, captured output cut at its cap).
FailingSuiteNeverPasses ==
  Recorded /\ answer.status = "passed" /\ Failing(child.ran)
    => child.blind /\ \E t \in child.lost : child.ran[t] \in {"failed", "errored"}

\* A passed run is about this run: every result in it comes from this
\* execution, and if there is none at all a warning says so. What is left of
\* an earlier run passes for this one's only where Gradle found its test task
\* up to date and ran nothing (README, section 6); even then it is what one
\* run left, never a mixture of several.
PassedMeansRun ==
  Recorded /\ answer.status = "passed"
    => \/ answer.from = {n}
       \/ "zero-tests-collected" \in answer.warnings
       \/ child.upToDate /\ \E m \in 1..n : answer.from = {m}

\* One vocabulary: a suite that was built, was run (not found up to date) to
\* its end and was reported whole has the same results and the same verdict
\* under every engine.
EnginesAgree ==
  LET whole == /\ child.built /\ ~child.upToDate
               /\ child.lost = {} /\ child.report = "whole" /\ ~Unfinished(child.ran)
      plain == child.rc = 0 \/ (child.rc = 1 /\ Failing(child.ran))
  IN  Recorded /\ whole /\ plain
    => /\ answer.results = child.ran
       /\ answer.status = IF Failing(child.ran) THEN "failed" ELSE "passed"
=============================================================================
