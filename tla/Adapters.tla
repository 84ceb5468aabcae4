------------------------------ MODULE Adapters ------------------------------
(***************************************************************************)
(* The six engine adapters of run/adapters: what each checks before it     *)
(* launches the native tool, what the tool can leave behind, and what the  *)
(* adapter makes of it, an error kind or a native result.                  *)
(*                                                                         *)
(* req    [engine, shape, names, coverage]: the engine, whether the target *)
(*        is the workspace, a directory, a filter (file, node id, class)   *)
(*        or holds characters a launcher would misread, the tests it       *)
(*        names, and --coverage                                            *)
(* c      one execution of the tool: did it start and end in time, its     *)
(*        exit code, did it build, was its test task up to date, how far   *)
(*        each test got, the tests whose outcome the report lost, the      *)
(*        report file, jest's success flag and count of failed tests, the  *)
(*        coverage file and what stderr says is missing                    *)
(* disk   the build outputs Maven and Gradle keep in the workspace: the    *)
(*        report of each test and the coverage file, with the run that     *)
(*        wrote them, and for what tests Gradle's test task is up to date  *)
(***************************************************************************)
EXTENDS Readiness

CONSTANT Tests

Shapes == {"workspace", "directory", "filter", "dash", "metachar"}

\* "started" is a test that was begun and never finished.
Outcomes == {"passed", "failed", "errored", "skipped", "started"}

-----------------------------------------------------------------------------
(***************************************************************************)
(* Before the launch.                                                      *)
(***************************************************************************)
\* A leading dash would be read as an option; a metacharacter would reach
\* cmd.exe, through which npx, mvn and gradle run on Windows. xunit's target
\* is embedded in a filter expression and is not guarded.
Misread(e, shape) ==
  \/ shape = "dash" /\ e \in {"pytest", "go-test", "cargo-test"}
  \/ shape = "metachar" /\ e \in {"jest", "junit"}

\* Is there something to launch? pytest's interpreter is taken as it is. A
\* Gradle wrapper counts only if it is executable.
LauncherFound(e, host) ==
  CASE e = "pytest" -> TRUE
    [] e = "jest" -> "npx" \in host.tools
    [] e = "go-test" -> "go" \in host.tools
    [] e = "cargo-test" -> "cargo" \in host.tools
    [] e = "xunit" -> "dotnet" \in host.tools
    [] e = "junit" -> \/ BuildTool(host) = "maven" /\ "mvn" \in host.tools
                      \/ /\ BuildTool(host) = "gradle"
                         /\ {"gradlew", "gradlew +x"} \subseteq host.marks \/ "gradle" \in host.tools

\* A list of <<passed, kind>>: the kind of the first that is not passed.
FirstKind(gates) ==
  LET i == SelectInSeq(gates, LAMBDA g : ~g[1]) IN IF i = 0 THEN "none" ELSE gates[i][2]

Preflight(req, host) ==
  LET e == req.engine
      target == <<~Misread(e, req.shape), "invalid-target">>
      launcher == <<LauncherFound(e, host), "missing-binary">>
  IN  FirstKind(
        CASE e \in {"pytest", "jest"} -> <<target, launcher>>
          [] e \in {"go-test", "cargo-test"} -> <<launcher, target>>
          [] e = "junit" -> <<target, <<BuildTool(host) # "none", "build-tool-undetermined">>, launcher>>
          [] e = "xunit" -> <<launcher, <<host.projects # <<>>, "project-not-found">> >>)

\* cargo, Gradle and xunit run the whole suite for a directory target: the
\* expression is not a path in their filter languages.
IgnoresDirectory(e, host) ==
  e \in {"cargo-test", "xunit"} \/ (e = "junit" /\ BuildTool(host) = "gradle")

\* The tests the tool is told to run.
Asked(req, host) ==
  IF \/ req.shape = "workspace"
     \/ req.shape = "directory" /\ IgnoresDirectory(req.engine, host)
  THEN Tests ELSE req.names

\* The version of coverlet.collector in the restored package graph: "none"
\* if it is not there, or if neither query of the graph answers.
Coverlet(host) ==
  IF Runs(host, "dotnet list")
  THEN CASE "coverlet" \in host.marks -> "supported"
         [] "coverlet old" \in host.marks /\ "coverlet" \notin host.marks -> "old"
         [] OTHER -> "none"
  ELSE "none"

\* Is the tool really asked for coverage?
Collects(req, host) ==
  /\ req.coverage
  /\ req.engine = "junit" => "jacoco" \in host.marks
  /\ req.engine = "xunit" => /\ XunitMajor(TestProject(host.projects).refs) # 3
                             /\ Coverlet(host) # "none"

\* The exit code then says nothing about failed tests: --ignore-run-fail,
\* -Dmaven.test.failure.ignore and the ignoreFailures init script.
IgnoresFailures(req, host) == req.engine \in {"cargo-test", "junit"} /\ Collects(req, host)

\* The launcher can be gone when it is started. Only the launch of the tests
\* itself is guarded against that, and pytest's is not; xunit's coverage
\* starts dotnet before, to restore the packages.
Vanished(req, host, early) ==
  LET restores == req.engine = "xunit" /\ req.coverage /\ XunitMajor(TestProject(host.projects).refs) # 3
  IN  IF req.engine = "pytest" \/ (restores /\ early) THEN "FileNotFoundError" ELSE "missing-binary"

JunitWarnings(req, host) ==
  {w \in {"ambiguous-build-tool", "missing-jacoco"} :
     IF w = "missing-jacoco" THEN req.coverage /\ "jacoco" \notin host.marks
     ELSE {"pom.xml", "build.gradle"} \subseteq host.marks}

\* Only one project is run: a solution, or two projects with test-like
\* names, make that worth a warning.
XunitWarnings(req, host) ==
  LET named == SelectSeq(host.projects, LAMBDA p : p.named)
      v3 == XunitMajor(TestProject(host.projects).refs) = 3
  IN  {w \in {"ambiguous-project-layout", "xunit-v3-coverage-deferred", "coverlet-absent", "coverlet-below-floor"} :
         CASE w = "ambiguous-project-layout" -> "*.sln" \in host.marks \/ Len(named) > 1
           [] w = "xunit-v3-coverage-deferred" -> v3
           [] w = "coverlet-absent" -> req.coverage /\ ~v3 /\ Coverlet(host) = "none"
           [] w = "coverlet-below-floor" -> req.coverage /\ ~v3 /\ Coverlet(host) = "old"}

Warnings(req, host) ==
  CASE req.engine = "junit" -> JunitWarnings(req, host)
    [] req.engine = "xunit" -> XunitWarnings(req, host)
    [] OTHER -> {}

-----------------------------------------------------------------------------
(***************************************************************************)
(* The build outputs of the workspace.                                     *)
(***************************************************************************)
NoReports == <<>>
CleanDisk ==
  [b \in {"maven", "gradle"} |-> [dir |-> FALSE, reports |-> NoReports, jacoco |-> 0, tested |-> {}]]

\* Mutant: Surefire's reports are left for the next run.
BeforeRunKeeping(req, host, disk) == disk

\* Surefire never cleans its report directory, so the adapter removes it;
\* Gradle is left to clean its own. Nobody removes the coverage file.
BeforeRun(req, host, disk) ==
  IF req.engine = "junit" /\ BuildTool(host) = "maven"
  THEN [disk EXCEPT !["maven"] = [dir |-> FALSE, reports |-> NoReports, jacoco |-> @.jacoco, tested |-> {}]]
  ELSE disk

Seen(c) == {t \in DOMAIN c.ran : c.ran[t] # "started"}
ResultsOf(c, run) == [t \in Seen(c) \ c.lost |-> [status |-> c.ran[t], by |-> run]]

\* Reports written over those of before. (@@ is opaque to the prover.)
Overlaid(new, old) ==
  [t \in DOMAIN new \cup DOMAIN old |-> IF t \in DOMAIN new THEN new[t] ELSE old[t]]

Failing(ran) == \E t \in DOMAIN ran : ran[t] \in {"failed", "errored"}
Unfinished(ran) == \E t \in DOMAIN ran : ran[t] = "started"

\* Gradle's test task ended well: coverage is only reported after it.
TaskSucceeded(c) == (c.timedOut => c.cov) /\ (Failing(c.ran) => c.blind)

\* The adapter asks for the task "test" and does not force it: one that is
\* asked again for what it did well is up to date and may not run.
MayBeUpToDate(req, host, disk) ==
  req.engine = "junit" /\ BuildTool(host) = "gradle" /\ Asked(req, host) \in disk["gradle"].tested

\* What the build tool leaves (external): Surefire adds a file per class it
\* ran; Gradle's test task replaces the directory, but only if the build
\* got that far and the task is not up to date; the coverage goal rewrites
\* its file.
AfterRun(req, host, disk, c, run) ==
  IF req.engine # "junit" \/ ~c.built THEN disk
  ELSE LET b == BuildTool(host)
           replaced == [dir |-> TRUE, reports |-> ResultsOf(c, run),
                        tested |-> IF TaskSucceeded(c) THEN {Asked(req, host)} ELSE {}]
           added == [dir |-> disk[b].dir \/ DOMAIN c.ran # {},
                     reports |-> Overlaid(ResultsOf(c, run), disk[b].reports), tested |-> {}]
           left == IF c.upToDate THEN disk[b] ELSE IF b = "gradle" THEN replaced ELSE added
       IN  [disk EXCEPT ![b] = [dir |-> left.dir, reports |-> left.reports, tested |-> left.tested,
                                jacoco |-> IF Collects(req, host) /\ c.cov THEN run ELSE @.jacoco]]

-----------------------------------------------------------------------------
(***************************************************************************)
(* After the tool has ended: an error kind, or the results by test and the *)
(* run whose coverage file is staged (0 for none).                         *)
(***************************************************************************)
Native(results, cov) == [kind |-> "none", results |-> results, cov |-> cov]
Refused(kind) == [kind |-> kind, results |-> NoReports, cov |-> 0]

\* The native result, unless a gate is not passed.
Unless(gates, native) ==
  LET kind == FirstKind(gates) IN IF kind = "none" THEN native ELSE Refused(kind)

OwnCov(req, c, run) == IF req.coverage /\ c.cov THEN run ELSE 0

PytestCollect(req, c, run) ==
  LET there == c.report # "none" IN
  Unless(<< <<there \/ "json-report" \notin c.lacks, "missing-plugin">>,
            <<there \/ ~req.coverage \/ "pytest-cov" \notin c.lacks, "missing-plugin">>,
            <<there \/ "pytest" \notin c.lacks, "missing-engine">>,
            <<c.report = "whole", "unparseable-output">>,
            <<req.coverage /\ c.rc = 0 => c.cov, "unparseable-output">> >>,
         Native(ResultsOf(c, run), OwnCov(req, c, run)))

JestCollect(req, c, run) ==
  LET there == c.report # "none" IN
  Unless(<< <<there \/ "jest" \notin c.lacks, "missing-plugin">>,
            <<c.report = "whole", "unparseable-output">>,
            <<req.coverage => c.cov, "unparseable-output">> >>,
         Native(ResultsOf(c, run), OwnCov(req, c, run)))

\* go's events come from the captured output. A build that failed is a
\* result without tests, not an error.
GotestCollect(req, c, run) ==
  LET buildFailed == DOMAIN c.ran = {} /\ c.rc # 0 IN
  Unless(<< <<req.coverage /\ ~buildFailed => c.cov, "unparseable-output">> >>,
         Native(ResultsOf(c, run), IF buildFailed THEN 0 ELSE OwnCov(req, c, run)))

\* cargo's too; there a build that failed, or a filter that matched nothing,
\* is an error.
CargoCollect(req, c, run) ==
  LET unread == IF "libtest-json" \in c.lacks THEN "misconfigured-environment" ELSE "unparseable-output"
  IN  Unless(<< <<DOMAIN c.ran # {} \/ c.rc = 0, unread>>,
                <<req.coverage => c.cov, unread>> >>,
             Native(ResultsOf(c, run), OwnCov(req, c, run)))

\* Whatever is in the build directory is taken for this run's.
JunitCollect(req, c, disk) ==
  Unless(<< <<disk.dir \/ c.rc = 0, "unparseable-output">> >>,
         Native(IF disk.dir THEN disk.reports ELSE NoReports,
                IF req.coverage THEN disk.jacoco ELSE 0))

XunitCollect(req, host, c, run) ==
  Unless(<< <<c.report # "none" \/ c.rc = 0, "unparseable-output">>,
            <<c.report # "torn", "unparseable-output">> >>,
         Native(IF c.report = "whole" THEN ResultsOf(c, run) ELSE NoReports,
                IF Collects(req, host) THEN OwnCov(req, c, run) ELSE 0))

Collect(req, host, c, disk, run) ==
  IF c.timedOut THEN Refused("timed-out")
  ELSE CASE req.engine = "pytest" -> PytestCollect(req, c, run)
         [] req.engine = "jest" -> JestCollect(req, c, run)
         [] req.engine = "go-test" -> GotestCollect(req, c, run)
         [] req.engine = "cargo-test" -> CargoCollect(req, c, run)
         [] req.engine = "junit" -> JunitCollect(req, c, disk[BuildTool(host)])
         [] req.engine = "xunit" -> XunitCollect(req, host, c, run)
=============================================================================
