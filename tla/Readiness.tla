------------------------------ MODULE Readiness ------------------------------
(***************************************************************************)
(* Which engine a workspace runs, and whether it can: marker detection     *)
(* (run/engine_selector.py), the readiness probe of each engine            *)
(* (run/readiness.py), and the single-choice rule built on the two         *)
(* (orchestration/anchor_resolution.py).                                   *)
(*                                                                         *)
(* A host is what a probe can see of the machine and of the workspace:     *)
(*   marks    facts about files of the workspace                           *)
(*   tools    executables found on PATH                                    *)
(*   broken   commands that cannot be started or exit non-zero             *)
(*   imports  pairs <<interpreter, module>> that can be imported           *)
(*   projects the C# projects found at the root, one level deep and in     *)
(*            the root's solutions, in path order: whether each declares   *)
(*            itself a test project, has a test-like name, and what test   *)
(*            frameworks it refers to                                      *)
(***************************************************************************)
EXTENDS Naturals, Sequences, SequencesExt

\* The supported engines. The order of the marker table decides nothing.
Engines == {"pytest", "jest", "junit", "go-test", "cargo-test", "xunit"}

Markers(e) ==
  CASE e = "pytest" -> {"pyproject.toml", "setup.py", "setup.cfg", "pytest.ini"}
    [] e = "jest" -> {"package.json"}
    [] e = "junit" -> {"pom.xml", "build.gradle"}
    [] e = "go-test" -> {"go.mod"}
    [] e = "cargo-test" -> {"Cargo.toml"}
    [] e = "xunit" -> {"*.sln", "*.csproj"}

Candidates(host) == {e \in Engines : Markers(e) \cap host.marks # {}}

-----------------------------------------------------------------------------
\* A command starts and exits zero. `which` only looks at PATH: the binary
\* may be gone when it is started, which the probes treat like a failure.
Runs(host, cmd) == cmd \notin host.broken

\* A probe is a sequence of gates <<passed, state, issue>>; the first gate
\* not passed decides. A missing engine is not named in the answer: its
\* context is dropped.
FirstOf(gates) ==
  LET i == SelectInSeq(gates, LAMBDA g : ~g[1])
  IN  IF i = 0 THEN [state |-> "ready", issues |-> {}]
      ELSE [state |-> gates[i][2], issues |-> {gates[i][3]}]

\* The interpreter of the workspace's .venv when pytest's script is in it,
\* the one that runs novetest otherwise.
Interpreter(host) == IF ".venv/pytest" \in host.marks THEN "venv" ELSE "own"

\* A pyproject.toml that cannot be read ends the search: setup.cfg is then
\* not looked at.
PytestConfigured(host) ==
  \/ host.marks \cap {"pytest.ini", "conftest.py", "tests/"} # {}
  \/ "pyproject[pytest]" \in host.marks /\ "pyproject unreadable" \notin host.marks
  \/ /\ "setup.cfg[pytest]" \in host.marks
     /\ {"pyproject unreadable", "setup.cfg unreadable"} \cap host.marks = {}

\* pytest's two import probes are both made and both reported.
PytestProbe(host) ==
  LET absent == {m \in {"pytest", "json-report"} : <<Interpreter(host), m>> \notin host.imports}
  IN  IF ~PytestConfigured(host) THEN [state |-> "engine-missing", issues |-> {"unconfigured"}]
      ELSE [state |-> IF absent = {} THEN "ready" ELSE "engine-misconfigured",
            issues |-> absent]

\* Mutant: a declaration in package.json is enough.
JestProbeDeclared(host) ==
  FirstOf(<< <<{"node", "npx"} \subseteq host.tools, "engine-missing", "node">>,
             <<"package.json[jest]" \in host.marks, "engine-misconfigured", "undeclared">> >>)

\* jest must be declared in package.json or installed, and installed in
\* any case.
JestProbe(host) ==
  LET installed == "node_modules/.bin/jest" \in host.marks
  IN  FirstOf(<< <<{"node", "npx"} \subseteq host.tools, "engine-missing", "node">>,
                 <<installed \/ "package.json[jest]" \in host.marks, "engine-misconfigured", "undeclared">>,
                 <<installed, "engine-misconfigured", "not-installed">> >>)

GotestProbe(host) ==
  FirstOf(<< <<"go" \in host.tools, "engine-missing", "go">>,
             <<"go.mod" \in host.marks, "engine-misconfigured", "marker-gone">>,
             <<Runs(host, "go"), "engine-misconfigured", "go-broken">> >>)

CargoProbe(host) ==
  FirstOf(<< <<"cargo" \in host.tools, "engine-missing", "cargo">>,
             <<"Cargo.toml" \in host.marks, "engine-misconfigured", "marker-gone">>,
             <<Runs(host, "nextest"), "engine-misconfigured", "nextest">>,
             <<Runs(host, "cargo"), "engine-misconfigured", "cargo-broken">> >>)

\* The build tool: Maven before Gradle.
BuildTool(host) ==
  CASE "pom.xml" \in host.marks -> "maven"
    [] "pom.xml" \notin host.marks /\ "build.gradle" \in host.marks -> "gradle"
    [] OTHER -> "none"

\* Manifests that carry JUnit 4 or TestNG are refused with Jupiter and
\* without it; the issue names the framework either way.
JunitProbe(host) ==
  FirstOf(<< <<"windows" \notin host.marks, "engine-misconfigured", "os">>,
             <<BuildTool(host) # "none", "engine-misconfigured", "marker-gone">>,
             <<"java" \in host.tools, "engine-misconfigured", "java">>,
             <<BuildTool(host) = "maven" => "mvn" \in host.tools, "engine-misconfigured", "mvn">>,
             <<BuildTool(host) = "gradle" => "gradle" \in host.tools \/ "gradlew" \in host.marks,
               "engine-misconfigured", "gradle">>,
             <<"junit4" \notin host.marks, "engine-misconfigured", "junit4">>,
             <<"testng" \notin host.marks, "engine-misconfigured", "testng">>,
             <<"jupiter" \in host.marks, "engine-misconfigured", "no-jupiter">> >>)

\* Of several projects: those that declare themselves test projects before
\* the others, a test-like name before the others, then path order.
TestProject(found) ==
  LET declared == SelectSeq(found, LAMBDA p : p.declares)
      pool == IF declared = <<>> THEN found ELSE declared
      named == SelectSeq(pool, LAMBDA p : p.named)
  IN  IF named = <<>> THEN Head(pool) ELSE Head(named)

\* A reference to xunit 3 wins over one to xunit 2.
XunitMajor(refs) ==
  CASE "xunit3" \in refs -> 3
    [] "xunit3" \notin refs /\ "xunit2" \in refs -> 2
    [] OTHER -> 0

\* xunit 3 is ready too: only its coverage is deferred.
XunitProbe(host) ==
  LET refs == IF host.projects = <<>> THEN {} ELSE TestProject(host.projects).refs
  IN  FirstOf(<< <<"dotnet" \in host.tools, "engine-missing", "dotnet">>,
                 <<host.projects # <<>>, "engine-misconfigured", "no-csproj">>,
                 <<XunitMajor(refs) # 0, "engine-misconfigured",
                   IF "mstest" \in refs THEN "mstest"
                   ELSE IF "nunit" \in refs THEN "nunit" ELSE "no-xunit">> >>)

Probe(e, host) ==
  CASE e = "pytest" -> PytestProbe(host)
    [] e = "jest" -> JestProbe(host)
    [] e = "junit" -> JunitProbe(host)
    [] e = "go-test" -> GotestProbe(host)
    [] e = "cargo-test" -> CargoProbe(host)
    [] e = "xunit" -> XunitProbe(host)

Ready(e, host) == Probe(e, host).state = "ready"

-----------------------------------------------------------------------------
(***************************************************************************)
(* D1: one candidate is chosen whether it is ready or not, so that its     *)
(* verdict can be reported; among several, the only ready one; otherwise   *)
(* the user has to choose among the ready ones, or among all if none is.   *)
(***************************************************************************)
Choose(host) ==
  LET all == Candidates(host)
      ready == {e \in all : Ready(e, host)}
  IN  CASE all = {} -> [choice |-> "undetected", among |-> {}]
        [] \E e \in all : all = {e} -> [choice |-> "chosen", among |-> all]
        [] (\A e \in all : all # {e}) /\ (\E e \in ready : ready = {e}) ->
             [choice |-> "chosen", among |-> ready]
        [] OTHER -> [choice |-> "ambiguous", among |-> IF ready = {} THEN all ELSE ready]

\* What an execution verb dispatches on: the override, else the pin, else
\* D1's choice, which is then pinned. "none" stands for no override, no pin.
Resolve(override, pin, host) ==
  CASE override # "none" -> [how |-> "override", engine |-> override]
    [] override = "none" /\ pin # "none" -> [how |-> "pin", engine |-> pin]
    [] OTHER ->
         LET c == Choose(host)
         IN  IF c.choice = "chosen"
             THEN [how |-> "backfill", engine |-> CHOOSE e \in c.among : TRUE]
             ELSE [how |-> c.choice, engine |-> "none"]
=============================================================================
