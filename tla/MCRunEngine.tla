---------------------------- MODULE MCRunEngine ----------------------------
(***************************************************************************)
(* Small machines for TLC: for each engine a host that is ready and what   *)
(* it can turn into, and a workspace with the markers of two engines.      *)
(***************************************************************************)
EXTENDS RunEngine

Host(marks, tools) ==
  [marks |-> marks, tools |-> tools, broken |-> {}, imports |-> {}, projects |-> <<>>]

Python == Host({"pyproject.toml", "pyproject[pytest]"}, {})
PythonWith(mods) == [Python EXCEPT !.imports = {<<"own", m>> : m \in mods}]
PythonMachine ==
  {Python, PythonWith({"pytest", "json-report"}), PythonWith({"pytest", "json-report", "pytest-cov"}),
   [PythonWith({"pytest", "json-report"}) EXCEPT !.marks = @ \cup {".venv/pytest"}]}

Node == Host({"package.json", "package.json[jest]", "node_modules/.bin/jest"}, {"node", "npx"})
NodeMachine == {Node, [Node EXCEPT !.marks = @ \ {"node_modules/.bin/jest"}], [Node EXCEPT !.tools = {}]}

Go == Host({"go.mod"}, {"go"})
GoMachine == {Go, [Go EXCEPT !.tools = {}], [Go EXCEPT !.broken = {"go"}]}

Rust == Host({"Cargo.toml"}, {"cargo"})
RustMachine == {Rust, [Rust EXCEPT !.tools = {}], [Rust EXCEPT !.marks = @ \cup {"old nextest"}],
                [Rust EXCEPT !.broken = {"nextest"}]}

Maven == Host({"pom.xml", "jupiter", "jacoco"}, {"java", "mvn"})
MavenMachine == {Maven, [Maven EXCEPT !.marks = @ \ {"jacoco"}], [Maven EXCEPT !.tools = {"java"}],
                 [Maven EXCEPT !.marks = @ \cup {"junit4"}]}

Gradle == Host({"build.gradle", "jupiter", "jacoco", "gradlew", "gradlew +x"}, {"java"})
GradleMachine == {Gradle, [Gradle EXCEPT !.marks = @ \ {"gradlew +x"}],
                  [Gradle EXCEPT !.marks = @ \cup {"pom.xml"}, !.tools = @ \cup {"mvn"}]}

Project(named, refs) == [declares |-> TRUE, named |-> named, refs |-> refs]
Net == [Host({"*.csproj", "coverlet"}, {"dotnet"}) EXCEPT !.projects = <<Project(TRUE, {"xunit2"})>>]
NetMachine ==
  {Net, [Net EXCEPT !.tools = {}], [Net EXCEPT !.projects = <<>>], [Net EXCEPT !.broken = {"dotnet list"}],
   [Net EXCEPT !.marks = @ \cup {"*.sln"}, !.projects = <<Project(FALSE, {"nunit"}), Project(TRUE, {"xunit3"})>>]}

\* Markers of two engines: pytest ready, then jest too.
Mixed == [Node EXCEPT !.marks = @ \cup Python.marks, !.tools = {}, !.imports = {<<"own", "pytest">>, <<"own", "json-report">>}]
MixedMachine == {Mixed, [Mixed EXCEPT !.tools = Node.tools]}

MCMachines == {PythonMachine, NodeMachine, GoMachine, RustMachine, MavenMachine, GradleMachine,
               NetMachine, MixedMachine, {Host({}, {})}}

Request(override, shape, coverage) ==
  [override |-> override, shape |-> shape, coverage |-> coverage,
   names |-> IF shape = "workspace" THEN Tests ELSE {CHOOSE t \in Tests : TRUE}]
MCRequests ==
  {Request("none", s, cov) : s \in Shapes \ {"directory"}, cov \in BOOLEAN}
    \cup {Request("none", "directory", TRUE), Request("pytest", "workspace", FALSE)}
=============================================================================
