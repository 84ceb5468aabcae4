----------------------------- MODULE MCAnalysis -----------------------------
(***************************************************************************)
(* Small runs for TLC: two tests of one file, a source file of a function  *)
(* with another inside and a line outside both, and a run of every engine  *)
(* that leads to a mode of its own.                                        *)
(***************************************************************************)
EXTENDS Analysis

Src == <<"src", "m">>
TestFile == <<"tests", "t">>
Function(name, lo, hi) == [name |-> name, lo |-> lo, hi |-> hi]
MCExtents(path) ==
  CASE path = Src -> <<Function(<<"f">>, 1, 5), Function(<<"f", "g">>, 3, 4)>>
    [] Last(path) = "t" -> <<Function(<<"a">>, 1, 2)>>
    [] OTHER -> <<>>
MCAlphabetical(path) == IF path = Src THEN 1 ELSE IF Last(path) = "t" THEN 2 ELSE 3

A == [path |-> TestFile, name |-> <<"a">>]
B == [path |-> <<".", "tests", "t">>, name |-> <<"b">>]

Result(n, outcome, ref, frames) == [node |-> n, outcome |-> outcome, ref |-> ref, frames |-> frames]
Plain(n, outcome) == Result(n, outcome, "none", {})

(* The normalizers' verdict; errored tests are not in a count of failures. *)
Verdict(results) ==
  IF \E i \in DOMAIN results : results[i].outcome \in FailLike THEN "failed" ELSE "passed"
FailedCount(engine, results) ==
  IF engine = "pytest" THEN NotCounted
  ELSE Cardinality({i \in DOMAIN results : results[i].outcome = "failed"})

Run(engine, results, coverage) ==
  [engine |-> engine, version |-> "1", target |-> "all", type |-> "suite",
   results |-> results, status |-> Verdict(results), failed |-> FailedCount(engine, results),
   coverage |-> coverage, streams |-> [stdout |-> "x", stderr |-> NoStream]]

NoCoverage == [state |-> "missing-native-payload"]
Coverage(engine, granularity, files) ==
  [state |-> "facts", engine |-> engine, granularity |-> granularity, files |-> files]

(* Lines 2 (in f), 3, 4 (in g) and 7 (outside) of the source; the test file *)
(* under its own path, or as a workspace above names it.                   *)
Traced(src, tests, path, miss) ==
  <<[FileFacts(Src, DOMAIN src, miss, 4) EXCEPT !.tests = [l \in {k \in DOMAIN src : src[k] # {}} |-> src[l]]]>>
    \o (IF tests = {} THEN <<>> ELSE <<[FileFacts(path, {1, 9}, {}, 2) EXCEPT !.tests = [l \in {1, 9} |-> tests]]>>)

Hit2 == SUBSET {A, B}
Outcomes == {<<Plain(A, x), Plain(B, y)>> : x \in {"failed", "passed"}, y \in {"failed", "passed", "skipped"}}
Twice == {<<Plain(A, "failed"), Plain(A, "passed"), Plain(B, "passed")>>,
          <<Plain(A, "passed"), Plain(A, "errored"), Plain(B, "xpassed")>>}

TestContexts == [tests : {{}, {A, B}}, path : {TestFile}]
                  \cup [tests : {{A}}, path : {<<"pkg">> \o TestFile, <<"tests", "u">>}]

Pytest ==
  {Run("pytest", o, Coverage("pytest", "per-test", Traced((2 :> x @@ 3 :> y @@ 4 :> z), {A, B}, TestFile, {5}))) :
     o \in {p \in Outcomes : p[1].outcome = "failed"}, x \in Hit2, y \in {{A}, {A, B}}, z \in {{}, {B}}}
  \cup {Run("pytest", o, Coverage("pytest", "per-test", Traced((2 :> x @@ 7 :> {B}), at.tests, at.path, {5}))) :
     o \in Outcomes \cup Twice, x \in {{}, {A, B}}, at \in TestContexts}
  \cup {Run("pytest", o, NoCoverage) : o \in Outcomes}

Frame(base, path, line) == [base |-> base, path |-> path, line |-> line, infra |-> FALSE]
Stack ==
  {{}, {Frame("workspace", Src, 3)}, {Frame("absolute", Src, 3), Frame("outside", Src, 2)},
   {Frame("workspace", TestFile, 1), [Frame("workspace", Src, 2) EXCEPT !.infra = TRUE]}}
Failing(outcome, others, ref) ==
  {<<Result(A, outcome, ref, f), Result(B, other, ref, g)>> :
     f \in Stack, g \in {{}, {Frame("workspace", Src, 2)}}, other \in others}
Whole(engine) ==
  {NoCoverage} \cup {Coverage(engine, "aggregate", <<FileFacts(Src, x, {2, 3} \ x, 2), FileFacts(TestFile, {1}, {}, 1)>>) :
     x \in {{2}, {2, 3}}}

Jest == {Run("jest", r, c) : r \in Failing("failed", {"passed"}, "inline"), c \in Whole("jest")}
Junit ==
  {Run("junit", r, c) :
     r \in Failing("errored", {"failed", "passed"}, "log")
             \cup {<<Result(A, "errored", "lost", f), Plain(B, "passed")>> : f \in Stack},
     c \in Whole("junit")}
Cargo == {Run("cargo-test", r, c) : r \in Failing("failed", {"failed"}, "log"), c \in Whole("cargo-test")}

Errored == [Run("pytest", <<>>, NoCoverage) EXCEPT !.status = "errored"]
Green == Run("pytest", <<Plain(A, "passed"), Plain(B, "passed")>>,
             Coverage("pytest", "per-test", Traced((2 :> {A}), {A}, TestFile, {})))
Mixed == Run("jest", <<Plain(B, "passed"), Plain(A, "passed"), Plain(A, "failed")>>,
             Coverage("jest", "aggregate", <<FileFacts(Src, {2}, {3}, 2)>>))
Unknown == Run("junit", <<Plain(A, "passed"), Plain(B, "unknown")>>,
               Coverage("junit", "aggregate", <<FileFacts(Src, {2}, {3}, 2)>>))
Late == [Unknown EXCEPT !.results = <<Plain(A, "passed"), Plain(B, "passed")>>]
Broken == Run("cargo-test", <<Result(A, "failed", "log", {Frame("workspace", Src, 2)}), Plain(B, "passed")>>, NoCoverage)

(* Two runs of an engine, and two of different engines.                    *)
MCHistories ==
  {<<Green, r>> : r \in Pytest \cup {Errored}} \cup {<<Mixed, r>> : r \in Jest}
    \cup {<<Unknown, r>> : r \in Junit} \cup {<<Broken, r>> : r \in Cargo}
    \cup {<<Green, Broken>>, <<Broken, Mixed>>, <<Late, Unknown>>}
MCPairs == {<<1, 2>>}
MCFormulas == {"op2"}
=============================================================================
