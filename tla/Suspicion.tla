------------------------------ MODULE Suspicion ------------------------------
(***************************************************************************)
(* src/novetest/localization: which places in the code a failing run       *)
(* points at. Three modes: spectra of per-test coverage, aggregate         *)
(* coverage with the frames of the failures, and the frames alone.         *)
(*                                                                         *)
(* A path or a dotted name is a sequence of its parts; a node id is a path *)
(* and a name; a result carries how its failure text is referred to (ref)  *)
(* and the frames [base, path, line, infra] that text holds.               *)
(***************************************************************************)
EXTENDS Regression, Scores

CONSTANTS
  Extents(_),       \* a path -> the functions of the file, outermost first
  Alphabetical(_)   \* a path -> its place in the alphabet

NoSymbol == [name |-> <<>>, lo |-> 0, hi |-> 0]

(* resolve_python_symbol: the smallest function around a line, the first   *)
(* of two as small.                                                        *)
SymbolAt(path, line) ==
  FoldLeft(LAMBDA best, f :
             IF /\ f.lo <= line /\ line <= f.hi
                /\ best = NoSymbol \/ f.hi - f.lo < best.hi - best.lo
             THEN f ELSE best,
           NoSymbol, Extents(path))

FailedTests(run) == {run.results[i].node : i \in {j \in DOMAIN run.results : run.results[j].outcome \in FailLike}}
PassedTests(run) == {run.results[i].node : i \in {j \in DOMAIN run.results : run.results[j].outcome = "passed"}}

----------------------------------------------------------------------------
(* candidate_filter.py: test code is not a suspect.                        *)

(* "./" in front of a path says nothing.                                   *)
NormalizePath(p) ==
  LET start == {i \in DOMAIN p : \A j \in 1..i : p[j] = "."}
  IN  SubSeq(p, Cardinality(start) + 1, Len(p))

(* File -> the names of the tests in it; none for the whole file.          *)
TestNodes(run) ==
  LET named == {[n EXCEPT !.path = NormalizePath(@)] : n \in Nodes(run)}
      of(f) == {n.name : n \in {m \in named : m.path = f}}
  IN  [f \in {n.path : n \in named} \ {<<>>} |-> IF <<>> \in of(f) THEN {} ELSE of(f)]

StrictSuffix(s, t) == s # t /\ IsSuffix(s, t)
StrictPrefix(s, t) == s # t /\ IsPrefix(s, t)

(* Coverage and the engine may name files from different directories: a    *)
(* test file stands for the one candidate whose path ends like its own.    *)
Reconciled(tests, files) ==
  LET peers(f) == {c \in files : Last(c) = Last(f) /\ (StrictSuffix(c, f) \/ StrictSuffix(f, c))}
      sure == {f \in DOMAIN tests : Cardinality(peers(f)) = 1}
      peer == [f \in sure |-> CHOOSE c \in files : c \in peers(f)]
  IN  IF DOMAIN tests \cap files # {} \/ sure = {} THEN tests
      ELSE [c \in Range(peer) |-> UNION {tests[f] : f \in {g \in sure : peer[g] = c}}]

IsTestNode(symbol, names) ==
  symbol = <<>> \/ names = {} \/ \E n \in names : symbol = n \/ StrictPrefix(n, symbol) \/ StrictPrefix(symbol, n)

Excluded(candidates, tests) ==
  LET nodes == Reconciled(tests, {NormalizePath(c.path) : c \in candidates})
      file(c) == NormalizePath(c.path)
  IN  {c \in candidates : file(c) \in DOMAIN nodes /\ IsTestNode(c.symbol.name, nodes[file(c)])}

Suspected(candidates) == {c \in candidates : Positive(c.score)}

\* Mutant: what is test code goes, whatever is left.
ExcludeTestsAlways(candidates, tests) == candidates \ Excluded(candidates, tests)

(* apply_test_file_exclusion: undone when it would leave no suspect.       *)
ExcludeTests(candidates, tests) ==
  LET kept == candidates \ Excluded(candidates, tests)
  IN  IF Suspected(kept) = {} /\ Suspected(candidates) # {} THEN candidates ELSE kept

----------------------------------------------------------------------------
(* Ranking: by score, then path, then line; equal scores share a rank.     *)
Before(a, b) ==
  \/ Less(b.score, a.score)
  \/ /\ Same(a.score, b.score)
     /\ \/ Alphabetical(a.path) < Alphabetical(b.path)
        \/ a.path = b.path /\ a.primary < b.primary

Foremost(candidates) == CHOOSE a \in candidates : \A b \in candidates : ~Before(b, a)

Sorted(candidates) ==
  LET left[i \in 0..Cardinality(candidates)] ==
        IF i = 0 THEN candidates ELSE left[i - 1] \ {Foremost(left[i - 1])}
  IN  [i \in 1..Cardinality(candidates) |-> Foremost(left[i - 1])]

DenseRanks(sorted) ==
  LET rank[i \in DOMAIN sorted] ==
        IF i = 1 THEN 1
        ELSE IF Same(sorted[i].score, sorted[i - 1].score) THEN rank[i - 1] ELSE rank[i - 1] + 1
  IN  rank

Ranked(candidates, top) ==
  LET sorted == Sorted(candidates)
      ranks == DenseRanks(sorted)
  IN  [i \in 1..(IF Len(sorted) < top THEN Len(sorted) ELSE top) |->
         [rank |-> ranks[i], path |-> sorted[i].path, symbol |-> sorted[i].symbol,
          primary |-> sorted[i].primary, related |-> sorted[i].related, score |-> sorted[i].score]]

Finding(mode, confidence, formula, entries) ==
  [state |-> mode, confidence |-> confidence, formula |-> formula, entries |-> entries]

----------------------------------------------------------------------------
(* Per-test coverage: every line some test ran is a place.                 *)
Places(files) == UNION {{<<files[i].path, l>> : l \in DOMAIN files[i].tests} : i \in DOMAIN files}
TestsOn(files, p) == UNION {files[i].tests[p[2]] : i \in {j \in DOMAIN files : files[j].path = p[1] /\ p[2] \in DOMAIN files[j].tests}}

(* A failing test counts even if coverage never saw it; a passing one only *)
(* if it did.                                                              *)
SpectraCounts(run, files) ==
  LET failed == FailedTests(run)
      seen == UNION {TestsOn(files, p) : p \in Places(files)}
      passed == (seen \cap PassedTests(run)) \ failed
  IN  [p \in Places(files) |->
         Counts(Cardinality(TestsOn(files, p) \cap failed), Cardinality(TestsOn(files, p) \cap passed),
                Cardinality(failed), Cardinality(passed))]

(* The line to show is ochiai's first, whatever formula ranks.             *)
PrimaryLine(counts, group) ==
  LET best == {p \in group : \A q \in group : ~Less(Ochiai(counts[p]), Ochiai(counts[q]))}
  IN  Min({p[2] : p \in best})

\* Mutant: the least suspicious line of a function is its score.
GroupedByLeast(run, files, formula) ==
  LET counts == SpectraCounts(run, files)
      key(p) == <<p[1], SymbolAt(p[1], p[2])>>
      group(k) == {p \in DOMAIN counts : key(p) = k}
      scores(k) == {Score(formula, counts, p) : p \in group(k)}
  IN  {[path |-> k[1], symbol |-> k[2],
        score |-> CHOOSE a \in scores(k) : \A b \in scores(k) : ~Less(b, a),
        primary |-> PrimaryLine(counts, group(k)),
        related |-> (UNION {TestsOn(files, p) : p \in group(k)}) \cap FailedTests(run)] :
       k \in {key(p) : p \in DOMAIN counts}}

(* _aggregate_by_symbol: the lines of a function stand together, and the   *)
(* worst of them is its score.                                             *)
Grouped(run, files, formula) ==
  LET counts == SpectraCounts(run, files)
      key(p) == <<p[1], SymbolAt(p[1], p[2])>>
      group(k) == {p \in DOMAIN counts : key(p) = k}
  IN  {[path |-> k[1], symbol |-> k[2],
        score |-> MaxScore({Score(formula, counts, p) : p \in group(k)}),
        primary |-> PrimaryLine(counts, group(k)),
        related |-> (UNION {TestsOn(files, p) : p \in group(k)}) \cap FailedTests(run)] :
       k \in {key(p) : p \in DOMAIN counts}}

PerTest(run, files, formula, top) ==
  Finding("sbfl_per_test", "high", formula,
    LET kept == ExcludeTests(Grouped(run, files, formula), TestNodes(run))
        positive == Cardinality(Suspected(kept))
    IN  Ranked(kept, IF positive < top THEN positive ELSE top))

----------------------------------------------------------------------------
(* The text of a failure: in the result, in a log of the run, or either.   *)
Text(engine, result) ==
  CASE result.ref = "none" -> {}
    [] result.ref # "none" /\ engine \in {"pytest", "jest"} -> result.frames
    [] result.ref # "none" /\ engine \in {"cargo-test", "go-test"} -> IF result.ref = "log" THEN result.frames ELSE {}
    [] result.ref # "none" /\ engine \in {"junit", "xunit"} -> IF result.ref = "lost" THEN {} ELSE result.frames
    [] OTHER -> {}

(* Frames of the test framework itself are not evidence.                   *)
Frames(engine, result) == {f \in Text(engine, result) : ~f.infra}

(* <<file, line, test>> for every frame of every failing result.           *)
Evidence(run) ==
  UNION {{<<[base |-> f.base, path |-> f.path], f.line, run.results[i].node>> :
            f \in Frames(run.engine, run.results[i])} :
         i \in {j \in DOMAIN run.results : run.results[j].outcome \in FailLike}}

TestsNaming(evidence, file) == {e[3] : e \in {x \in evidence : x[1] = file}}
LinesNamed(evidence, file) == {e[2] : e \in {x \in evidence : x[1] = file}}
FirstLine(lines) == IF lines = {} THEN 0 ELSE Min(lines)

(* What the later run covers otherwise than its baseline weighs half more. *)
Boost(formula, score, path, changed) ==
  CASE path \notin changed -> score
    [] path \in changed /\ formula = "ochiai" -> <<score[1] * 9, score[2] * 4>>
    [] path \in changed /\ formula # "ochiai" -> <<score[1] * 3, score[2] * 2>>

Relative(path) == [base |-> "workspace", path |-> path]

(* Aggregate coverage: a covered file is a suspect when a failure names    *)
(* it, exactly as coverage does; a whole file stands for its lines.        *)
AggregateCandidates(run, files, changed, formula) ==
  LET evidence == Evidence(run)
      failed == Cardinality(FailedTests(run))
      passed == Cardinality(PassedTests(run))
      counts == [p \in Paths(files) |-> Counts(Cardinality(TestsNaming(evidence, Relative(p))), passed, failed, passed)]
  IN  {[path |-> p, symbol |-> NoSymbol,
        score |-> Boost(formula, Score(formula, counts, p), p, changed),
        primary |-> FirstLine(LinesNamed(evidence, Relative(p))),
        related |-> TestsNaming(evidence, Relative(p))] : p \in Paths(files)}

Aggregate(run, files, changed, formula, top) ==
  Finding("sbfl_aggregate", "medium", formula,
    Ranked(Suspected(ExcludeTests(AggregateCandidates(run, files, changed, formula), TestNodes(run))), top))

(* Absolute paths inside the workspace are made relative to it.            *)
Placed(file) == IF file.base = "absolute" THEN Relative(file.path) ELSE file

(* No coverage: the files the failures name, by how many tests do. No test *)
(* code is excluded, nothing has to be positive.                           *)
ProximityCandidates(run, changed) ==
  LET evidence == {<<Placed(e[1]), e[2], e[3]>> : e \in Evidence(run)}
      tests(f) == TestsNaming(evidence, f)
  IN  {[path |-> f.path, symbol |-> NoSymbol,
        score |-> Boost("count", <<Cardinality(tests(f)), 1>>, f.path, IF f.base = "workspace" THEN changed ELSE {}),
        primary |-> FirstLine(LinesNamed(evidence, f)), related |-> tests(f)] : f \in {e[1] : e \in evidence}}

(* No formula ranks them; the finding names the default one all the same.  *)
FailureProximity(run, changed, top) ==
  Finding("failure_proximity", "low", "ochiai", Ranked(ProximityCandidates(run, changed), top))

----------------------------------------------------------------------------
(* derive_localization_findings, given the coverage facts of the run and   *)
(* the files that changed.                                                 *)
Localized(run, coverage, changed, formula, top) ==
  CASE FailedTests(run) = {} -> Refused("no-failed-tests")
    [] FailedTests(run) # {} /\ coverage.state # "facts" -> FailureProximity(run, changed, top)
    [] FailedTests(run) # {} /\ coverage.state = "facts" /\ coverage.granularity = "per-test" ->
         IF Places(coverage.files) = {} THEN Refused("no-coverage")
         ELSE PerTest(run, coverage.files, formula, top)
    [] FailedTests(run) # {} /\ coverage.state = "facts" /\ coverage.granularity # "per-test" ->
         Aggregate(run, coverage.files, changed, formula, top)
=============================================================================
