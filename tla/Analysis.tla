------------------------------ MODULE Analysis ------------------------------
(***************************************************************************)
(* `novetest test` once the engine has answered (test_target_in_store in   *)
(* src/novetest/orchestration/workflows/test.py): the run is stored, its   *)
(* coverage derived, the run compared with its baseline, the failures      *)
(* localized, the run replayed if asked for, and recommendations made of   *)
(* what the stages could deliver. Other clients compare and localize the   *)
(* same runs meanwhile. Facts once written are served again; torn files,   *)
(* deletion and reset are in DerivedFacts, the reruns in Replay.           *)
(***************************************************************************)
EXTENDS Recommendation

CONSTANTS
  Histories,        \* the sequences of runs considered, each what it recorded
  ElsewherePairs,   \* pairs of runs other clients compare, by their places
  ElsewhereFormulas,\* formulas other clients localize with
  TopN              \* DEFAULT_TOP_N, the entries of a finding

(* Results and covered files are lists, what they hold is finite, and a    *)
(* path has a place in the alphabet.                                       *)
RunIsTyped(run) ==
  /\ run.results \in Seq(Range(run.results))
  /\ \A x \in Range(run.results) :
       IsFiniteSet(x.frames) /\ \A f \in x.frames : f.line \in Nat /\ Alphabetical(f.path) \in Nat
  /\ Found(run.coverage) =>
       /\ run.coverage.state = "facts" /\ run.coverage.files \in Seq(Range(run.coverage.files))
       /\ \A f \in Range(run.coverage.files) :
            /\ Alphabetical(f.path) \in Nat /\ DOMAIN f.tests \subseteq Nat /\ IsFiniteSet(DOMAIN f.tests)
            /\ \A l \in DOMAIN f.tests : IsFiniteSet(f.tests[l])

ASSUME AnalysisConstants ==
  /\ TopN \in Nat \ {0} /\ ElsewherePairs \subseteq Nat \X Nat /\ ElsewhereFormulas \subseteq Formulas
  /\ \A h \in Histories : h \in Seq(Range(h)) /\ \A i \in DOMAIN h : RunIsTyped(h[i])

VARIABLES
  runs,             \* the runs in the order they were stored
  cov, loc,         \* per run, coverage facts and localization findings, or None
  reg,              \* per pair of runs that was compared, regression facts
  replayed,         \* per run, its replay result, or None
  stage,            \* where the one `test` under way is
  bundle,           \* what its stages delivered so far
  told              \* per run, the recommendations made and their bundle, or None

facts == <<cov, loc, reg, replayed>>
vars == <<runs, facts, stage, bundle, told>>

None == [state |-> "none"]

Init ==
  /\ runs = <<>> /\ cov = <<>> /\ loc = <<>> /\ replayed = <<>> /\ told = <<>>
  /\ reg = <<>>
  /\ stage = "idle" /\ bundle = None

Pair(b, t) == IF <<b, t>> \in DOMAIN reg THEN reg[<<b, t>>] ELSE None

CoverageComparable(b, t) == Found(cov[b]) /\ Found(cov[t]) /\ cov[b].engine = cov[t].engine

FilesOf(c) == IF Found(c) THEN c.files ELSE <<>>

(* compare_runs: facts that are there are served.                          *)
Compared(b, t) ==
  IF Found(Pair(b, t)) THEN Pair(b, t)
  ELSE Comparison(runs[b], runs[t], FilesOf(cov[b]), FilesOf(cov[t]), CoverageComparable(b, t))

RegWith(b, t, outcome) ==
  IF ~Found(outcome) THEN reg
  ELSE [p \in DOMAIN reg \cup {<<b, t>>} |-> IF p = <<b, t>> THEN outcome ELSE reg[p]]

(* try_get_latest_regression_facts: only what is cached.                   *)
ChangedSince(r) ==
  LET b == BaselineFor(runs, DOMAIN runs, r)
  IN  IF b = 0 \/ ~Found(Pair(b, r)) THEN {} ELSE Pair(b, r).changed

(* derive_localization_findings: a finding that is there is served.        *)
LocalizedRun(r, formula) ==
  IF Found(loc[r]) THEN loc[r] ELSE Localized(runs[r], cov[r], ChangedSince(r), formula, TopN)

----------------------------------------------------------------------------
Newest == Len(runs)

(* What the engine may record next.                                        *)
NextRuns == {h[Newest + 1] : h \in {g \in Histories : Len(g) > Newest /\ IsPrefix(runs, g)}}

(* Executes and stores the run.                                            *)
Execute ==
  /\ stage = "idle"
  /\ \E run \in NextRuns : runs' = Append(runs, run)
  /\ cov' = Append(cov, None) /\ loc' = Append(loc, None)
  /\ replayed' = Append(replayed, None) /\ told' = Append(told, None)
  /\ stage' = "coverage" /\ bundle' = None
  /\ UNCHANGED reg

Derive ==
  /\ stage = "coverage"
  /\ cov' = [cov EXCEPT ![Newest] = IF Found(runs[Newest].coverage) THEN runs[Newest].coverage ELSE @]
  /\ bundle' = [run |-> runs[Newest], coverage |-> runs[Newest].coverage, regression |-> None,
                localization |-> None, replay |-> "not_run", replays |-> {}]
  /\ stage' = "regression"
  /\ UNCHANGED <<runs, loc, reg, replayed, told>>

(* The newest run of the target, whichever that is, and its baseline.      *)
Compare ==
  LET pair == LatestPair(runs, DOMAIN runs, bundle.run.target)
      outcome == IF pair[1] = 0 THEN Refused("no-comparable-baseline") ELSE Compared(pair[1], pair[2])
  IN  /\ stage = "regression"
      /\ reg' = RegWith(pair[1], pair[2], outcome)
      /\ bundle' = [bundle EXCEPT !.regression = outcome]
      /\ stage' = "localization"
      /\ UNCHANGED <<runs, cov, loc, replayed, told>>

Localize ==
  LET outcome == LocalizedRun(Newest, "ochiai")
  IN  /\ stage = "localization"
      /\ loc' = [loc EXCEPT ![Newest] = IF Found(outcome) THEN outcome ELSE @]
      /\ bundle' = [bundle EXCEPT !.localization = outcome]
      /\ stage' = "replay"
      /\ UNCHANGED <<runs, cov, reg, replayed, told>>

(* With --reruns, and only of a run with failed tests: a verdict of Replay *)
(* ("inconsistent", about one test or about none, or another), or none.    *)
Rerun ==
  /\ stage = "replay" /\ HasFailedTests(bundle.run)
  /\ \/ \E class \in {"inconsistent", "other"} :
        \E t \in {NoTest} \cup (IF class = "inconsistent" THEN Nodes(bundle.run) ELSE {}) :
          LET result == [state |-> "facts", class |-> class, test |-> t]
          IN  /\ replayed' = [replayed EXCEPT ![Newest] = result]
              /\ bundle' = [bundle EXCEPT !.replay = "available", !.replays = {result}]
     \/ bundle' = [bundle EXCEPT !.replay = "unavailable"] /\ UNCHANGED replayed
  /\ stage' = "recommend"
  /\ UNCHANGED <<runs, cov, loc, reg, told>>

SkipRerun ==
  /\ stage = "replay"
  /\ stage' = "recommend"
  /\ UNCHANGED <<runs, facts, bundle, told>>

Recommend ==
  /\ stage = "recommend"
  /\ told' = [told EXCEPT ![Newest] = [bundle |-> bundle, recommendations |-> Synthesized(bundle)]]
  /\ stage' = "idle" /\ bundle' = None
  /\ UNCHANGED <<runs, facts>>

(* Another client compares two runs, or localizes one.                     *)
CompareElsewhere(b, t) ==
  /\ reg' = RegWith(b, t, Compared(b, t))
  /\ UNCHANGED <<runs, cov, loc, replayed, stage, bundle, told>>

(* The localize verb: a finding by another formula is dropped and made     *)
(* anew, unless no formula went into it.                                   *)
LocalizeElsewhere(r, formula) ==
  LET served == LocalizedRun(r, formula)
      kept == ~Found(served) \/ served.formula = formula \/ served.state = "failure_proximity"
      outcome == IF kept THEN served ELSE Localized(runs[r], cov[r], ChangedSince(r), formula, TopN)
  IN  /\ loc' = [loc EXCEPT ![r] = IF Found(outcome) THEN outcome ELSE None]
      /\ UNCHANGED <<runs, cov, reg, replayed, stage, bundle, told>>

Next ==
  \/ Execute \/ Derive \/ Compare \/ Localize \/ Rerun \/ SkipRerun \/ Recommend
  \/ \E b, t \in DOMAIN runs : <<b, t>> \in ElsewherePairs /\ CompareElsewhere(b, t)
  \/ \E r \in DOMAIN runs, f \in ElsewhereFormulas : LocalizeElsewhere(r, f)

Spec == Init /\ [][Next]_vars

\* Mutant: the result of a replay is not read back.
RebuiltNoReplay(r) ==
  LET b == BaselineFor(runs, DOMAIN runs, r)
  IN  [run |-> runs[r], coverage |-> cov[r], regression |-> IF b = 0 THEN None ELSE Pair(b, r),
       localization |-> loc[r], replay |-> "not_run", replays |-> {}]

(* build_test_outcome_from_run_id: the same bundle from what is stored; a  *)
(* replay that was refused left nothing behind.                            *)
Rebuilt(r) ==
  LET b == BaselineFor(runs, DOMAIN runs, r)
  IN  [run |-> runs[r], coverage |-> cov[r],
       regression |-> IF b = 0 THEN None ELSE Pair(b, r),
       localization |-> loc[r],
       replay |-> IF Found(replayed[r]) THEN "available" ELSE "not_run",
       replays |-> {x \in {replayed[r]} : Found(x)}]
----------------------------------------------------------------------------
Stages == {"idle", "coverage", "regression", "localization", "replay", "recommend"}

(* One slot per run everywhere, facts of pairs of runs there are, and a    *)
(* bundle exactly while a `test` has begun to gather.                      *)
AnalysisTypeOK ==
  /\ stage \in Stages
  /\ \A f \in {cov, loc, replayed, told} : Len(f) = Len(runs)
  /\ DOMAIN reg \subseteq (DOMAIN runs) \X (DOMAIN runs)
  /\ bundle = None <=> stage \in {"idle", "coverage"}

Told(r) == told[r] # None
Categories(r, c) == {x \in told[r].recommendations : x.category = c}

\* A replay was inconsistent, and it was that test, or NoTest in particular.
Blamed(b, t) == \E r \in b.replays : r.class = "inconsistent" /\ r.test = t

(* A test that failed, even in one of several results under its node id,   *)
(* is never called fixed, passing or skipped by a comparison: jest takes   *)
(* the same title twice, and the order must not decide (compare.py:359).   *)
FailureNeverHidden ==
  \A p \in DOMAIN reg :
    /\ \A n \in FailedTests(runs[p[2]]) :
         reg[p].transitions[n] \notin {"fixed", "still_passing", "still_skipped", "newly_skipped", "removed"}
    /\ \A n \in FailedTests(runs[p[1]]) : reg[p].transitions[n] \notin {"regressed", "still_passing"}

(* A place that every failing test and no passing test ran is in the first *)
(* rank by every formula, unless it is test code (sbfl/dstar.py:11-24).    *)
CulpritRanksFirst ==
  LET r == Newest
      counts == SpectraCounts(runs[r], cov[r].files)
      culprits == {p \in DOMAIN counts : counts[p].ef > 0 /\ counts[p].nf = 0 /\ counts[p].ep = 0}
      all == Grouped(runs[r], cov[r].files, "ochiai")
      product == {c \in all : c \notin Excluded(all, TestNodes(runs[r]))}
  IN  stage = "localization" /\ Found(cov[r]) /\ cov[r].granularity = "per-test" =>
        \A f \in Formulas, p \in culprits :
          LET found == Localized(runs[r], cov[r], {}, f, Cardinality(DOMAIN counts))
              is(c) == c.path = p[1] /\ c.symbol = SymbolAt(p[1], p[2])
          IN  (\E c \in product : is(c)) => \E e \in Range(found.entries) : is(e) /\ e.rank = 1

(* What has to be looked at is a matter of the runs, not of the formula:   *)
(* whatever --formula says, the same places are suspects, and only their   *)
(* order differs.                                                          *)
SuspectsDoNotDependOnFormula ==
  LET r == Newest
      places(f) ==
        LET top == Cardinality(Places(cov[r].files)) + Len(cov[r].files)
            found == Localized(runs[r], cov[r], ChangedSince(r), f, top)
        IN  IF Found(found) THEN {<<e.path, e.symbol>> : e \in Range(found.entries)} ELSE {}
  IN  stage = "localization" /\ Found(cov[r]) => \A f \in Formulas : places(f) = places("ochiai")

(* Leaving out test code never leaves a failing run without a suspect, and *)
(* test code is a suspect only when nothing else is.                       *)
ExclusionLeavesSuspects ==
  \A r \in DOMAIN runs : Found(loc[r]) /\ loc[r].state = "sbfl_per_test" =>
    LET all == Grouped(runs[r], cov[r].files, "ochiai")
        is(c, e) == c.path = e.path /\ c.symbol = e.symbol
        tests == Excluded(all, TestNodes(runs[r]))
        shown == {c \in all : \E e \in Range(loc[r].entries) : is(c, e)}
    IN  /\ Suspected(all) # {} => shown # {}
        /\ shown \cap tests # {} => Suspected(all) \subseteq tests

(* Every test that regressed is told of: saying it together with a place   *)
(* swallows what is said of the test alone, never of another test.         *)
NoRegressionLost ==
  \A r \in DOMAIN told : Told(r) =>
    \A t \in Regressed(told[r].bundle) : \E x \in told[r].recommendations :
      x.test = t /\ x.category \in {"regression_with_localization", "investigate_regression"}

(* Whatever is recommended can be looked up (citations.py:3-8): the entry  *)
(* cited is there, its place and rank are those cited, the lines are       *)
(* missing ones, the tests regressed, the test of a result has a result    *)
(* with the outcome cited and, but for a suspicion of flakiness, failed or *)
(* ended in an outcome that is feared.                                     *)
(* The one exception: an inconsistent replay that blames no test cites a   *)
(* result of test_id '' all the same, with an outcome of "failed" that was *)
(* never recorded (categories.py:373, citations.py:231 and 382-393). Such  *)
(* a citation cannot be looked up; it is only made of such a replay.       *)
CitationsResolve ==
  \A r \in DOMAIN told : Told(r) =>
    LET b == told[r].bundle
    IN  \A x \in told[r].recommendations : \A c \in x.cites :
          CASE c.kind = "localization_finding" ->
                 \E e \in Range(Entries(b)) : e.path = c.path /\ e.rank = c.rank /\ e.primary = c.primary
            [] c.kind = "coverage_fact" -> c.lines # {} /\ c.lines \subseteq FileAt(b.coverage.files, c.path).miss
            [] c.kind = "regression_fact" -> c.test \in Regressed(b)
            [] c.kind = "replay_result" -> Blamed(b, c.test)
            [] c.kind = "test_result" ->
                 LET of == {i \in DOMAIN b.run.results : b.run.results[i].node = c.test}
                     as(i) == b.run.results[i].outcome
                 IN  \/ /\ \E i \in of : as(i) = c.outcome
                        /\ (\E i \in of : Bucket(as(i)) = "fail") \/ x.category = "flaky_suspected"
                     \/ x.category = "flaky_suspected" /\ c.test = NoTest /\ Blamed(b, NoTest)
            [] c.kind = "run_reference" -> TRUE

(* A run asked about again later gets the recommendations it got then,     *)
(* whatever was compared or executed since; only a replay that could not   *)
(* be had is forgotten, and a finding made anew speaks for itself.         *)
AskedAgain ==
  \A r \in DOMAIN told :
    /\ Told(r) /\ told[r].bundle.replay # "unavailable"
    /\ Found(told[r].bundle.localization) => loc[r] = told[r].bundle.localization
    =>
    {<<x.category, x.slot>> : x \in Synthesized(Rebuilt(r))}
      = {<<x.category, x.slot>> : x \in told[r].recommendations}

(* categories.py:402-404 owes an explanation when "Tests failed ... some   *)
(* stage could not deliver it".                                            *)
UnavailableIsExplained ==
  \A r \in DOMAIN told : Told(r) /\ FailedTests(runs[r]) # {} /\ UnavailableStages(told[r].bundle) # {} =>
    Categories(r, "unavailable_analysis") # {}
=============================================================================
