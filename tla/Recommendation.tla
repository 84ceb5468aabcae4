--------------------------- MODULE Recommendation ---------------------------
(***************************************************************************)
(* src/novetest/orchestration/recommendation: what the user is told of a   *)
(* run. A bundle is the run with the facts the stages could deliver; seven *)
(* matchers propose, two rules thin out, every recommendation cites facts. *)
(* Wording, slots that only copy, and the order of the list are left out.  *)
(***************************************************************************)
EXTENDS Suspicion

CONSTANTS MaxRank   \* INVESTIGATE_LOCATION_MAX_RANK

ASSUME RecommendationRank == MaxRank \in Nat \ {0}

NotCounted == -1

(* [run, coverage, regression, localization, replay, replays]: the outcome *)
(* of a stage is its facts or a reason, replays the results there are.     *)
Found(stage) == stage.state \in {"facts", "sbfl_per_test", "sbfl_aggregate", "failure_proximity"}

UnavailableStages(b) ==
  {s \in {"coverage", "regression", "localization"} : ~Found(b[s])}
    \cup (IF b.replay = "unavailable" THEN {"replay"} ELSE {})

(* The engine's own count of failed tests, where it has one, or else the   *)
(* results.                                                                *)
HasFailedTests(run) == IF run.failed # NotCounted THEN run.failed > 0 ELSE FailedTests(run) # {}
ExecutedAsSuite(run) == run.status \in {"passed", "failed"}

Regressed(b) == IF Found(b.regression) THEN InCategory(b.regression.transitions, "regressed") ELSE {}
Entries(b) == IF Found(b.localization) THEN b.localization.entries ELSE <<>>

Anchor(e) == IF e.symbol = NoSymbol THEN e.primary ELSE e.symbol.lo

----------------------------------------------------------------------------
(* Every matcher gives a set of [category, slot, entry, test].             *)
NoEntry == 0
NoTest == [path |-> <<>>, name |-> <<>>]
Hit(category, slot, entry, test) == [category |-> category, slot |-> slot, entry |-> entry, test |-> test]

(* A regressed test and a place its failure points at, of any rank.        *)
RegressionWithLocalization(b) ==
  UNION {{Hit("regression_with_localization", <<Entries(b)[i].path, Anchor(Entries(b)[i]), t>>, i, t) :
            t \in Entries(b)[i].related \cap Regressed(b)} : i \in DOMAIN Entries(b)}

InvestigateLocation(b) ==
  {Hit("investigate_location", <<Entries(b)[i].path, Anchor(Entries(b)[i])>>, i, NoTest) :
     i \in {j \in DOMAIN Entries(b) : Entries(b)[j].rank <= MaxRank /\ b.localization.confidence \in {"high", "medium"}}}

InvestigateRegression(b) == {Hit("investigate_regression", <<t>>, NoEntry, t) : t \in Regressed(b)}

(* Lines of a suspect that no test ran; a whole file has one line.         *)
MissingWithin(b, e) ==
  LET lo == Anchor(e)
      hi == IF e.symbol = NoSymbol THEN e.primary ELSE e.symbol.hi
  IN  IF ~Found(b.coverage) \/ e.path \notin Paths(b.coverage.files) THEN {}
      ELSE {l \in FileAt(b.coverage.files, e.path).miss : lo <= l /\ l <= hi}

CoverageGap(b) ==
  {Hit("coverage_gap", <<Entries(b)[i].path, Min(MissingWithin(b, Entries(b)[i]))>>, i, NoTest) :
     i \in {j \in DOMAIN Entries(b) : MissingWithin(b, Entries(b)[j]) # {}}}

(* A replay of a whole run may not know which test it is.                  *)
FlakySuspected(b) ==
  {Hit("flaky_suspected", <<r.test>>, NoEntry, r.test) : r \in {x \in b.replays : x.class = "inconsistent"}}

UnavailableAnalysis(b) ==
  IF UnavailableStages(b) # {} /\ (HasFailedTests(b.run) \/ ~ExecutedAsSuite(b.run))
  THEN {Hit("unavailable_analysis", <<>>, NoEntry, NoTest)} ELSE {}

AllGreen(b) ==
  IF /\ b.run.status = "passed" /\ ~HasFailedTests(b.run) /\ Regressed(b) = {}
     /\ \A r \in b.replays : r.class # "inconsistent"
  THEN {Hit("all_green", <<>>, NoEntry, NoTest)} ELSE {}

Hits(b) ==
  RegressionWithLocalization(b) \cup InvestigateLocation(b) \cup InvestigateRegression(b)
    \cup CoverageGap(b) \cup FlakySuspected(b) \cup UnavailableAnalysis(b) \cup AllGreen(b)

----------------------------------------------------------------------------
Place(b, h) == <<Entries(b)[h.entry].path, Entries(b)[h.entry].primary>>

\* Mutant: a compound swallows the regressions of every test.
SwallowAll(b, hits) ==
  LET compounds == {h \in hits : h.category = "regression_with_localization"}
  IN  {h \in hits : h.category = "investigate_regression" => compounds = {}}

(* compound_resolution: what a compound says is not said again.            *)
Swallow(b, hits) ==
  LET compounds == {h \in hits : h.category = "regression_with_localization"}
  IN  {h \in hits :
         /\ h.category = "investigate_location" => \A c \in compounds : Place(b, c) # Place(b, h)
         /\ h.category = "investigate_regression" => \A c \in compounds : c.test # h.test}

(* apply_mutual_exclusion: all_green stands alone.                         *)
Exclusive(hits) ==
  LET others == {h \in hits : h.category # "all_green"}
  IN  IF others = {} THEN hits ELSE others

----------------------------------------------------------------------------
(* citations.py: [kind] and what it names.                                 *)
CiteTest(b, t) ==
  LET of == {i \in DOMAIN b.run.results : b.run.results[i].node = t}
  IN  [kind |-> "test_result", test |-> t,
       outcome |-> IF of = {} THEN "failed" ELSE b.run.results[Min(of)].outcome]
CiteRegression(b, t) == [kind |-> "regression_fact", test |-> t]

\* Mutant: the place of an entry in the list is taken for its rank.
CiteEntryIndex(b, i) ==
  [kind |-> "localization_finding", path |-> Entries(b)[i].path, rank |-> i, primary |-> Entries(b)[i].primary]

CiteEntry(b, i) ==
  [kind |-> "localization_finding", path |-> Entries(b)[i].path,
   rank |-> Entries(b)[i].rank, primary |-> Entries(b)[i].primary]

CiteCoverage(b, i) ==
  [kind |-> "coverage_fact", path |-> Entries(b)[i].path, lines |-> MissingWithin(b, Entries(b)[i])]

(* _find_entry_for_location: the first entry of that file and line.        *)
EntryOf(b, i) ==
  Min({j \in DOMAIN Entries(b) : Entries(b)[j].path = Entries(b)[i].path /\ Entries(b)[j].primary = Entries(b)[i].primary})

(* Of the tests a suspect is related to, the first is cited.               *)
CiteRelated(b, i) ==
  LET related == Entries(b)[EntryOf(b, i)].related
  IN  IF related = {} THEN {} ELSE {CiteTest(b, CHOOSE t \in related : TRUE)}

Citations(b, h) ==
  CASE h.category = "regression_with_localization" ->
         {CiteRegression(b, h.test), CiteEntry(b, h.entry), CiteTest(b, h.test)}
    [] h.category = "investigate_location" -> {CiteEntry(b, h.entry)} \cup CiteRelated(b, h.entry)
    [] h.category = "investigate_regression" -> {CiteRegression(b, h.test), CiteTest(b, h.test)}
    [] h.category = "coverage_gap" -> {CiteCoverage(b, h.entry), CiteEntry(b, h.entry)}
    [] h.category = "flaky_suspected" ->
         {[kind |-> "replay_result", test |-> h.test], CiteTest(b, h.test)}
    [] h.category \in {"unavailable_analysis", "all_green"} -> {[kind |-> "run_reference"]}

(* synthesize_recommendation. The id of a recommendation is its category   *)
(* and slot.                                                               *)
Synthesized(b) ==
  {[category |-> h.category, slot |-> h.slot, test |-> h.test, cites |-> Citations(b, h)] :
     h \in Exclusive(Swallow(b, Hits(b)))}
=============================================================================
