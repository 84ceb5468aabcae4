----------------------------- MODULE Regression -----------------------------
(***************************************************************************)
(* src/novetest/regression/compare.py: what became of every test between   *)
(* two runs. A run is a record of the run engine; its results are a list,  *)
(* and a node id may stand in it twice (jest takes the same title twice in *)
(* one block). When facts are cached and served is in DerivedFacts.        *)
(***************************************************************************)
EXTENDS CoverageFacts

PassLike == {"passed", "xpassed"}
FailLike == {"failed", "errored"}
SkipLike == {"skipped", "xfailed"}

(* The normalizers' one outcome outside the vocabulary is "unknown", which *)
(* says neither pass nor skip: it is feared.                               *)
BucketDefensively(outcome) == "fail"

Known(outcome) == outcome \in PassLike \cup FailLike \cup SkipLike

Bucket(outcome) ==
  CASE outcome \in PassLike -> "pass"
    [] outcome \in FailLike -> "fail"
    [] outcome \in SkipLike -> "skip"
    [] ~Known(outcome) -> BucketDefensively(outcome)

(* Baseline first.                                                         *)
Classify(old, new) ==
  CASE old = "pass" /\ new = "fail" -> "regressed"
    [] old = "fail" /\ new = "pass" -> "fixed"
    [] old = "fail" /\ new = "fail" -> "still_failing"
    [] old = "pass" /\ new = "pass" -> "still_passing"
    [] old = "skip" /\ new = "skip" -> "still_skipped"
    [] old # "skip" /\ new = "skip" -> "newly_skipped"
    [] old = "skip" /\ new # "skip" -> "newly_active"

----------------------------------------------------------------------------
Absent == [outcome |-> "absent"]

Nodes(run) == {run.results[i].node : i \in DOMAIN run.results}

\* Mutant: a dictionary by node id, the last occurrence wins.
LastOfNode(run, n) ==
  FoldLeft(LAMBDA kept, tr : IF tr.node = n THEN tr ELSE kept, Absent, run.results)

(* _collapse_by_node_id: a failing occurrence is never replaced by one     *)
(* that is not; among equals the later wins.                               *)
Representative(run, n) ==
  FoldLeft(LAMBDA kept, tr :
             IF /\ tr.node = n
                /\ kept = Absent \/ tr.outcome \in FailLike \/ kept.outcome \notin FailLike
             THEN tr ELSE kept,
           Absent, run.results)

Category(old, new) ==
  CASE old = Absent -> "added"
    [] new = Absent -> "removed"
    [] old # Absent /\ new # Absent -> Classify(Bucket(old.outcome), Bucket(new.outcome))

Transitions(base, target) ==
  [n \in Nodes(base) \cup Nodes(target) |-> Category(Representative(base, n), Representative(target, n))]

InCategory(transitions, c) == {n \in DOMAIN transitions : transitions[n] = c}

Summary(base, target) ==
  LET t == Transitions(base, target)
      both == Cardinality(Nodes(base) \cap Nodes(target))
  IN  [regressed |-> Cardinality(InCategory(t, "regressed")),
       total_baseline |-> both + Cardinality(InCategory(t, "removed")),
       total_target |-> both + Cardinality(InCategory(t, "added"))]

(* Only of the tests that are in both runs are outcomes resolved.          *)
UnknownOutcomes(base, target) ==
  LET both == Nodes(base) \cap Nodes(target)
  IN  {o \in UNION {{Representative(base, n).outcome, Representative(target, n).outcome} : n \in both} : ~Known(o)}

NoVersion == "none"

Drift(base, target) ==
  (IF base.version \in {target.version, NoVersion} \/ target.version = NoVersion THEN {} ELSE {"engine-version-drift"})
    \cup (IF base.type = target.type THEN {} ELSE {"target-type-drift"})

(* The captured streams, by digest; one that is not there is never the     *)
(* same as another.                                                        *)
NoStream == "none"

OutputDiff(base, target) ==
  [stream \in {"stdout", "stderr"} |->
     base.streams[stream] # NoStream /\ base.streams[stream] = target.streams[stream]]

----------------------------------------------------------------------------
(* derive_regression_facts, given the coverage facts of both runs.         *)
Refused(reason) == [state |-> reason]

Comparison(base, target, oldFiles, newFiles, coverageComparable) ==
  CASE base.engine # target.engine -> Refused("engine-mismatch")
    [] base.engine = target.engine /\ base.target # target.target -> Refused("target-mismatch")
    [] base.engine = target.engine /\ base.target = target.target ->
         [state |-> "facts",
          transitions |-> Transitions(base, target),
          summary |-> Summary(base, target),
          warnings |-> Drift(base, target) \cup UnknownOutcomes(base, target),
          same |-> OutputDiff(base, target),
          changed |-> IF coverageComparable THEN ChangedFiles(Delta(oldFiles, newFiles)) ELSE {}]

(* resolve_baseline_for_run: the latest earlier live run of the same       *)
(* target and engine; 0 if there is none.                                  *)
BaselineFor(runs, live, r) ==
  LET older == {q \in live : q < r /\ runs[q].target = runs[r].target /\ runs[q].engine = runs[r].engine}
  IN  IF older = {} THEN 0 ELSE CHOOSE q \in older : \A p \in older : p <= q

(* resolve_latest_baseline: the newest live run of a target, and its       *)
(* baseline.                                                               *)
LatestPair(runs, live, target) ==
  LET of == {q \in live : runs[q].target = target}
      newest == CHOOSE q \in of : \A p \in of : p <= q
  IN  IF Cardinality(of) < 2 THEN <<0, 0>> ELSE <<BaselineFor(runs, live, newest), newest>>
=============================================================================
