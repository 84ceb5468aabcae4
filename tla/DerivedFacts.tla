----------------------------- MODULE DerivedFacts -----------------------------
(***************************************************************************)
(* The facts derived from run evidence and cached beside it: coverage facts *)
(* per run (coverage/), regression facts per ordered pair of runs          *)
(* (regression/) and localization findings per run (localization/), under  *)
(* the verbs that derive, read and replace them: run, run --coverage, test,*)
(* compare, regression compare, regression latest and localize              *)
(* (orchestration/workflows/, cli/handlers/).                              *)
(*                                                                         *)
(* Coverage and pair files are opened (truncated) and then written in      *)
(* place; findings are staged and renamed.  Evidence itself is the abstract *)
(* ledger (RunLedger, which RunEvidence implements); a reset is left out.  *)
(* Runs are 1..N in the order of their ULIDs and share one target          *)
(* expression.                                                             *)
(***************************************************************************)
EXTENDS Integers, Sequences, FiniteSets, FiniteSetsExt

CONSTANTS
  N,         \* runs
  Old,       \* the runs 1..Old are in the store at the start
  Clients,   \* invocations of compare, regression latest and localize
  Traits,    \* what a recorded run may be like:
             \* [engine, failing : BOOLEAN, payload \in Payloads]
  Formulas,  \* values of --formula, Ochiai among them
  TopNs,     \* values of --top-n, Ten among them
  Ochiai, Ten,   \* the default flags
  NoFinding

Runs     == 1..N
Procs    == Runs \cup Clients
Payloads == {"none", "per_test", "no_contexts", "aggregate"}
Modes    == {"sbfl_per_test", "sbfl_aggregate", "failure_proximity"}
Flags    == [formula : Formulas, top_n : TopNs]
Default  == [formula |-> Ochiai, top_n |-> Ten]

ASSUME FactsConstants ==
  /\ N \in Nat /\ Old \in 0..N
  /\ Clients \cap Runs = {}
  /\ Ochiai \in Formulas /\ Ten \in TopNs

\* has_basis: the metadata key test_file_exclusion_basis, which releases before
\* v0.3.0 did not write.  weighed: the ranking had a coverage_change to boost
\* the changed files by (regression_reweighted).
Findings == [mode : Modes, formula : Formulas, top_n : TopNs,
             has_basis : BOOLEAN, weighed : BOOLEAN]

VARIABLES
  status,     \* [Runs -> the ledger's status of the evidence]
  trait,      \* [Runs -> Traits], fixed
  cov,        \* [Runs -> coverage_facts.json: "none", "torn" or "ok"]
  pairs,      \* [Runs \X Runs -> regression_facts.json: "none", "torn", or
              \*  without ("bare") or with ("delta") a coverage_change]
  findings,   \* [Runs -> localization_findings.json]
  pc,         \* [Procs -> next step]
  work,       \* [Procs -> what the verb has in memory]
  overlapped  \* history: has a verb begun, or a run been deleted, while
              \* another verb was running?

facts == <<status, trait, cov, pairs, findings>>
vars  == <<status, trait, cov, pairs, findings, pc, work, overlapped>>

Ledger == INSTANCE RunLedger

\* "compare" is the top-level verb, "regression" is regression compare.
Verbs == {"run", "coverage", "test", "compare", "regression", "latest", "localize"}
Steps == {"store", "derive", "cov_open", "cov_write", "pick", "base", "check", "cache",
          "recheck", "read_base", "read_target", "pair_open", "pair_write", "view",
          "loc_check", "loc_probe", "loc_read", "loc_cov", "loc_reg", "loc_write",
          "policy"}
Ended == {"done", "refused", "died", "crashed"}

\* baseline and target are 0 until chosen.  change: coverage_change as just
\* computed.  regression, delta (is there a coverage delta?), finding: the verb's
\* outcomes.  again: the second derivation of the flag policy.  doomed: history,
\* the subject was deleted before the verb began.
Work == [verb : Verbs, baseline : 0..N, target : 0..N, flags : Flags,
         change : {"none", "bare", "delta"}, regression : {"none", "bare", "delta"},
         delta : BOOLEAN, mode : Modes \cup {"none"}, weighed : BOOLEAN,
         finding : Findings \cup {NoFinding}, again : BOOLEAN, doomed : BOOLEAN]

FreshWork(verb, b, t, fl) ==
  [verb |-> verb, baseline |-> b, target |-> t, flags |-> fl, change |-> "none",
   regression |-> "none", delta |-> FALSE, mode |-> "none", weighed |-> FALSE,
   finding |-> NoFinding,
   again |-> FALSE,
   doomed |-> \E r \in {b, t} \cap Runs : status[r] = "tombstoned"]

DerivedTypeOK ==
  /\ Ledger!LedgerTypeOK
  /\ trait \in [Runs -> Traits]
  /\ cov \in [Runs -> {"none", "torn", "ok"}]
  /\ pairs \in [Runs \X Runs -> {"none", "torn", "bare", "delta"}]
  /\ findings \in [Runs -> Findings \cup {NoFinding}]
  /\ pc \in [Procs -> {"idle"} \cup Steps \cup Ended]
  /\ work \in [Procs -> Work]
  /\ overlapped \in BOOLEAN
-----------------------------------------------------------------------------
(* derive_localization_findings picks its mode from the coverage facts *)

IsSbfl(mode) == mode \in {"sbfl_per_test", "sbfl_aggregate"}

ModeOf(r) ==
  IF cov[r] = "none" THEN "failure_proximity"
  ELSE IF trait[r].payload = "aggregate" THEN "sbfl_aggregate" ELSE "sbfl_per_test"

\* failure_proximity records a placeholder in place of the formula.
Finding(mode, fl, has_basis, weighed) ==
  [mode |-> mode, formula |-> IF IsSbfl(mode) THEN fl.formula ELSE Ochiai,
   top_n |-> fl.top_n, has_basis |-> has_basis, weighed |-> weighed]

\* The store at the start: old runs, with the facts an earlier release derived.
OldFinding(r) ==
  {NoFinding} \cup
  IF r <= Old /\ trait[r].failing /\ ~(cov[r] = "ok" /\ trait[r].payload = "no_contexts")
  THEN {Finding(ModeOf(r), Default, FALSE, FALSE)} ELSE {}

Init ==
  /\ status = [r \in Runs |-> IF r <= Old THEN "recorded" ELSE "absent"]
  /\ trait \in [Runs -> Traits]
  /\ cov = [r \in Runs |-> IF r <= Old /\ trait[r].payload # "none" THEN "ok" ELSE "none"]
  /\ pairs = [q \in Runs \X Runs |-> "none"]
  /\ findings \in {f \in [Runs -> Findings \cup {NoFinding}] :
                     \A r \in Runs : f[r] \in OldFinding(r)}
  /\ pc = [p \in Procs |-> IF p \in Runs /\ p <= Old THEN "done" ELSE "idle"]
  /\ work = [p \in Procs |-> FreshWork("run", 0, IF p \in Runs THEN p ELSE 0, Default)]
  /\ overlapped = FALSE

InFlight(p) == pc[p] \in Steps
Live        == {r \in Runs : status[r] = "recorded"}
Goes(p, step)    == pc' = [pc EXCEPT ![p] = step]
Keeps(p, w)      == work' = [work EXCEPT ![p] = w]
At(p, from, to)  == pc[p] = from /\ Goes(p, to) /\ UNCHANGED overlapped
Pair(p)          == <<work[p].baseline, work[p].target>>
-----------------------------------------------------------------------------
(* The verbs begin *)

Begin(p, step, w) ==
  /\ pc[p] = "idle"
  /\ Goes(p, step)
  /\ Keeps(p, w)
  /\ overlapped' = (overlapped \/ \E q \in Procs : InFlight(q))
  /\ UNCHANGED facts

\* generate_ulid orders the runs by when they begin.
BeginRun(r) ==
  /\ \A q \in Runs : q < r => pc[q] # "idle"
  /\ \E verb \in {"run", "coverage", "test"} :
       Begin(r, "store", FreshWork(verb, 0, r, Default))

HasEvidence(r) == status[r] \in {"recorded", "tombstoned"}

\* The CLI resolves run ids first; it exits 2 for those it does not find.
BeginClient(c) ==
  \/ \E b, t \in Runs, verb \in {"compare", "regression"} :
       HasEvidence(b) /\ HasEvidence(t) /\ Begin(c, "check", FreshWork(verb, b, t, Default))
  \/ Begin(c, "pick", FreshWork("latest", 0, 0, Default))
  \/ \E t \in Runs, fl \in Flags :
       HasEvidence(t) /\ Begin(c, "loc_check", FreshWork("localize", 0, t, fl))

\* memory delete touches the evidence only; facts derived from it stay.
Delete(r) ==
  /\ Ledger!Tombstone(r)
  /\ overlapped' = (overlapped \/ \E q \in Procs : InFlight(q))
  /\ UNCHANGED <<trait, cov, pairs, findings, pc, work>>

\* Mutant: `test` derives coverage after it compared.
TestDerivesLate == <<"store", "pick", "derive", "loc_check">>

\* test_target_in_store: the stages, by their first steps.
TestStages == <<"store", "derive", "pick", "loc_check">>

StagesOf(verb) == CASE verb = "run"      -> <<"store">>
                    [] verb = "coverage" -> <<"store", "derive">>
                    [] verb = "test"     -> TestStages
                    [] OTHER             -> <<>>

\* What follows the stage that begins with step first: a stage that found no
\* facts ends a client's verb as refused, and lets `test` go on.
Then(p, first, ended) ==
  LET stages == StagesOf(work[p].verb)
      after  == {i \in 2..Len(stages) : stages[i - 1] = first}
  IN  IF p \in Clients THEN ended
      ELSE IF after = {} THEN "done" ELSE stages[Min(after)]
-----------------------------------------------------------------------------
(* The recorder: store_run_evidence, derive_coverage_facts *)

Store(r) ==
  /\ At(r, "store", Then(r, "store", "done"))
  /\ Ledger!Record(r)
  /\ UNCHANGED <<trait, cov, pairs, findings, work>>

Derive(r) ==
  /\ At(r, "derive",
        IF trait[r].payload = "none" THEN Then(r, "derive", "done") ELSE "cov_open")
  /\ UNCHANGED <<facts, work>>

CovOpen(r) ==
  /\ At(r, "cov_open", "cov_write")
  /\ cov' = [cov EXCEPT ![r] = "torn"]
  /\ UNCHANGED <<status, trait, pairs, findings, work>>

CovWrite(r) ==
  /\ At(r, "cov_write", Then(r, "derive", "done"))
  /\ cov' = [cov EXCEPT ![r] = "ok"]
  /\ UNCHANGED <<status, trait, pairs, findings, work>>

Recorder(r) == Store(r) \/ Derive(r) \/ CovOpen(r) \/ CovWrite(r)
-----------------------------------------------------------------------------
(* resolve_latest_baseline: two walks of the history *)

NoRegression(p) == IF work[p].verb = "compare" THEN "view" ELSE Then(p, "pick", "refused")

Pick(p) ==
  /\ At(p, "pick", IF Cardinality(Live) < 2 THEN NoRegression(p) ELSE "base")
  /\ Keeps(p, IF Cardinality(Live) < 2 THEN work[p]
              ELSE [work[p] EXCEPT !.target = Max(Live)])
  /\ UNCHANGED facts

\* resolve_baseline_for_run: live, older, of the same engine; the newest wins.
Baselines(t) == {r \in Live : r < t /\ trait[r].engine = trait[t].engine}

Base(p) ==
  LET found == Baselines(work[p].target)
  IN  /\ At(p, "base", IF found = {} THEN NoRegression(p) ELSE "check")
      /\ Keeps(p, IF found = {} THEN work[p]
                  ELSE [work[p] EXCEPT !.baseline = Max(found)])
      /\ UNCHANGED facts
-----------------------------------------------------------------------------
(* compare_runs *)

Tombstoned(p)   == \E r \in {work[p].baseline, work[p].target} : status[r] = "tombstoned"
SameEngine(b, t) == trait[b].engine = trait[t].engine
HasRegression(p) == IF work[p].verb = "compare" THEN "view" ELSE Then(p, "pick", "done")

\* Mutant: a cached pair is served without looking at the evidence.
CheckSkipped(p) ==
  /\ At(p, "check", "cache")
  /\ UNCHANGED <<facts, work>>

Check(p) ==
  /\ At(p, "check", IF Tombstoned(p) THEN NoRegression(p) ELSE "cache")
  /\ UNCHANGED <<facts, work>>

\* Mutant: a torn cache is an answer instead of a miss.
CacheTornIsFinal(p) ==
  LET found == pairs[Pair(p)]
  IN  /\ At(p, "cache", IF found \in {"bare", "delta"} THEN HasRegression(p)
                        ELSE IF found = "torn" THEN NoRegression(p) ELSE "recheck")
      /\ Keeps(p, IF found \in {"bare", "delta"}
                  THEN [work[p] EXCEPT !.regression = found] ELSE work[p])
      /\ UNCHANGED facts

\* get_regression_facts: a torn file reads as a missing one.
Cache(p) ==
  LET found == pairs[Pair(p)]
  IN  /\ At(p, "cache", IF found \in {"bare", "delta"} THEN HasRegression(p) ELSE "recheck")
      /\ Keeps(p, IF found \in {"bare", "delta"}
                  THEN [work[p] EXCEPT !.regression = found] ELSE work[p])
      /\ UNCHANGED facts

\* derive_regression_facts looks at the evidence again.
Recheck(p) ==
  /\ At(p, "recheck",
        IF Tombstoned(p) \/ ~SameEngine(work[p].baseline, work[p].target)
        THEN NoRegression(p) ELSE "read_base")
  /\ UNCHANGED <<facts, work>>

\* _maybe_coverage_change: missing facts on either side are no change; a torn
\* coverage_facts.json raises out of the verb.
ReadBase(p) ==
  LET found == cov[work[p].baseline]
  IN  /\ At(p, "read_base", CASE found = "torn" -> "died"
                              [] found = "none" -> "pair_open"
                              [] found = "ok"   -> "read_target")
      /\ Keeps(p, [work[p] EXCEPT !.change = "bare"])
      /\ UNCHANGED facts

ReadTarget(p) ==
  LET found == cov[work[p].target]
  IN  /\ At(p, "read_target", IF found = "torn" THEN "died" ELSE "pair_open")
      /\ Keeps(p, [work[p] EXCEPT !.change = IF found = "ok" THEN "delta" ELSE "bare"])
      /\ UNCHANGED facts

PairOpen(p) ==
  /\ At(p, "pair_open", "pair_write")
  /\ pairs' = [pairs EXCEPT ![Pair(p)] = "torn"]
  /\ UNCHANGED <<status, trait, cov, findings, work>>

PairWrite(p) ==
  /\ At(p, "pair_write", HasRegression(p))
  /\ pairs' = [pairs EXCEPT ![Pair(p)] = work[p].change]
  /\ Keeps(p, [work[p] EXCEPT !.regression = work[p].change])
  /\ UNCHANGED <<status, trait, cov, findings>>

\* compare_coverage_facts: a delta takes facts of both runs and one engine, and
\* asks for no tombstone.
HasDelta(b, t) == cov[b] = "ok" /\ cov[t] = "ok" /\ SameEngine(b, t)

\* build_compare_view asks for the coverage delta too, whatever came before, and
\* answers with both outcomes.
View(p) ==
  LET b == work[p].baseline
      t == work[p].target
  IN  /\ At(p, "view", IF cov[b] = "torn" \/ (cov[b] = "ok" /\ cov[t] = "torn")
                       THEN "died" ELSE "done")
      /\ Keeps(p, [work[p] EXCEPT !.delta = HasDelta(b, t)])
      /\ UNCHANGED facts

Compare(p) ==
  \/ Pick(p) \/ Base(p) \/ Check(p) \/ Cache(p) \/ Recheck(p)
  \/ ReadBase(p) \/ ReadTarget(p) \/ PairOpen(p) \/ PairWrite(p) \/ View(p)
-----------------------------------------------------------------------------
(* derive_localization_findings *)

NoFacts(p) == Then(p, "loc_check", "refused")

\* Only the verb localize has flags to compare with what it got.
Localized(p) == IF p \in Clients THEN "policy" ELSE Then(p, "loc_check", "done")

LocCheck(p) ==
  /\ At(p, "loc_check",
        IF status[work[p].target] = "tombstoned" THEN NoFacts(p) ELSE "loc_probe")
  /\ UNCHANGED <<facts, work>>

\* A cached finding is served before the record is asked for failed tests.
LocProbe(p) ==
  /\ At(p, "loc_probe", IF findings[work[p].target] # NoFinding THEN "loc_read"
                        ELSE IF trait[work[p].target].failing THEN "loc_cov" ELSE NoFacts(p))
  /\ UNCHANGED <<facts, work>>

\* read_text follows is_file: an unlink in between raises out of the verb.
LocRead(p) ==
  LET found == findings[work[p].target]
  IN  /\ At(p, "loc_read", IF found = NoFinding THEN "died" ELSE Localized(p))
      /\ Keeps(p, [work[p] EXCEPT !.finding = found])
      /\ UNCHANGED facts

\* per_test coverage without line contexts is refused once regression was read.
LocCov(p) ==
  LET t == work[p].target
  IN  /\ At(p, "loc_cov",
            CASE cov[t] = "torn" -> "died"
              [] cov[t] = "ok" /\ trait[t].payload = "no_contexts" -> NoFacts(p)
              [] OTHER -> "loc_reg")
      /\ Keeps(p, IF cov[t] = "torn" THEN work[p] ELSE [work[p] EXCEPT !.mode = ModeOf(t)])
      /\ UNCHANGED facts

\* try_get_latest_regression_facts: the cached pair with today's baseline, if
\* there is one and it is whole.  The changed files are those of its coverage
\* change; per-test ranking makes no use of them.
LocReg(p) ==
  LET t       == work[p].target
      found   == Baselines(t)
      changed == found # {} /\ pairs[<<Max(found), t>>] = "delta"
  IN  /\ At(p, "loc_reg", "loc_write")
      /\ Keeps(p, [work[p] EXCEPT !.weighed = changed /\ work[p].mode # "sbfl_per_test"])
      /\ UNCHANGED facts

\* write_localization_findings: staged under a name of its own, then renamed.
LocWrite(p) ==
  LET new == Finding(work[p].mode, work[p].flags, TRUE, work[p].weighed)
  IN  /\ At(p, "loc_write", Localized(p))
      /\ findings' = [findings EXCEPT ![work[p].target] = new]
      /\ Keeps(p, [work[p] EXCEPT !.finding = new])
      /\ UNCHANGED <<status, trait, cov, pairs>>

\* _is_stale_build_finding
Stale(f) == IsSbfl(f.mode) /\ ~f.has_basis

SameFlags(f, fl) == f.formula = fl.formula /\ f.top_n = fl.top_n

\* Mutant: the flags alone decide.
HonoursIgnoringBuild(f, fl) ==
  \/ SameFlags(f, fl)
  \/ f.mode = "failure_proximity" /\ f.top_n = fl.top_n

\* _apply_flag_override_policy returns f as it is: the flags are as asked and
\* the build is not stale, or only the formula differs where there is none.
Honours(f, fl) ==
  \/ SameFlags(f, fl) /\ ~Stale(f)
  \/ f.mode = "failure_proximity" /\ f.top_n = fl.top_n

\* _invalidate_and_rederive: the second outcome is returned as it comes.
Policy(p) ==
  LET keep == work[p].again \/ Honours(work[p].finding, work[p].flags)
  IN  /\ At(p, "policy", IF keep THEN "done" ELSE "loc_check")
      /\ Keeps(p, IF keep THEN work[p]
                  ELSE [work[p] EXCEPT !.again = TRUE, !.finding = NoFinding])
      /\ findings' = IF keep THEN findings
                     ELSE [findings EXCEPT ![work[p].target] = NoFinding]
      /\ UNCHANGED <<status, trait, cov, pairs>>

Localize(p) ==
  \/ LocCheck(p) \/ LocProbe(p) \/ LocRead(p) \/ LocCov(p) \/ LocReg(p) \/ LocWrite(p)
  \/ Policy(p)
-----------------------------------------------------------------------------
Crash(p) ==
  /\ InFlight(p)
  /\ Goes(p, "crashed")
  /\ UNCHANGED <<facts, work, overlapped>>

Next ==
  \/ \E r \in Runs : BeginRun(r) \/ Recorder(r) \/ Delete(r)
  \/ \E c \in Clients : BeginClient(c)
  \/ \E p \in Procs : Compare(p) \/ Localize(p) \/ Crash(p)

Spec == Init /\ [][Next]_vars
-----------------------------------------------------------------------------
(* Properties of any interleaving *)

\* "tombstoning is fail-hard regardless of cache existence": no verb answers
\* with regression facts or findings about a run that was deleted before the
\* verb began.  Not so the coverage delta, which `compare` still answers with.
RefusesDeleted ==
  \A c \in Clients :
    work[c].doomed =>
      /\ work[c].regression = "none" /\ work[c].finding = NoFinding
      /\ work[c].delta => work[c].verb = "compare"

\* localize never returns an SBFL finding that a release before v0.3.0 derived.
NoStaleBuildServed ==
  \A c \in Clients :
    pc[c] = "done" /\ work[c].finding # NoFinding => ~Stale(work[c].finding)

(* Verbs that do not overlap, each crashing anywhere *)

\* Nothing is cached before what it is derived from is final: a pair without a
\* coverage change has a side without coverage facts, for good, and the mode of
\* a finding is that of the run's coverage facts.  (So failure proximity never
\* has a coverage change to weigh: that takes coverage facts of the run.)
FactsAreFinal ==
  ~overlapped =>
    /\ \A b, t \in Runs :
         /\ pairs[<<b, t>>] = "bare"  => cov[b] # "ok" \/ cov[t] # "ok"
         /\ pairs[<<b, t>>] = "delta" => cov[b] = "ok" /\ cov[t] = "ok"
    /\ \A r \in Runs :
         findings[r] # NoFinding =>
           /\ cov[r] # "torn" /\ findings[r].mode = ModeOf(r)
           /\ findings[r].weighed => IsSbfl(findings[r].mode)

\* ANA-23, self-heal: whatever a crashed verb left of a pair, a comparison is
\* without facts only for a deleted side or another engine, and what it answers
\* is what the cache holds; a coverage delta never stands beside regression
\* facts that have no coverage change.
ComparisonHeals ==
  ~overlapped =>
    \A c \in Clients :
      work[c].verb \in {"compare", "regression"} /\ pc[c] \in {"refused", "done"} =>
        IF work[c].regression = "none"
        THEN Tombstoned(c) \/ ~SameEngine(work[c].baseline, work[c].target)
        ELSE /\ pairs[Pair(c)] = work[c].regression
             /\ work[c].delta => work[c].regression = "delta"
=============================================================================
