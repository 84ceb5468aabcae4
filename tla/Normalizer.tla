----------------------------- MODULE Normalizer -----------------------------
(***************************************************************************)
(* run/normalizer.py: one vocabulary of test outcomes and one verdict per  *)
(* run, from the payloads of six engines. Durations, failure texts and the *)
(* phases of a pytest failure are left out.                                *)
(***************************************************************************)
EXTENDS Naturals

\* The words of pytest, jest, go test and cargo nextest that are known.
Vocabulary(e) ==
  CASE e = "pytest" -> [passed |-> "passed", failed |-> "failed", skipped |-> "skipped",
                        xfailed |-> "xfailed", xpassed |-> "xpassed", error |-> "errored"]
    [] e = "jest" -> [passed |-> "passed", failed |-> "failed", pending |-> "skipped", skipped |-> "skipped",
                      todo |-> "skipped", disabled |-> "skipped", focused |-> "passed"]
    [] e = "go-test" -> [pass |-> "passed", fail |-> "failed", skip |-> "skipped"]
    [] e = "cargo-test" -> [ok |-> "passed", failed |-> "failed", ignored |-> "skipped"]

\* JUnit XML tells an outcome by the first element it finds in a test case.
JunitStatus(element) ==
  CASE element = "failure" -> "failed" [] element = "error" -> "errored"
    [] element = "skipped" -> "skipped" [] OTHER -> "passed"

\* Mutant: only "skipped" is a skip.
TrxStatusNarrow(outcome) ==
  CASE outcome \in {"passed", "failed"} -> outcome [] outcome = "skipped" -> "skipped" [] OTHER -> "errored"

\* An outcome of a TRX file that is not known is an error.
TrxStatus(outcome) ==
  CASE outcome \in {"passed", "failed"} -> outcome
    [] outcome \in {"notexecuted", "skipped", "inconclusive"} -> "skipped"
    [] OTHER -> "errored"

Normalized(e, word) ==
  CASE e = "junit" -> JunitStatus(word)
    [] e = "xunit" -> TrxStatus(word)
    [] e \notin {"junit", "xunit"} -> IF word \in DOMAIN Vocabulary(e) THEN Vocabulary(e)[word] ELSE "unknown"

\* The word each tool has for an outcome (external).
Word(e, outcome) ==
  LET words == CASE e = "pytest" -> <<"passed", "failed", "error", "skipped">>
                 [] e = "jest" -> <<"passed", "failed", "failed", "pending">>
                 [] e = "go-test" -> <<"pass", "fail", "fail", "skip">>
                 [] e = "cargo-test" -> <<"ok", "failed", "failed", "ignored">>
                 [] e = "junit" -> <<"none", "failure", "error", "skipped">>
                 [] e = "xunit" -> <<"passed", "failed", "error", "notexecuted">>
  IN  words[CHOOSE i \in 1..4 : outcome = <<"passed", "failed", "errored", "skipped">>[i]]

FailLike(results) == \E t \in DOMAIN results : results[t] \in {"failed", "errored"}

\* Mutant: an errored test is not a failure.
PytestVerdictFailedOnly(results, rc) ==
  CASE rc \in {2, 3, 5} -> "errored"
    [] rc \notin {2, 3, 5} /\ (\E t \in DOMAIN results : results[t] = "failed") -> "failed"
    [] OTHER -> "passed"

\* An interrupted, crashed or empty session is errored whatever its tests say.
PytestVerdict(results, rc) ==
  CASE rc \in {2, 3, 5} -> "errored"
    [] rc \notin {2, 3, 5} /\ FailLike(results) -> "failed"
    [] OTHER -> "passed"

\* jest's own success flag comes first, then its own count of failed tests and
\* the results. A flag that is missing or no boolean is one that is not true.
JestVerdict(results, success, numFailed) ==
  CASE success -> "passed"
    [] ~success /\ (numFailed > 0 \/ FailLike(results)) -> "failed"
    [] OTHER -> "errored"

\* go-test, cargo-test, junit and xunit: failing tests, then the exit code.
CodedVerdict(results, rc) ==
  CASE FailLike(results) -> "failed" [] ~FailLike(results) /\ rc = 0 -> "passed" [] OTHER -> "errored"

Verdict(e, results, c) ==
  CASE e = "pytest" -> PytestVerdict(results, c.rc)
    [] e = "jest" -> JestVerdict(results, c.success, c.numFailed)
    [] OTHER -> CodedVerdict(results, c.rc)
=============================================================================
