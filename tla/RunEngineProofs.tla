--------------------------- MODULE RunEngineProofs ---------------------------
(***************************************************************************)
(* Proofs about RunEngine: for any machines and what they change into, any *)
(* requests, tests and number of runs, and whatever the tools do.          *)
(***************************************************************************)
EXTENDS RunEngine, WellFoundedInduction, TLAPS

(***************************************************************************)
(* Gates                                                                   *)
(***************************************************************************)

\* A non-empty set of naturals has a least element.
LEMMA LeastIsIn ==
  ASSUME NEW S \in SUBSET Nat, S # {}
  PROVE  Min(S) \in S
PROOF
<1>1. PICK x \in S : \A y \in S : <<y, x>> \notin OpToRel(<, Nat)
  BY WFMin, NatLessThanWellFounded
<1>2. \A y \in S : ~(y < x)
  BY <1>1, Zenon DEF OpToRel
<1>3. \A y \in S : x <= y
  BY <1>2
<1> QED
  BY <1>3 DEF Min

\* A list of gates answers "none" when all are passed, and with the kind of
\* one that is not otherwise.
LEMMA FirstKindIsOfAGate ==
  ASSUME NEW G, NEW gates \in Seq(G), \A i \in DOMAIN gates : gates[i][2] # "none"
  PROVE  IF FirstKind(gates) = "none" THEN \A i \in DOMAIN gates : gates[i][1]
         ELSE \E i \in DOMAIN gates : ~gates[i][1] /\ FirstKind(gates) = gates[i][2]
PROOF
<1> DEFINE shut == {i \in 1..Len(gates) : ~gates[i][1]}
<1>1. Len(gates) \in Nat /\ DOMAIN gates = 1..Len(gates)
  OBVIOUS
<1>2. SelectInSeq(gates, LAMBDA g : ~g[1]) = IF shut # {} THEN Min(shut) ELSE 0
  BY DEF SelectInSeq
<1>3. CASE shut = {}
  <2>1. FirstKind(gates) = "none"
    BY <1>2, <1>3 DEF FirstKind
  <2> QED
    BY <1>1, <1>3, <2>1
<1>4. CASE shut # {}
  <2>1. Min(shut) \in shut
    <3>1. shut \in SUBSET Nat
      BY <1>1
    <3> HIDE DEF shut
    <3> QED
      BY <1>4, <3>1, LeastIsIn
  <2>2. FirstKind(gates) = gates[Min(shut)][2]
    BY <1>1, <1>2, <1>4, <2>1 DEF FirstKind
  <2> QED
    BY <1>1, <2>1, <2>2
<1> QED
  BY <1>3, <1>4

\* An adapter that launched junit knows the build tool, and no refusal is
\* mistaken for a record.
LEMMA PreflightRefuses ==
  ASSUME NEW r, NEW h, r.engine \in Engines
  PROVE  /\ Preflight(r, h) \in {"none", "invalid-target", "missing-binary", "build-tool-undetermined",
                                  "project-not-found"}
         /\ Preflight(r, h) = "none" /\ r.engine = "junit" => BuildTool(h) \in {"maven", "gradle"}
PROOF
<1> DEFINE target == <<~Misread(r.engine, r.shape), "invalid-target">>
           launcher == <<LauncherFound(r.engine, h), "missing-binary">>
           tool == <<BuildTool(h) # "none", "build-tool-undetermined">>
           project == <<h.projects # <<>>, "project-not-found">>
           lists == {<<target, launcher>>, <<launcher, target>>, <<target, tool, launcher>>, <<launcher, project>>}
<1>1. \E gates \in lists : Preflight(r, h) = FirstKind(gates)
  <2>1. r.engine \in {"pytest", "jest", "junit", "go-test", "cargo-test", "xunit"}
    BY DEF Engines
  <2> QED
    BY <2>1 DEF Preflight
<1>2. r.engine = "junit" => Preflight(r, h) = FirstKind(<<target, tool, launcher>>)
  BY DEF Preflight
<1>3. tool[1] => BuildTool(h) \in {"maven", "gradle"}
  BY DEF BuildTool
<1> DEFINE kinds == {"invalid-target", "missing-binary", "build-tool-undetermined", "project-not-found"}
<1>4. \A g \in {target, launcher, tool, project} : g[2] \in kinds
  OBVIOUS
<1> HIDE DEF target, launcher, tool, project
<1>5. ASSUME NEW gates \in lists
      PROVE  /\ gates \in Seq({target, launcher, tool, project})
             /\ \A i \in DOMAIN gates : gates[i][2] \in kinds
  <2> DEFINE all == {target, launcher, tool, project}
  <2>1. gates \in Seq(all)
    <3> HIDE DEF all
    <3>1. target \in all /\ launcher \in all /\ tool \in all /\ project \in all
      BY DEF all
    <3>2. \A a, b, c \in all : <<a, b>> \in Seq(all) /\ <<a, b, c>> \in Seq(all)
      OBVIOUS
    <3> QED
      BY <3>1, <3>2
  <2>2. \A g \in all : g[2] \in kinds
    BY <1>4
  <2>3. \A i \in DOMAIN gates : gates[i][2] \in kinds
    <3> HIDE DEF all, kinds
    <3> QED
      BY <2>1, <2>2
  <2> QED
    BY <2>1, <2>3
<1>6. \A gates \in lists : FirstKind(gates) \in kinds \cup {"none"}
  <2> SUFFICES ASSUME NEW gates \in lists PROVE FirstKind(gates) \in kinds \cup {"none"}
    OBVIOUS
  <2>1. "none" \notin kinds
    OBVIOUS
  <2> HIDE DEF lists, kinds
  <2>2. IF FirstKind(gates) = "none" THEN \A i \in DOMAIN gates : gates[i][1]
        ELSE \E i \in DOMAIN gates : ~gates[i][1] /\ FirstKind(gates) = gates[i][2]
    BY <1>5, <2>1, FirstKindIsOfAGate
  <2> QED
    BY <1>5, <2>2
<1>7. FirstKind(<<target, tool, launcher>>) = "none" => tool[1]
  <2> DEFINE gates == <<target, tool, launcher>>
  <2>1. gates \in lists /\ 2 \in DOMAIN gates /\ gates[2] = tool
    OBVIOUS
  <2> HIDE DEF gates
  <2>2. FirstKind(gates) = "none" => gates[2][1]
    BY <1>5, <2>1, FirstKindIsOfAGate
  <2> QED
    BY <2>1, <2>2 DEF gates
<1> QED
  BY <1>1, <1>2, <1>3, <1>6, <1>7

LEMMA ShortLists ==
  ASSUME NEW G, NEW a \in G, NEW b \in G, NEW c \in G, NEW d \in G, NEW e \in G
  PROVE  {<<a>>, <<a, b>>, <<a, b, c>>, <<a, b, c, d>>, <<a, b, c, d, e>>} \subseteq Seq(G)
OBVIOUS

(***************************************************************************)
(* What is collected                                                       *)
(***************************************************************************)

Complaints == {"missing-plugin", "missing-engine", "unparseable-output", "misconfigured-environment"}

\* Gates that refuse with a complaint let a native result through as it is.
LEMMA UnlessComplains ==
  ASSUME NEW G, NEW gates \in Seq(G), \A g \in G : g[2] \in Complaints, NEW native, native.kind = "none"
  PROVE  /\ Unless(gates, native).kind \in Complaints \cup {"none"}
         /\ Unless(gates, native).kind = "none" => Unless(gates, native) = native
PROOF
<1>1. \A i \in DOMAIN gates : gates[i][2] \in Complaints
  OBVIOUS
<1>2. FirstKind(gates) \in Complaints \cup {"none"}
  BY <1>1, FirstKindIsOfAGate DEF Complaints
<1> QED
  BY <1>2 DEF Unless, Refused, Complaints

\* What may come out of an adapter after its tool has ended.
CollectedBy(native, results) ==
  /\ native.kind \in Complaints \cup {"none"}
  /\ native.kind = "none" => native.results = results

LEMMA PytestCollects ==
  ASSUME NEW r, NEW c, NEW k
  PROVE  CollectedBy(PytestCollect(r, c, k), ResultsOf(c, k))
PROOF
<1> DEFINE there == c.report # "none"
           a == <<there \/ "json-report" \notin c.lacks, "missing-plugin">>
           b == <<there \/ ~r.coverage \/ "pytest-cov" \notin c.lacks, "missing-plugin">>
           d == <<there \/ "pytest" \notin c.lacks, "missing-engine">>
           e == <<c.report = "whole", "unparseable-output">>
           f == <<r.coverage /\ c.rc = 0 => c.cov, "unparseable-output">>
           native == Native(ResultsOf(c, k), OwnCov(r, c, k))
<1>1. PytestCollect(r, c, k) = Unless(<<a, b, d, e, f>>, native)
  BY DEF PytestCollect
<1>2. \A g \in {a, b, d, e, f} : g[2] \in Complaints
  BY DEF Complaints
<1>3. native.kind = "none" /\ native.results = ResultsOf(c, k)
  BY DEF Native
<1> HIDE DEF a, b, d, e, f, native
<1> DEFINE gates == <<a, b, d, e, f>>
           all == {a, b, d, e, f}
<1>4. gates \in Seq(all) /\ \A g \in all : g[2] \in Complaints
  BY <1>2, ShortLists
<1> HIDE DEF gates, all
<1>5. /\ Unless(gates, native).kind \in Complaints \cup {"none"}
      /\ Unless(gates, native).kind = "none" => Unless(gates, native) = native
  BY <1>3, <1>4, UnlessComplains
<1> QED
  BY <1>1, <1>3, <1>5 DEF CollectedBy, gates

LEMMA JestCollects ==
  ASSUME NEW r, NEW c, NEW k
  PROVE  CollectedBy(JestCollect(r, c, k), ResultsOf(c, k))
PROOF
<1> DEFINE a == <<c.report # "none" \/ "jest" \notin c.lacks, "missing-plugin">>
           b == <<c.report = "whole", "unparseable-output">>
           d == <<r.coverage => c.cov, "unparseable-output">>
           native == Native(ResultsOf(c, k), OwnCov(r, c, k))
<1>1. JestCollect(r, c, k) = Unless(<<a, b, d>>, native)
  BY DEF JestCollect
<1>2. \A g \in {a, b, d} : g[2] \in Complaints
  BY DEF Complaints
<1>3. native.kind = "none" /\ native.results = ResultsOf(c, k)
  BY DEF Native
<1> HIDE DEF a, b, d, native
<1> DEFINE gates == <<a, b, d>>
           all == {a, b, d}
<1>4. gates \in Seq(all) /\ \A g \in all : g[2] \in Complaints
  BY <1>2, ShortLists
<1> HIDE DEF gates, all
<1>5. /\ Unless(gates, native).kind \in Complaints \cup {"none"}
      /\ Unless(gates, native).kind = "none" => Unless(gates, native) = native
  BY <1>3, <1>4, UnlessComplains
<1> QED
  BY <1>1, <1>3, <1>5 DEF CollectedBy, gates

LEMMA GotestCollects ==
  ASSUME NEW r, NEW c, NEW k
  PROVE  CollectedBy(GotestCollect(r, c, k), ResultsOf(c, k))
PROOF
<1> DEFINE buildFailed == DOMAIN c.ran = {} /\ c.rc # 0
           a == <<r.coverage /\ ~buildFailed => c.cov, "unparseable-output">>
           native == Native(ResultsOf(c, k), IF buildFailed THEN 0 ELSE OwnCov(r, c, k))
<1>1. GotestCollect(r, c, k) = Unless(<<a>>, native)
  BY DEF GotestCollect
<1>2. \A g \in {a} : g[2] \in Complaints
  BY DEF Complaints
<1>3. native.kind = "none" /\ native.results = ResultsOf(c, k)
  BY DEF Native
<1> HIDE DEF a, native
<1> DEFINE gates == <<a>>
           all == {a}
<1>4. gates \in Seq(all) /\ \A g \in all : g[2] \in Complaints
  BY <1>2, ShortLists
<1> HIDE DEF gates, all
<1>5. /\ Unless(gates, native).kind \in Complaints \cup {"none"}
      /\ Unless(gates, native).kind = "none" => Unless(gates, native) = native
  BY <1>3, <1>4, UnlessComplains
<1> QED
  BY <1>1, <1>3, <1>5 DEF CollectedBy, gates

LEMMA CargoCollects ==
  ASSUME NEW r, NEW c, NEW k
  PROVE  CollectedBy(CargoCollect(r, c, k), ResultsOf(c, k))
PROOF
<1> DEFINE unread == IF "libtest-json" \in c.lacks THEN "misconfigured-environment" ELSE "unparseable-output"
           a == <<DOMAIN c.ran # {} \/ c.rc = 0, unread>>
           b == <<r.coverage => c.cov, unread>>
           native == Native(ResultsOf(c, k), OwnCov(r, c, k))
<1>1. CargoCollect(r, c, k) = Unless(<<a, b>>, native)
  BY DEF CargoCollect
<1>2. \A g \in {a, b} : g[2] \in Complaints
  BY DEF Complaints
<1>3. native.kind = "none" /\ native.results = ResultsOf(c, k)
  BY DEF Native
<1> HIDE DEF a, b, native
<1> DEFINE gates == <<a, b>>
           all == {a, b}
<1>4. gates \in Seq(all) /\ \A g \in all : g[2] \in Complaints
  BY <1>2, ShortLists
<1> HIDE DEF gates, all
<1>5. /\ Unless(gates, native).kind \in Complaints \cup {"none"}
      /\ Unless(gates, native).kind = "none" => Unless(gates, native) = native
  BY <1>3, <1>4, UnlessComplains
<1> QED
  BY <1>1, <1>3, <1>5 DEF CollectedBy, gates

LEMMA JunitCollects ==
  ASSUME NEW r, NEW c, NEW d
  PROVE  CollectedBy(JunitCollect(r, c, d), IF d.dir THEN d.reports ELSE NoReports)
PROOF
<1> DEFINE a == <<d.dir \/ c.rc = 0, "unparseable-output">>
           native == Native(IF d.dir THEN d.reports ELSE NoReports, IF r.coverage THEN d.jacoco ELSE 0)
<1>1. JunitCollect(r, c, d) = Unless(<<a>>, native)
  BY DEF JunitCollect
<1>2. \A g \in {a} : g[2] \in Complaints
  BY DEF Complaints
<1>3. native.kind = "none" /\ native.results = IF d.dir THEN d.reports ELSE NoReports
  BY DEF Native
<1> HIDE DEF a, native
<1> DEFINE gates == <<a>>
           all == {a}
<1>4. gates \in Seq(all) /\ \A g \in all : g[2] \in Complaints
  BY <1>2, ShortLists
<1> HIDE DEF gates, all
<1>5. /\ Unless(gates, native).kind \in Complaints \cup {"none"}
      /\ Unless(gates, native).kind = "none" => Unless(gates, native) = native
  BY <1>3, <1>4, UnlessComplains
<1> QED
  BY <1>1, <1>3, <1>5 DEF CollectedBy, gates

LEMMA XunitCollects ==
  ASSUME NEW r, NEW h, NEW c, NEW k
  PROVE  CollectedBy(XunitCollect(r, h, c, k), IF c.report = "whole" THEN ResultsOf(c, k) ELSE NoReports)
PROOF
<1> DEFINE a == <<c.report # "none" \/ c.rc = 0, "unparseable-output">>
           b == <<c.report # "torn", "unparseable-output">>
           results == IF c.report = "whole" THEN ResultsOf(c, k) ELSE NoReports
           native == Native(results, IF Collects(r, h) THEN OwnCov(r, c, k) ELSE 0)
<1>1. XunitCollect(r, h, c, k) = Unless(<<a, b>>, native)
  BY DEF XunitCollect
<1>2. \A g \in {a, b} : g[2] \in Complaints
  BY DEF Complaints
<1>3. native.kind = "none" /\ native.results = results
  BY DEF Native
<1> HIDE DEF a, b, native
<1> DEFINE gates == <<a, b>>
           all == {a, b}
<1>4. gates \in Seq(all) /\ \A g \in all : g[2] \in Complaints
  BY <1>2, ShortLists
<1> HIDE DEF gates, all
<1>5. /\ Unless(gates, native).kind \in Complaints \cup {"none"}
      /\ Unless(gates, native).kind = "none" => Unless(gates, native) = native
  BY <1>3, <1>4, UnlessComplains
<1> QED
  BY <1>1, <1>3, <1>5 DEF CollectedBy, gates

(***************************************************************************)
(* What is recorded                                                        *)
(***************************************************************************)

\* The place of an outcome in the list Word looks it up in.
PlaceOf(o) == CHOOSE i \in 1..4 : o = <<"passed", "failed", "errored", "skipped">>[i]

LEMMA FailurePlaces == PlaceOf("failed") = 2 /\ PlaceOf("errored") = 3
PROOF
<1>1. \A i \in 1..4 : "failed" = <<"passed", "failed", "errored", "skipped">>[i] <=> i = 2
  OBVIOUS
<1>2. \A i \in 1..4 : "errored" = <<"passed", "failed", "errored", "skipped">>[i] <=> i = 3
  OBVIOUS
<1> QED
  BY <1>1, <1>2 DEF PlaceOf

\* No word an engine has for a failure is read as anything else.
LEMMA FailuresAreRead ==
  ASSUME NEW e \in {"pytest", "cargo-test", "junit"}, NEW o \in {"failed", "errored"}
  PROVE  Normalized(e, Word(e, o)) \in {"failed", "errored"}
PROOF
<1>1. PlaceOf(o) \in {2, 3}
  BY FailurePlaces
<1>2. CASE e = "pytest"
  <2>1. Word(e, o) \in {"failed", "error"}
    BY <1>1, <1>2 DEF Word, PlaceOf
  <2>2. Vocabulary(e) = [passed |-> "passed", failed |-> "failed", skipped |-> "skipped",
                         xfailed |-> "xfailed", xpassed |-> "xpassed", error |-> "errored"]
    BY <1>2 DEF Vocabulary
  <2>3. Normalized(e, Word(e, o)) =
          IF Word(e, o) \in DOMAIN Vocabulary(e) THEN Vocabulary(e)[Word(e, o)] ELSE "unknown"
    BY <1>2 DEF Normalized
  <2> QED
    BY <2>1, <2>2, <2>3
<1>3. CASE e = "cargo-test"
  <2>1. Word(e, o) = "failed"
    BY <1>1, <1>3 DEF Word, PlaceOf
  <2>2. Vocabulary(e) = [ok |-> "passed", failed |-> "failed", ignored |-> "skipped"]
    BY <1>3 DEF Vocabulary
  <2>3. Normalized(e, Word(e, o)) =
          IF Word(e, o) \in DOMAIN Vocabulary(e) THEN Vocabulary(e)[Word(e, o)] ELSE "unknown"
    BY <1>3 DEF Normalized
  <2> QED
    BY <2>1, <2>2, <2>3
<1>4. CASE e = "junit"
  BY <1>1, <1>4 DEF Normalized, Word, JunitStatus, PlaceOf
<1> QED
  BY <1>2, <1>3, <1>4

\* A record has an outcome for each native result, and says so if it has none.
LEMMA RecordSays ==
  ASSUME NEW native
  PROVE  /\ Record(native).kind = "record"
         /\ Record(native).status = Verdict(req.engine, Record(native).results, child)
         /\ DOMAIN Record(native).results = DOMAIN native.results
         /\ \A t \in DOMAIN native.results :
              Record(native).results[t] = Normalized(req.engine, Word(req.engine, native.results[t].status))
         /\ Record(native).from = {native.results[t].by : t \in DOMAIN native.results}
         /\ DOMAIN native.results = {} /\ Record(native).status = "passed" =>
              "zero-tests-collected" \in Record(native).warnings
PROOF
<1> DEFINE words == [t \in DOMAIN native.results |-> Word(req.engine, native.results[t].status)]
           results == [t \in DOMAIN words |-> Normalized(req.engine, words[t])]
<1>1. DOMAIN native.results = {} => results = <<>>
  OBVIOUS
<1>2. /\ Record(native).kind = "record"
      /\ Record(native).results = results
      /\ Record(native).status = Verdict(req.engine, results, child)
      /\ Record(native).from = {native.results[t].by : t \in DOMAIN results}
      /\ results = <<>> /\ Record(native).status = "passed" =>
           "zero-tests-collected" \in Record(native).warnings
  BY DEF Record
<1> QED
  BY <1>1, <1>2

(***************************************************************************)
(* The invariant                                                           *)
(***************************************************************************)

\* A disk has an entry of both build tools.
IsDisk(d) ==
  /\ d = [b \in {"maven", "gradle"} |-> d[b]]
  /\ \A b \in {"maven", "gradle"} :
       d[b] = [dir |-> d[b].dir, reports |-> d[b].reports, jacoco |-> d[b].jacoco, tested |-> d[b].tested]

\* Gradle's reports are all of one run: its test task replaces them.
OneRun(d) == \A t, u \in DOMAIN d["gradle"].reports : d["gradle"].reports[t].by = d["gradle"].reports[u].by

\* A tool that has ended had an exit code it can have, and junit's reports
\* are those of this run, if it came to running tests. An up-to-date task is
\* Gradle's and ran none; jest does not call a failing suite a success.
EndedInv ==
  /\ child.blind = IgnoresFailures(req, host)
  /\ ~child.built \/ child.upToDate => DOMAIN child.ran = {}
  /\ child.upToDate => req.engine = "junit" /\ BuildTool(host) = "gradle"
  /\ child.success \in Successes(req.engine, child.ran, child.rc)
  /\ child.rc \in ExitCodes(req.engine, child.ran, child.built, child.blind)
  /\ ~LosesPart(req.engine) => child.lost = {}
  /\ req.engine = "junit" /\ child.built /\ ~child.upToDate =>
       /\ disk[BuildTool(host)].reports = ResultsOf(child, n)
       /\ DOMAIN child.ran # {} => disk[BuildTool(host)].dir

\* A passed record is of one run, or says that it is empty; of another run
\* than its own only if the test task was up to date.
PassedIsOfOneRun ==
  Recorded /\ answer.status = "passed"
    => \/ answer.from = {n}
       \/ "zero-tests-collected" \in answer.warnings
       \/ child.upToDate /\ \E m : answer.from = {m}

EngineInv ==
  /\ IsDisk(disk) /\ OneRun(disk)
  /\ pin \in Engines \cup {"none"}
  /\ pc # "idle" => req.engine \in Engines /\ answer.kind # "record"
  /\ pc = "ended" => EndedInv
  /\ FailingSuiteNeverPasses /\ PassedIsOfOneRun

\* What is asked for is resolved to an engine, or refused.
LEMMA ResolvedIsKnown ==
  ASSUME NEW o \in Engines \cup {"none"}, NEW p \in Engines \cup {"none"}, NEW h
  PROVE  /\ Resolve(o, p, h).engine \in Engines \cup {"none"}
         /\ Resolve(o, p, h).how # "record"
         /\ Resolve(o, p, h).engine = "none" => Resolve(o, p, h).how \in {"undetected", "ambiguous"}
PROOF
<1>1. /\ Choose(h).choice \in {"undetected", "ambiguous", "chosen"}
      /\ Choose(h).choice = "chosen" => Choose(h).among \subseteq Engines /\ Choose(h).among # {}
  BY DEF Choose, Candidates
<1>2. Choose(h).choice = "chosen" => (CHOOSE e \in Choose(h).among : TRUE) \in Engines
  BY <1>1
<1>3. "none" \notin Engines
  BY DEF Engines
<1> QED
  BY <1>1, <1>2, <1>3 DEF Resolve

LEMMA AskKeeps ==
  ASSUME EngineInv, NEW r \in Requests, Ask(r)
  PROVE  EngineInv'
PROOF
<1> DEFINE resolved == Resolve(r.override, pin, host)
<1>1. resolved.engine \in Engines \cup {"none"} /\ resolved.how # "record"
  BY ResolvedIsKnown, EnginesAssumption DEF EngineInv
<1> HIDE DEF resolved
<1>2. UNCHANGED disk /\ pc' \in {"idle", "asked"}
  BY DEF Ask, Refuse, resolved
<1>3. answer'.kind # "record"
  BY <1>1 DEF Ask, Refuse, NoAnswer, resolved
<1>4. pin' \in Engines \cup {"none"} /\ (pc' = "asked" => req'.engine \in Engines)
  BY <1>1 DEF Ask, Refuse, EngineInv, resolved
<1>5. IsDisk(disk)' /\ OneRun(disk)'
  BY <1>2 DEF EngineInv, IsDisk, OneRun
<1> QED
  BY <1>2, <1>3, <1>4, <1>5 DEF EngineInv, FailingSuiteNeverPasses, PassedIsOfOneRun, Recorded

\* A step that answers with no record and leaves disk, pin and engine alone.
LEMMA RefusalKeeps ==
  ASSUME EngineInv, UNCHANGED <<disk, pin, req>>, pc # "idle",
         pc' \in {"idle", "asked", "ready"}, answer'.kind # "record"
  PROVE  EngineInv'
  BY DEF EngineInv, IsDisk, FailingSuiteNeverPasses, PassedIsOfOneRun, Recorded

LEMMA GateKeeps == EngineInv /\ Gate => EngineInv'
PROOF
<1> SUFFICES ASSUME EngineInv, Gate PROVE EngineInv'
  OBVIOUS
<1>1. /\ UNCHANGED <<disk, pin, req>> /\ pc # "idle"
      /\ pc' \in {"idle", "asked", "ready"} /\ answer'.kind # "record"
  BY DEF Gate, Refuse, EngineInv
<1> QED
  BY <1>1, RefusalKeeps

\* The machine changes before the launch or between runs only.
LEMMA DriftKeeps == EngineInv /\ Drift => EngineInv'
  BY DEF EngineInv, IsDisk, Drift, FailingSuiteNeverPasses, PassedIsOfOneRun, Recorded

(***************************************************************************)
(* The launch                                                              *)
(***************************************************************************)

LEMMA CleanedIsDisk ==
  ASSUME IsDisk(disk)
  PROVE  /\ IsDisk(BeforeRun(req, host, disk))
         /\ BeforeRun(req, host, disk)["gradle"] = disk["gradle"]
         /\ req.engine = "junit" /\ BuildTool(host) = "maven" =>
              BeforeRun(req, host, disk)["maven"].reports = NoReports
PROOF
<1>1. CASE req.engine = "junit" /\ BuildTool(host) = "maven"
  <2> DEFINE d == BeforeRun(req, host, disk)
  <2>1. d = [b \in {"maven", "gradle"} |->
               IF b = "maven"
               THEN [dir |-> FALSE, reports |-> NoReports, jacoco |-> disk["maven"].jacoco, tested |-> {}]
               ELSE disk[b]]
    BY <1>1 DEF BeforeRun, IsDisk
  <2> HIDE DEF d
  <2> QED
    BY <2>1 DEF IsDisk, d
<1>2. CASE ~(req.engine = "junit" /\ BuildTool(host) = "maven")
  BY <1>2 DEF BeforeRun
<1> QED
  BY <1>1, <1>2

\* Reports over none are the reports.
LEMMA OverNothing ==
  ASSUME NEW c, NEW k
  PROVE  Overlaid(ResultsOf(c, k), NoReports) = ResultsOf(c, k)
  BY DEF Overlaid, ResultsOf, NoReports

\* After a build that came to running tests, the reports are of this run;
\* after an up-to-date one they are what they were.
LEMMA ReportsAreOfThisRun ==
  ASSUME NEW d, IsDisk(d), NEW c, NEW k, req.engine = "junit", BuildTool(host) \in {"maven", "gradle"},
         BuildTool(host) = "maven" => d["maven"].reports = NoReports
  PROVE  LET after == AfterRun(req, host, d, c, k) IN
         /\ IsDisk(after)
         /\ \A o \in {"maven", "gradle"} \ {BuildTool(host)} : after[o] = d[o]
         /\ after[BuildTool(host)].jacoco \in {k, d[BuildTool(host)].jacoco}
         /\ ~c.built \/ c.upToDate => after[BuildTool(host)].reports = d[BuildTool(host)].reports
         /\ c.built /\ ~c.upToDate =>
              /\ after[BuildTool(host)].reports = ResultsOf(c, k)
              /\ DOMAIN c.ran # {} => after[BuildTool(host)].dir
PROOF
<1> DEFINE b == BuildTool(host)
           after == AfterRun(req, host, d, c, k)
           replaced == [dir |-> TRUE, reports |-> ResultsOf(c, k),
                        tested |-> IF TaskSucceeded(c) THEN {Asked(req, host)} ELSE {}]
           added == [dir |-> d[b].dir \/ DOMAIN c.ran # {},
                     reports |-> Overlaid(ResultsOf(c, k), d[b].reports), tested |-> {}]
           left == IF c.upToDate THEN d[b] ELSE IF b = "gradle" THEN replaced ELSE added
           entry == [dir |-> left.dir, reports |-> left.reports, tested |-> left.tested,
                     jacoco |-> IF Collects(req, host) /\ c.cov THEN k ELSE d[b].jacoco]
<1>1. CASE ~c.built
  BY <1>1 DEF AfterRun
<1>2. CASE c.built
  <2>1. after = [d EXCEPT ![b] = entry]
    BY <1>2 DEF AfterRun
  <2>2. c.upToDate => left.reports = d[b].reports
    OBVIOUS
  <2>3. ~c.upToDate => left.reports = ResultsOf(c, k) /\ (DOMAIN c.ran # {} => left.dir)
    <3>1. b = "gradle" => replaced.reports = ResultsOf(c, k) /\ replaced.dir
      OBVIOUS
    <3>2. b = "maven" => added.reports = ResultsOf(c, k)
      BY OverNothing
    <3>3. DOMAIN c.ran # {} => added.dir
      OBVIOUS
    <3> HIDE DEF replaced, added
    <3> QED
      BY <3>1, <3>2, <3>3
  <2> HIDE DEF left
  <2>4. /\ entry.reports = left.reports /\ entry.dir = left.dir /\ entry.jacoco \in {k, d[b].jacoco}
        /\ entry = [dir |-> entry.dir, reports |-> entry.reports, jacoco |-> entry.jacoco, tested |-> entry.tested]
    OBVIOUS
  <2> HIDE DEF after, entry
  <2>5. /\ after[b] = entry /\ IsDisk(after)
        /\ \A o \in {"maven", "gradle"} \ {b} : after[o] = d[o]
    BY <2>1, <2>4 DEF IsDisk
  <2> QED
    BY <1>2, <2>2, <2>3, <2>4, <2>5 DEF after
<1> QED
  BY <1>1, <1>2

\* Results of one execution are all of one run.
LEMMA ResultsAreOfOneRun ==
  ASSUME NEW c, NEW k
  PROVE  \A t \in DOMAIN ResultsOf(c, k) : ResultsOf(c, k)[t].by = k
BY DEF ResultsOf

\* What a tool that was started may have done.
LEMMA SpawnTells ==
  ASSUME Spawn
  PROVE  /\ child'.blind = IgnoresFailures(req, host)
         /\ ~child'.built \/ child'.upToDate => DOMAIN child'.ran = {}
         /\ child'.upToDate => req.engine = "junit" /\ BuildTool(host) = "gradle"
         /\ child'.success \in Successes(req.engine, child'.ran, child'.rc)
         /\ child'.rc \in ExitCodes(req.engine, child'.ran, child'.built, child'.blind)
         /\ ~LosesPart(req.engine) => child'.lost = {}
BY DEF Spawn, MayBeUpToDate

LEMMA LaunchKeeps == EngineInv /\ Launch => EngineInv'
PROOF
<1> SUFFICES ASSUME EngineInv, Launch PROVE EngineInv'
  OBVIOUS
<1> DEFINE kind == Preflight(req, host)
           cleaned == BeforeRun(req, host, disk)
<1>1. pc = "ready" /\ req.engine \in Engines /\ answer.kind # "record" /\ UNCHANGED <<host, pin, req, n>>
  BY DEF Launch, EngineInv
<1>2. IsDisk(cleaned) /\ OneRun(cleaned)
  BY CleanedIsDisk DEF EngineInv, OneRun
<1>3. CASE kind # "none"
  <2>1. Refuse(kind) /\ UNCHANGED disk
    BY <1>3 DEF Launch
  <2>2. pc' = "idle" /\ answer'.kind # "record"
    BY <1>1, <2>1, PreflightRefuses DEF Refuse
  <2> QED
    BY <1>1, <2>1, <2>2, RefusalKeeps
<1>4. ASSUME NEW early \in BOOLEAN, Refuse(Vanished(req, host, early)), disk' \in {disk, cleaned}
      PROVE  EngineInv'
  <2>1. pc' = "idle" /\ answer'.kind # "record"
    BY <1>4 DEF Refuse, Vanished
  <2>2. IsDisk(disk') /\ OneRun(disk')
    BY <1>2, <1>4 DEF EngineInv
  <2>3. pin' \in Engines \cup {"none"}
    BY <1>1 DEF EngineInv
  <2> QED
    BY <2>1, <2>2, <2>3 DEF EngineInv, IsDisk, FailingSuiteNeverPasses, PassedIsOfOneRun, Recorded
<1>5. ASSUME kind = "none", Spawn, disk' = AfterRun(req, host, cleaned, child', n), pc' = "ended", UNCHANGED answer
      PROVE  EngineInv'
  <2>1. /\ child'.blind = IgnoresFailures(req, host)
        /\ ~child'.built \/ child'.upToDate => DOMAIN child'.ran = {}
        /\ child'.upToDate => req.engine = "junit" /\ BuildTool(host) = "gradle"
        /\ child'.success \in Successes(req.engine, child'.ran, child'.rc)
        /\ child'.rc \in ExitCodes(req.engine, child'.ran, child'.built, child'.blind)
        /\ ~LosesPart(req.engine) => child'.lost = {}
    BY <1>5, SpawnTells
  <2>2. /\ IsDisk(disk') /\ OneRun(disk')
        /\ req.engine = "junit" /\ child'.built /\ ~child'.upToDate =>
             /\ disk'[BuildTool(host)].reports = ResultsOf(child', n)
             /\ DOMAIN child'.ran # {} => disk'[BuildTool(host)].dir
    <3>1. CASE req.engine = "junit"
      <4>1. BuildTool(host) \in {"maven", "gradle"}
        BY <1>1, <1>5, <3>1, PreflightRefuses
      <4>2. BuildTool(host) = "maven" => cleaned["maven"].reports = NoReports
        BY <3>1, CleanedIsDisk DEF EngineInv
      <4> HIDE DEF cleaned
      <4> DEFINE b == BuildTool(host)
      <4>3. /\ IsDisk(disk')
            /\ \A o \in {"maven", "gradle"} \ {b} : disk'[o] = cleaned[o]
            /\ ~child'.built \/ child'.upToDate => disk'[b].reports = cleaned[b].reports
            /\ child'.built /\ ~child'.upToDate =>
                 /\ disk'[b].reports = ResultsOf(child', n)
                 /\ DOMAIN child'.ran # {} => disk'[b].dir
        BY <1>2, <1>5, <3>1, <4>1, <4>2, ReportsAreOfThisRun
      <4>4. disk'["gradle"].reports \in {cleaned["gradle"].reports, ResultsOf(child', n)}
        BY <4>1, <4>3
      <4>5. OneRun(disk')
        <5>1. CASE disk'["gradle"].reports = cleaned["gradle"].reports
          BY <1>2, <5>1 DEF OneRun
        <5>2. CASE disk'["gradle"].reports = ResultsOf(child', n)
          BY <5>2, ResultsAreOfOneRun DEF OneRun
        <5> QED
          BY <4>4, <5>1, <5>2
      <4> QED
        BY <4>3, <4>5
    <3>2. CASE req.engine # "junit"
      BY <1>2, <1>5, <3>2 DEF AfterRun
    <3> QED
      BY <3>1, <3>2
  <2>3. EndedInv'
    BY <1>1, <2>1, <2>2 DEF EndedInv
  <2>4. pin' \in Engines \cup {"none"} /\ answer'.kind # "record" /\ req'.engine \in Engines
    BY <1>1, <1>5 DEF EngineInv
  <2> QED
    BY <1>5, <2>2, <2>3, <2>4 DEF EngineInv, IsDisk, FailingSuiteNeverPasses, PassedIsOfOneRun, Recorded
<1> QED
  BY <1>3, <1>4, <1>5 DEF Launch

(***************************************************************************)
(* The record                                                              *)
(***************************************************************************)

\* The results an adapter reads, by engine.
Taken ==
  CASE req.engine = "junit" ->
         IF disk[BuildTool(host)].dir THEN disk[BuildTool(host)].reports ELSE NoReports
    [] req.engine = "xunit" -> IF child.report = "whole" THEN ResultsOf(child, n) ELSE NoReports
    [] req.engine \notin {"junit", "xunit"} -> ResultsOf(child, n)

LEMMA CollectedIsTaken ==
  ASSUME req.engine \in Engines
  PROVE  LET native == Collect(req, host, child, disk, n) IN
         /\ native.kind \in Complaints \cup {"none", "timed-out"}
         /\ native.kind = "none" => native.results = Taken
PROOF
<1> DEFINE native == Collect(req, host, child, disk, n)
<1>1. CASE child.timedOut
  BY <1>1 DEF Collect, Refused
<1>2. CASE ~child.timedOut
  <2>1. CASE req.engine = "pytest"
    BY <1>2, <2>1, PytestCollects DEF Collect, CollectedBy, Complaints, Taken
  <2>2. CASE req.engine = "jest"
    BY <1>2, <2>2, JestCollects DEF Collect, CollectedBy, Complaints, Taken
  <2>3. CASE req.engine = "go-test"
    BY <1>2, <2>3, GotestCollects DEF Collect, CollectedBy, Complaints, Taken
  <2>4. CASE req.engine = "cargo-test"
    BY <1>2, <2>4, CargoCollects DEF Collect, CollectedBy, Complaints, Taken
  <2>5. CASE req.engine = "junit"
    BY <1>2, <2>5, JunitCollects DEF Collect, CollectedBy, Complaints, Taken
  <2>6. CASE req.engine = "xunit"
    BY <1>2, <2>6, XunitCollects DEF Collect, CollectedBy, Complaints, Taken
  <2> QED
    BY <2>1, <2>2, <2>3, <2>4, <2>5, <2>6 DEF Engines
<1> QED
  BY <1>1, <1>2

\* A result stands for a test that was seen and whose end was not lost.
LEMMA ResultsAreSeen ==
  ASSUME NEW c, NEW k
  PROVE  DOMAIN ResultsOf(c, k) = Seen(c) \ c.lost
  BY DEF ResultsOf

\* A failing test that is not lost is a failure of the record.
LEMMA FailureIsRecorded ==
  ASSUME NEW native, req.engine \in {"pytest", "cargo-test", "junit"}, native.results = ResultsOf(child, n),
         NEW t \in DOMAIN child.ran, child.ran[t] \in {"failed", "errored"}, t \notin child.lost
  PROVE  FailLike(Record(native).results)
PROOF
<1>1. t \in DOMAIN native.results /\ native.results[t].status = child.ran[t]
  <2>1. t \in Seen(child) \ child.lost
    BY DEF Seen
  <2>2. t \in DOMAIN ResultsOf(child, n)
    BY <2>1, ResultsAreSeen
  <2>3. ResultsOf(child, n)[t].status = child.ran[t]
    BY <2>2 DEF ResultsOf
  <2> QED
    BY <2>2, <2>3
<1>2. t \in DOMAIN Record(native).results
      /\ Record(native).results[t] = Normalized(req.engine, Word(req.engine, child.ran[t]))
  BY <1>1, RecordSays
<1> QED
  BY <1>2, FailuresAreRead DEF FailLike

\* An engine that does not ignore failures ends with a code that says so.
LEMMA CodeTells ==
  ASSUME EndedInv, Failing(child.ran)
  PROVE  /\ child.built
         /\ req.engine = "pytest" => child.rc \in {1, 2}
         /\ req.engine # "pytest" /\ ~child.blind => child.rc = 1
PROOF
<1>1. DOMAIN child.ran # {}
  BY DEF Failing
<1>2. child.built
  BY <1>1 DEF EndedInv
<1>3. child.ran # <<>>
  BY <1>1
<1> QED
  BY <1>2, <1>3 DEF EndedInv, ExitCodes

LEMMA FinishKeepsVerdicts ==
  ASSUME EngineInv, pc = "ended", NEW native, native.kind = "none", native.results = Taken,
         Record(native).status = "passed", Failing(child.ran)
  PROVE  child.blind /\ \E t \in child.lost : child.ran[t] \in {"failed", "errored"}
PROOF
<1>1. EndedInv /\ req.engine \in Engines
  BY DEF EngineInv
<1>2. PICK t \in DOMAIN child.ran : child.ran[t] \in {"failed", "errored"}
  BY DEF Failing
<1>3. Record(native).status = Verdict(req.engine, Record(native).results, child)
  BY RecordSays
<1>4. req.engine # "pytest"
  <2> SUFFICES ASSUME req.engine = "pytest" PROVE FALSE
    OBVIOUS
  <2>1. t \notin child.lost
    BY <1>1 DEF EndedInv, LosesPart
  <2>2. FailLike(Record(native).results)
    BY <1>2, <2>1, FailureIsRecorded DEF Taken
  <2> QED
    BY <1>1, <1>3, <2>2, CodeTells DEF Verdict, PytestVerdict
<1>5. child.blind
  <2> SUFFICES ASSUME ~child.blind PROVE FALSE
    OBVIOUS
  <2>1. child.rc = 1
    BY <1>1, <1>4, CodeTells
  <2>2. CASE req.engine = "jest"
    <3>1. child.success = FALSE
      BY <1>1, <2>2 DEF EndedInv, Successes
    <3> QED
      BY <1>3, <2>2, <3>1 DEF Verdict, JestVerdict
  <2>3. CASE req.engine # "jest"
    BY <1>3, <1>4, <2>1, <2>3 DEF Verdict, CodedVerdict
  <2> QED
    BY <2>2, <2>3
<1>6. req.engine \in {"cargo-test", "junit"} /\ child.built
  BY <1>1, <1>5, CodeTells DEF EndedInv, IgnoresFailures
<1>7. t \in child.lost
  <2> SUFFICES ASSUME t \notin child.lost PROVE FALSE
    OBVIOUS
  <2>1. native.results = ResultsOf(child, n)
    BY <1>1, <1>2, <1>6 DEF EndedInv, Taken
  <2>2. FailLike(Record(native).results)
    BY <1>2, <1>6, <2>1, FailureIsRecorded
  <2> QED
    BY <1>3, <1>6, <2>2 DEF Verdict, CodedVerdict
<1> QED
  BY <1>2, <1>5, <1>7

LEMMA FinishKeepsOrigin ==
  ASSUME EngineInv, pc = "ended", NEW native, native.kind = "none", native.results = Taken,
         Record(native).status = "passed"
  PROVE  \/ Record(native).from = {n}
         \/ "zero-tests-collected" \in Record(native).warnings
         \/ child.upToDate /\ \E m : Record(native).from = {m}
PROOF
<1>1. EndedInv /\ req.engine \in Engines
  BY DEF EngineInv
<1>2. native.results \in {ResultsOf(child, n), NoReports}
      \/ (child.upToDate /\ native.results = disk["gradle"].reports)
  <2>1. CASE req.engine = "junit"
    <3>1. child.rc = 0 \/ FailLike(Record(native).results)
      BY <2>1, RecordSays DEF Verdict, CodedVerdict
    <3>2. ~FailLike(Record(native).results)
      BY <2>1, RecordSays DEF Verdict, CodedVerdict
    <3>3. child.built
      BY <1>1, <2>1, <3>1, <3>2 DEF EndedInv, ExitCodes
    <3> QED
      BY <1>1, <2>1, <3>3 DEF EndedInv, Taken
  <2>2. CASE req.engine # "junit"
    BY <2>2 DEF Taken
  <2> QED
    BY <2>1, <2>2
<1>3. CASE DOMAIN native.results = {}
  BY <1>3, RecordSays
<1>5. CASE DOMAIN native.results # {} /\ child.upToDate /\ native.results = disk["gradle"].reports
  <2>1. PICK o \in DOMAIN native.results : TRUE
    BY <1>5
  <2>2. \A t \in DOMAIN native.results : native.results[t].by = native.results[o].by
    BY <1>5 DEF EngineInv, OneRun
  <2>3. {native.results[t].by : t \in DOMAIN native.results} = {native.results[o].by}
    BY <2>1, <2>2
  <2> QED
    BY <1>5, <2>3, RecordSays
<1>4. CASE DOMAIN native.results # {} /\ native.results \in {ResultsOf(child, n), NoReports}
  <2>1. native.results = ResultsOf(child, n)
    BY <1>4 DEF NoReports
  <2>2. \A t \in DOMAIN native.results : native.results[t].by = n
    <3>1. \A t \in DOMAIN ResultsOf(child, n) : ResultsOf(child, n)[t].by = n
      BY DEF ResultsOf
    <3> QED
      BY <2>1, <3>1
  <2>3. {native.results[t].by : t \in DOMAIN native.results} = {n}
    BY <1>4, <2>2
  <2> QED
    BY <2>3, RecordSays
<1> QED
  BY <1>2, <1>3, <1>4, <1>5

LEMMA FinishKeeps == EngineInv /\ Finish => EngineInv'
PROOF
<1> SUFFICES ASSUME EngineInv, Finish PROVE EngineInv'
  OBVIOUS
<1> DEFINE native == Collect(req, host, child, disk, n)
<1>1. /\ pc = "ended" /\ pc' = "idle" /\ UNCHANGED <<host, pin, req, n, disk, child>>
      /\ answer' = IF native.kind = "none" THEN Record(native) ELSE [kind |-> native.kind]
  BY DEF Finish
<1>2. native.kind # "record" /\ (native.kind = "none" => native.results = Taken)
  BY <1>1, CollectedIsTaken DEF EngineInv, Complaints
<1> HIDE DEF native
<1>3. FailingSuiteNeverPasses' /\ PassedIsOfOneRun'
  <2>1. CASE native.kind = "none"
    <3>1. Record(native).status = "passed" /\ Failing(child.ran) =>
            child.blind /\ \E t \in child.lost : child.ran[t] \in {"failed", "errored"}
      BY <1>1, <1>2, <2>1, FinishKeepsVerdicts
    <3>2. Record(native).status = "passed" =>
            \/ Record(native).from = {n}
            \/ "zero-tests-collected" \in Record(native).warnings
            \/ child.upToDate /\ \E m : Record(native).from = {m}
      BY <1>1, <1>2, <2>1, FinishKeepsOrigin
    <3> QED
      BY <1>1, <2>1, <3>1, <3>2 DEF FailingSuiteNeverPasses, PassedIsOfOneRun, Recorded
  <2>2. CASE native.kind # "none"
    BY <1>1, <1>2, <2>2 DEF FailingSuiteNeverPasses, PassedIsOfOneRun, Recorded
  <2> QED
    BY <2>1, <2>2
<1> QED
  BY <1>1, <1>3 DEF EngineInv, IsDisk, OneRun

LEMMA EngineInit == Init => EngineInv
PROOF
<1> SUFFICES ASSUME Init PROVE EngineInv
  OBVIOUS
<1>1. IsDisk(CleanDisk) /\ OneRun(CleanDisk)
  BY DEF IsDisk, OneRun, CleanDisk, NoReports
<1> QED
  BY <1>1, EnginesAssumption DEF Init, EngineInv, NoAnswer, FailingSuiteNeverPasses, PassedIsOfOneRun, Recorded

LEMMA EngineStep == EngineInv /\ [Next]_vars => EngineInv'
PROOF
<1> SUFFICES ASSUME EngineInv, [Next]_vars PROVE EngineInv'
  OBVIOUS
<1>1. CASE UNCHANGED vars
  BY <1>1 DEF vars, EngineInv, EndedInv, IsDisk, FailingSuiteNeverPasses, PassedIsOfOneRun, Recorded
<1>2. CASE Done
  BY <1>2 DEF Done, vars, EngineInv, EndedInv, IsDisk, FailingSuiteNeverPasses, PassedIsOfOneRun, Recorded
<1> QED
  BY <1>1, <1>2, AskKeeps, GateKeeps, LaunchKeeps, FinishKeeps, DriftKeeps DEF Next

\* A suite with a failing test never passes, but where an engine ignores
\* failures and its report lost one: for all engines, machines and tools.
THEOREM FailingSuiteNeverPassesHolds == Spec => []FailingSuiteNeverPasses
PROOF
<1>1. EngineInv => FailingSuiteNeverPasses
  BY DEF EngineInv
<1> QED
  BY <1>1, EngineInit, EngineStep, PTL DEF Spec

(***************************************************************************)
(* Types                                                                   *)
(***************************************************************************)

\* Reports are of known tests, and they and the coverage files are of runs
\* made so far.
DiskTyped(d, k) ==
  \A b \in DOMAIN d :
    /\ DOMAIN d[b].reports \subseteq Tests /\ d[b].jacoco \in 0..k
    /\ \A t \in DOMAIN d[b].reports : d[b].reports[t].by \in 1..k

\* What EngineTypeOK rests on: whose reports the disk holds, that a run is
\* about known tests, and that junit was run by a build tool.
TypesInv ==
  /\ EngineTypeOK
  /\ DiskTyped(disk, n)
  /\ pc # "idle" => n > 0 /\ req.names \subseteq Tests
  /\ pc = "ended" /\ req.engine = "junit" => BuildTool(host) \in {"maven", "gradle"}
  /\ DOMAIN child.ran \subseteq Tests

LEMMA ResultsAreTyped ==
  ASSUME NEW c, DOMAIN c.ran \subseteq Tests, NEW k
  PROVE  /\ DOMAIN ResultsOf(c, k) \subseteq Tests
         /\ \A t \in DOMAIN ResultsOf(c, k) : ResultsOf(c, k)[t].by = k
BY DEF ResultsOf, Seen

\* A later run keeps what the disk has.
LEMMA DiskStaysTyped ==
  ASSUME NEW d, NEW k \in Nat, DiskTyped(d, k)
  PROVE  DiskTyped(d, k + 1)
BY DEF DiskTyped

LEMMA CleanedIsTyped ==
  ASSUME IsDisk(disk), DiskTyped(disk, n)
  PROVE  DiskTyped(BeforeRun(req, host, disk), n)
PROOF
<1>1. CASE req.engine = "junit" /\ BuildTool(host) = "maven"
  <2> DEFINE d == BeforeRun(req, host, disk)
             entry == [dir |-> FALSE, reports |-> NoReports, jacoco |-> disk["maven"].jacoco, tested |-> {}]
  <2>1. d = [b \in {"maven", "gradle"} |-> IF b = "maven" THEN entry ELSE disk[b]]
    BY <1>1 DEF BeforeRun, IsDisk
  <2>2. DOMAIN disk = {"maven", "gradle"}
    BY DEF IsDisk
  <2>3. entry.jacoco = disk["maven"].jacoco /\ DOMAIN entry.reports = {}
    BY DEF NoReports
  <2> HIDE DEF d, entry
  <2> QED
    BY <2>1, <2>2, <2>3 DEF DiskTyped, d
<1>2. CASE ~(req.engine = "junit" /\ BuildTool(host) = "maven")
  BY <1>2 DEF BeforeRun
<1> QED
  BY <1>1, <1>2

\* The build tool adds what this run says, and leaves the other's outputs.
LEMMA LeftIsTyped ==
  ASSUME NEW d, IsDisk(d), DiskTyped(d, n), n \in Nat \ {0}, NEW c, DOMAIN c.ran \subseteq Tests,
         req.engine = "junit" => BuildTool(host) \in {"maven", "gradle"},
         BuildTool(host) = "maven" /\ req.engine = "junit" => d["maven"].reports = NoReports
  PROVE  DiskTyped(AfterRun(req, host, d, c, n), n)
PROOF
<1> DEFINE b == BuildTool(host)
           after == AfterRun(req, host, d, c, n)
<1>1. CASE req.engine # "junit" \/ ~c.built
  BY <1>1 DEF AfterRun
<1>2. CASE req.engine = "junit" /\ c.built
  <2>1. b \in {"maven", "gradle"} /\ DOMAIN d = {"maven", "gradle"}
    BY <1>2 DEF IsDisk
  <2>2. /\ IsDisk(after) /\ after[b].reports \in {ResultsOf(c, n), d[b].reports}
        /\ \A o \in {"maven", "gradle"} \ {b} : after[o] = d[o]
        /\ after[b].jacoco \in {n, d[b].jacoco}
    BY <1>2, <2>1, ReportsAreOfThisRun
  <2>3. \A o \in {"maven", "gradle"} \ {b} : after[o] = d[o]
    BY <2>2
  <2>4. after[b].jacoco \in {n, d[b].jacoco}
    BY <2>2
  <2>5. DOMAIN after = {"maven", "gradle"}
    BY <2>2 DEF IsDisk
  <2>6. DOMAIN ResultsOf(c, n) \subseteq Tests /\ \A t \in DOMAIN ResultsOf(c, n) : ResultsOf(c, n)[t].by = n
    BY ResultsAreTyped
  <2> HIDE DEF b, after
  <2>7. after[b].jacoco \in 0..n /\ DOMAIN d[b].reports \subseteq Tests
        /\ \A t \in DOMAIN d[b].reports : d[b].reports[t].by \in 1..n
    BY <2>1, <2>4 DEF DiskTyped
  <2>8. \A o \in DOMAIN after : o = b \/ (o # b /\ o \in DOMAIN d /\ after[o] = d[o])
    BY <2>1, <2>3, <2>5
  <2>9. DOMAIN after[b].reports \subseteq Tests
        /\ \A t \in DOMAIN after[b].reports : after[b].reports[t].by \in 1..n
    BY <2>2, <2>6, <2>7
  <2> QED
    BY <2>7, <2>8, <2>9 DEF DiskTyped, after
<1> QED
  BY <1>1, <1>2

LEMMA VerdictIsKnown ==
  \A e, results, c : Verdict(e, results, c) \in {"passed", "failed", "errored"}
BY DEF Verdict, PytestVerdict, JestVerdict, CodedVerdict

LEMMA TypesInit == Init => TypesInv
PROOF
<1> SUFFICES ASSUME Init PROVE TypesInv
  OBVIOUS
<1>1. n = 0 /\ 0 \in 0..MaxRuns
  BY MaxRunsAssumption DEF Init
<1>2. DiskTyped(disk, n)
  BY DEF Init, CleanDisk, NoReports, DiskTyped
<1>3. DOMAIN child.ran = {}
  BY DEF Init, NoChild
<1>4. req.engine = "none" /\ answer.kind = "nothing" /\ pc = "idle"
  BY DEF Init, NoReq, NoAnswer
<1>5. pin \in Engines \cup {"none"}
  BY EnginesAssumption DEF Init
<1> QED
  BY <1>1, <1>2, <1>3, <1>4, <1>5 DEF TypesInv, EngineTypeOK, DiskTyped, Recorded, ErrorKinds

\* A step that answers with an error of a known kind, or as before, and keeps
\* the number of the run and the request.
LEMMA AnswerKeepsTypes ==
  ASSUME TypesInv, UNCHANGED <<n, req>>, pc # "idle", pc' \in {"idle", "asked", "ready", "ended"},
         pin' \in Engines \cup {"none"}, DiskTyped(disk', n), DOMAIN child'.ran \subseteq Tests,
         pc' = "ended" /\ req.engine = "junit" => BuildTool(host') \in {"maven", "gradle"},
         answer'.kind \in ErrorKinds \/ UNCHANGED answer
  PROVE  TypesInv'
PROOF
<1>1. (Recorded => answer.status \in {"passed", "failed", "errored"}
                   /\ DOMAIN answer.results \subseteq Tests /\ answer.from \subseteq 1..n)'
      /\ (~Recorded => answer.kind \in ErrorKinds)'
  <2>1. CASE UNCHANGED answer
    BY <2>1 DEF TypesInv, EngineTypeOK, Recorded
  <2>2. CASE answer'.kind \in ErrorKinds
    BY <2>2 DEF Recorded, ErrorKinds
  <2> QED
    BY <2>1, <2>2
<1> QED
  BY <1>1 DEF TypesInv, EngineTypeOK, DiskTyped

LEMMA AskKeepsTypes ==
  ASSUME EngineInv, TypesInv, NEW r \in Requests, Ask(r)
  PROVE  TypesInv'
PROOF
<1> DEFINE resolved == Resolve(r.override, pin, host)
<1>1. /\ resolved.engine \in Engines \cup {"none"}
      /\ resolved.engine = "none" => resolved.how \in {"undetected", "ambiguous"}
  BY ResolvedIsKnown, EnginesAssumption DEF EngineInv
<1> HIDE DEF resolved
<1>2. /\ n \in 0..MaxRuns /\ n < MaxRuns /\ n' = n + 1 /\ UNCHANGED disk
      /\ pc' \in {"idle", "asked"} /\ child' = NoChild
  BY DEF Ask, Refuse, TypesInv, EngineTypeOK
<1>3. n \in Nat /\ n' \in 0..MaxRuns /\ n' > 0
  BY <1>2, MaxRunsAssumption
<1>4. DiskTyped(disk, n)'
  BY <1>2, <1>3, DiskStaysTyped DEF TypesInv, DiskTyped
<1>5. answer'.kind \in {"undetected", "ambiguous", "nothing"}
  BY <1>1 DEF Ask, Refuse, NoAnswer, resolved
<1>6. /\ pin' \in Engines \cup {"none"} /\ req'.engine \in Engines \cup {"none"}
      /\ pc' = "asked" => req'.names = r.names
  BY <1>1 DEF Ask, Refuse, TypesInv, EngineTypeOK, resolved
<1>7. r.names \subseteq Tests
  BY EnginesAssumption
<1>8. DOMAIN child'.ran = {}
  BY <1>2 DEF NoChild
<1> QED
  BY <1>2, <1>3, <1>4, <1>5, <1>6, <1>7, <1>8 DEF TypesInv, EngineTypeOK, DiskTyped, Recorded, ErrorKinds

LEMMA GateKeepsTypes == TypesInv /\ Gate => TypesInv'
PROOF
<1> SUFFICES ASSUME TypesInv, Gate PROVE TypesInv'
  OBVIOUS
<1>1. /\ UNCHANGED <<n, req, pin, disk, child>> /\ pc # "idle" /\ pc' \in {"idle", "ready"}
      /\ answer'.kind = "engine-not-ready" \/ UNCHANGED answer
  BY DEF Gate, Refuse
<1> QED
  BY <1>1, AnswerKeepsTypes DEF TypesInv, EngineTypeOK, ErrorKinds

LEMMA LaunchKeepsTypes == EngineInv /\ TypesInv /\ Launch => TypesInv'
PROOF
<1> SUFFICES ASSUME EngineInv, TypesInv, Launch PROVE TypesInv'
  OBVIOUS
<1> DEFINE kind == Preflight(req, host)
           cleaned == BeforeRun(req, host, disk)
<1>1. /\ pc = "ready" /\ req.engine \in Engines /\ IsDisk(disk) /\ DiskTyped(disk, n)
      /\ UNCHANGED <<host, pin, req, n>> /\ pin \in Engines \cup {"none"}
      /\ n \in Nat \ {0} /\ req.names \subseteq Tests /\ DOMAIN child.ran \subseteq Tests
  BY MaxRunsAssumption DEF Launch, EngineInv, TypesInv, EngineTypeOK
<1>2. /\ IsDisk(cleaned) /\ DiskTyped(cleaned, n)
      /\ req.engine = "junit" /\ BuildTool(host) = "maven" => cleaned["maven"].reports = NoReports
  BY <1>1, CleanedIsDisk, CleanedIsTyped
<1>3. CASE kind # "none"
  <2>1. kind \in ErrorKinds
    BY <1>1, <1>3, PreflightRefuses DEF ErrorKinds
  <2>2. Refuse(kind) /\ UNCHANGED <<disk, child>>
    BY <1>3 DEF Launch
  <2> QED
    BY <1>1, <2>1, <2>2, AnswerKeepsTypes DEF Refuse
<1>4. ASSUME NEW early \in BOOLEAN, Refuse(Vanished(req, host, early)), disk' \in {disk, cleaned}, UNCHANGED child
      PROVE  TypesInv'
  <2>1. pc' = "idle" /\ answer'.kind \in ErrorKinds
    BY <1>4 DEF Refuse, Vanished, ErrorKinds
  <2> QED
    BY <1>1, <1>2, <1>4, <2>1, AnswerKeepsTypes
<1>5. ASSUME kind = "none", Spawn, disk' = AfterRun(req, host, cleaned, child', n), pc' = "ended", UNCHANGED answer
      PROVE  TypesInv'
  <2>1. DOMAIN child'.ran \subseteq Tests
    <3>1. DOMAIN child'.ran \subseteq Asked(req, host)
      BY <1>5 DEF Spawn
    <3> QED
      BY <1>1, <3>1 DEF Asked
  <2>2. req.engine = "junit" => BuildTool(host) \in {"maven", "gradle"}
    BY <1>1, <1>5, PreflightRefuses
  <2>3. DiskTyped(disk', n)
    <3> HIDE DEF cleaned
    <3> QED
      BY <1>1, <1>2, <1>5, <2>1, <2>2, LeftIsTyped
  <2> QED
    BY <1>1, <1>5, <2>1, <2>2, <2>3, AnswerKeepsTypes
<1> QED
  BY <1>3, <1>4, <1>5 DEF Launch

LEMMA TakenIsTyped ==
  ASSUME EngineInv, TypesInv, pc = "ended"
  PROVE  DOMAIN Taken \subseteq Tests /\ \A t \in DOMAIN Taken : Taken[t].by \in 1..n
PROOF
<1>1. n \in 1..n /\ DOMAIN child.ran \subseteq Tests /\ DiskTyped(disk, n)
  BY MaxRunsAssumption DEF TypesInv, EngineTypeOK
<1>2. /\ DOMAIN ResultsOf(child, n) \subseteq Tests
      /\ \A t \in DOMAIN ResultsOf(child, n) : ResultsOf(child, n)[t].by \in 1..n
  BY <1>1, ResultsAreTyped
<1>3. DOMAIN NoReports = {}
  BY DEF NoReports
<1>4. CASE req.engine = "junit"
  <2>1. BuildTool(host) \in DOMAIN disk
    BY <1>4 DEF TypesInv, EngineInv, IsDisk
  <2> QED
    BY <1>1, <1>3, <1>4, <2>1 DEF Taken, DiskTyped
<1>5. CASE req.engine # "junit"
  BY <1>2, <1>3, <1>5 DEF Taken
<1> QED
  BY <1>4, <1>5

LEMMA FinishKeepsTypes == EngineInv /\ TypesInv /\ Finish => TypesInv'
PROOF
<1> SUFFICES ASSUME EngineInv, TypesInv, Finish PROVE TypesInv'
  OBVIOUS
<1> DEFINE native == Collect(req, host, child, disk, n)
<1>1. /\ pc = "ended" /\ pc' = "idle" /\ UNCHANGED <<host, pin, req, n, disk, child>>
      /\ answer' = IF native.kind = "none" THEN Record(native) ELSE [kind |-> native.kind]
  BY DEF Finish
<1>2. native.kind \in Complaints \cup {"none", "timed-out"} /\ (native.kind = "none" => native.results = Taken)
  BY <1>1, CollectedIsTaken DEF EngineInv
<1> HIDE DEF native
<1>3. CASE native.kind # "none"
  <2>1. answer'.kind \in ErrorKinds
    BY <1>1, <1>2, <1>3 DEF Complaints, ErrorKinds
  <2> QED
    BY <1>1, <2>1, AnswerKeepsTypes DEF TypesInv, EngineTypeOK
<1>4. CASE native.kind = "none"
  <2>1. answer' = Record(native) /\ native.results = Taken
    BY <1>1, <1>2, <1>4
  <2>2. /\ answer'.kind = "record" /\ answer'.status \in {"passed", "failed", "errored"}
        /\ DOMAIN answer'.results = DOMAIN Taken /\ answer'.from = {Taken[t].by : t \in DOMAIN Taken}
    BY <2>1, RecordSays, VerdictIsKnown
  <2>3. DOMAIN answer'.results \subseteq Tests /\ answer'.from \subseteq 1..n
    BY <1>1, <2>2, TakenIsTyped
  <2> QED
    BY <1>1, <2>2, <2>3 DEF TypesInv, EngineTypeOK, DiskTyped, Recorded
<1> QED
  BY <1>3, <1>4

LEMMA TypesStep == EngineInv /\ TypesInv /\ [Next]_vars => TypesInv'
PROOF
<1> SUFFICES ASSUME EngineInv, TypesInv, [Next]_vars PROVE TypesInv'
  OBVIOUS
<1>1. CASE UNCHANGED vars \/ Done
  BY <1>1 DEF Done, vars, TypesInv, EngineTypeOK, DiskTyped, Recorded
<1>2. CASE Drift
  BY <1>2 DEF Drift, TypesInv, EngineTypeOK, DiskTyped, Recorded
<1> QED
  BY <1>1, <1>2, AskKeepsTypes, GateKeepsTypes, LaunchKeepsTypes, FinishKeepsTypes DEF Next

\* Every step of a run keeps its types: an answer is an error of a known kind
\* or a record of a verdict over tests of the workspace, with results of runs
\* made so far, whichever engine and whatever the tool left behind.
THEOREM EngineTypeOKHolds == Spec => []EngineTypeOK
PROOF
<1>1. TypesInv => EngineTypeOK
  BY DEF TypesInv
<1>2. Init => EngineInv /\ TypesInv
  BY EngineInit, TypesInit
<1>3. EngineInv /\ TypesInv /\ [Next]_vars => (EngineInv /\ TypesInv)'
  BY EngineStep, TypesStep
<1> QED
  BY <1>1, <1>2, <1>3, PTL DEF Spec

\* A run that passed has results of its own or says that it has none, whatever
\* earlier runs left in the workspace; or Gradle found its test task up to date
\* and ran nothing, and the results are those one run left.
THEOREM PassedMeansRunHolds == Spec => []PassedMeansRun
PROOF
<1>1. EngineInv /\ TypesInv => PassedMeansRun
  <2>1. TypesInv => (Recorded => answer.from \subseteq 1..n)
    BY DEF TypesInv, EngineTypeOK
  <2>2. \A m : answer.from = {m} /\ answer.from \subseteq 1..n => m \in 1..n
    OBVIOUS
  <2> QED
    BY <2>1, <2>2 DEF EngineInv, PassedIsOfOneRun, PassedMeansRun
<1>2. Init => EngineInv /\ TypesInv
  BY EngineInit, TypesInit
<1>3. EngineInv /\ TypesInv /\ [Next]_vars => (EngineInv /\ TypesInv)'
  BY EngineStep, TypesStep
<1> QED
  BY <1>1, <1>2, <1>3, PTL DEF Spec

(***************************************************************************)
(* Ready and runnable                                                      *)
(***************************************************************************)

\* The kind a list of gates answers with is that of a gate that is not passed.
LEMMA KindTells ==
  ASSUME NEW G, NEW gates \in Seq(G), \A g \in G : g[2] # "none", FirstKind(gates) # "none"
  PROVE  \E g \in G : ~g[1] /\ FirstKind(gates) = g[2]
PROOF
<1>1. \A i \in DOMAIN gates : gates[i] \in G
  OBVIOUS
<1> QED
  BY <1>1, FirstKindIsOfAGate

\* A probe whose gates are not all passed does not say ready.
LEMMA ReadyPassesGates ==
  ASSUME NEW G, NEW gates \in Seq(G), \A g \in G : g[2] # "ready", FirstOf(gates).state = "ready",
         NEW i \in DOMAIN gates
  PROVE  gates[i][1]
PROOF
<1> DEFINE shut == {j \in 1..Len(gates) : ~gates[j][1]}
<1>1. Len(gates) \in Nat /\ DOMAIN gates = 1..Len(gates)
  OBVIOUS
<1>2. SelectInSeq(gates, LAMBDA g : ~g[1]) = IF shut # {} THEN Min(shut) ELSE 0
  BY DEF SelectInSeq
<1>3. SUFFICES ASSUME shut # {} PROVE FALSE
  BY <1>1
<1>4. Min(shut) \in shut
  <2>1. shut \in SUBSET Nat
    BY <1>1
  <2> HIDE DEF shut
  <2> QED
    BY <1>3, <2>1, LeastIsIn
<1>5. FirstOf(gates).state = gates[Min(shut)][2]
  BY <1>1, <1>2, <1>3, <1>4 DEF FirstOf
<1>6. gates[Min(shut)] \in G
  <2>1. Min(shut) \in 1..Len(gates)
    BY <1>4
  <2>2. \A j \in 1..Len(gates) : gates[j] \in G
    BY <1>1
  <2> HIDE DEF shut
  <2> QED
    BY <2>1, <2>2
<1> QED
  BY <1>5, <1>6

\* What a probe that says ready has seen.
LEMMA JestIsInstalled ==
  ASSUME NEW h, JestProbe(h).state = "ready"
  PROVE  "npx" \in h.tools /\ "node_modules/.bin/jest" \in h.marks
PROOF
<1> DEFINE installed == "node_modules/.bin/jest" \in h.marks
           a == <<{"node", "npx"} \subseteq h.tools, "engine-missing", "node">>
           b == <<installed \/ "package.json[jest]" \in h.marks, "engine-misconfigured", "undeclared">>
           c == <<installed, "engine-misconfigured", "not-installed">>
           all == {a, b, c}
           gates == <<a, b, c>>
<1>1. JestProbe(h) = FirstOf(gates)
  BY DEF JestProbe
<1>2. \A g \in all : g[2] # "ready"
  OBVIOUS
<1>3. (a[1] => "npx" \in h.tools) /\ (c[1] => installed)
  OBVIOUS
<1> HIDE DEF a, b, c
<1>4. gates \in Seq(all) /\ DOMAIN gates = 1..3 /\ gates[1] = a /\ gates[3] = c
  OBVIOUS
<1> HIDE DEF all, gates
<1> QED
  BY <1>1, <1>2, <1>3, <1>4, ReadyPassesGates

LEMMA GoIsThere ==
  ASSUME NEW h, GotestProbe(h).state = "ready"
  PROVE  "go" \in h.tools
PROOF
<1> DEFINE a == <<"go" \in h.tools, "engine-missing", "go">>
           b == <<"go.mod" \in h.marks, "engine-misconfigured", "marker-gone">>
           c == <<Runs(h, "go"), "engine-misconfigured", "go-broken">>
           all == {a, b, c}
           gates == <<a, b, c>>
<1>1. GotestProbe(h) = FirstOf(gates)
  BY DEF GotestProbe
<1>2. \A g \in all : g[2] # "ready"
  OBVIOUS
<1>3. a[1] => "go" \in h.tools
  OBVIOUS
<1> HIDE DEF a, b, c
<1>4. gates \in Seq(all) /\ DOMAIN gates = 1..3 /\ gates[1] = a
  OBVIOUS
<1> HIDE DEF all, gates
<1> QED
  BY <1>1, <1>2, <1>3, <1>4, ReadyPassesGates

LEMMA CargoIsThere ==
  ASSUME NEW h, CargoProbe(h).state = "ready"
  PROVE  "cargo" \in h.tools
PROOF
<1> DEFINE a == <<"cargo" \in h.tools, "engine-missing", "cargo">>
           b == <<"Cargo.toml" \in h.marks, "engine-misconfigured", "marker-gone">>
           c == <<Runs(h, "nextest"), "engine-misconfigured", "nextest">>
           d == <<Runs(h, "cargo"), "engine-misconfigured", "cargo-broken">>
           all == {a, b, c, d}
           gates == <<a, b, c, d>>
<1>1. CargoProbe(h) = FirstOf(gates)
  BY DEF CargoProbe
<1>2. \A g \in all : g[2] # "ready"
  OBVIOUS
<1>3. a[1] => "cargo" \in h.tools
  OBVIOUS
<1> HIDE DEF a, b, c, d
<1>4. gates \in Seq(all) /\ DOMAIN gates = 1..4 /\ gates[1] = a
  OBVIOUS
<1> HIDE DEF all, gates
<1> QED
  BY <1>1, <1>2, <1>3, <1>4, ReadyPassesGates

LEMMA BuildToolIsThere ==
  ASSUME NEW h, JunitProbe(h).state = "ready"
  PROVE  /\ BuildTool(h) # "none"
         /\ BuildTool(h) = "maven" => "mvn" \in h.tools
         /\ BuildTool(h) = "gradle" => "gradle" \in h.tools \/ "gradlew" \in h.marks
PROOF
<1> DEFINE bad == "engine-misconfigured"
           maven == BuildTool(h) = "maven" => "mvn" \in h.tools
           gradle == BuildTool(h) = "gradle" => "gradle" \in h.tools \/ "gradlew" \in h.marks
           a1 == <<"windows" \notin h.marks, bad, "os">>
           a2 == <<BuildTool(h) # "none", bad, "marker-gone">>
           a3 == <<"java" \in h.tools, bad, "java">>
           a4 == <<maven, bad, "mvn">>
           a5 == <<gradle, bad, "gradle">>
           a6 == <<"junit4" \notin h.marks, bad, "junit4">>
           a7 == <<"testng" \notin h.marks, bad, "testng">>
           a8 == <<"jupiter" \in h.marks, bad, "no-jupiter">>
           all == {a1, a2, a3, a4, a5, a6, a7, a8}
           gates == <<a1, a2, a3, a4, a5, a6, a7, a8>>
<1>1. JunitProbe(h) = FirstOf(gates)
  BY DEF JunitProbe
<1>2. \A g \in all : g[2] # "ready"
  OBVIOUS
<1>3. (a2[1] => BuildTool(h) # "none") /\ (a4[1] => maven) /\ (a5[1] => gradle)
  OBVIOUS
<1> HIDE DEF a1, a2, a3, a4, a5, a6, a7, a8
<1>4. gates \in Seq(all) /\ DOMAIN gates = 1..8 /\ gates[2] = a2 /\ gates[4] = a4 /\ gates[5] = a5
  OBVIOUS
<1> HIDE DEF all, gates
<1>5. a2[1] /\ a4[1] /\ a5[1]
  BY <1>1, <1>2, <1>4, ReadyPassesGates
<1> QED
  BY <1>3, <1>5

LEMMA DotnetIsThere ==
  ASSUME NEW h, XunitProbe(h).state = "ready"
  PROVE  "dotnet" \in h.tools /\ h.projects # <<>>
PROOF
<1> DEFINE refs == IF h.projects = <<>> THEN {} ELSE TestProject(h.projects).refs
           a == <<"dotnet" \in h.tools, "engine-missing", "dotnet">>
           b == <<h.projects # <<>>, "engine-misconfigured", "no-csproj">>
           issue == IF "mstest" \in refs THEN "mstest"
                    ELSE IF "nunit" \in refs THEN "nunit" ELSE "no-xunit"
           c == <<XunitMajor(refs) # 0, "engine-misconfigured", issue>>
           all == {a, b, c}
           gates == <<a, b, c>>
<1>1. XunitProbe(h) = FirstOf(gates)
  BY DEF XunitProbe
<1>2. \A g \in all : g[2] # "ready"
  <2> HIDE DEF refs, issue
  <2> QED
    OBVIOUS
<1>3. (a[1] => "dotnet" \in h.tools) /\ (b[1] => h.projects # <<>>)
  OBVIOUS
<1> HIDE DEF a, b, c
<1>4. gates \in Seq(all) /\ DOMAIN gates = 1..3 /\ gates[1] = a /\ gates[2] = b
  OBVIOUS
<1> HIDE DEF all, gates
<1>5. a[1] /\ b[1]
  BY <1>1, <1>2, <1>4, ReadyPassesGates
<1> QED
  BY <1>3, <1>5

\* The answers that say a tool is not there.
NotThere == {"missing-binary", "missing-engine", "missing-plugin", "FileNotFoundError",
             "build-tool-undetermined", "project-not-found"}

\* What no probe looks at.
Unprobed(r, h) ==
  \/ r.engine = "pytest" /\ r.coverage /\ <<Interpreter(h), "pytest-cov">> \notin h.imports
  \/ r.engine = "junit" /\ "gradlew" \in h.marks /\ "gradlew +x" \notin h.marks

\* A build tool is Maven, Gradle or none.
LEMMA BuildTools == \A h : BuildTool(h) \in {"maven", "gradle", "none"}
  BY DEF BuildTool

\* The launcher of an engine that is ready is found, the wrapper apart.
LEMMA ReadyIsLaunched ==
  ASSUME NEW r, NEW h, r.engine \in Engines, Ready(r.engine, h), ~Unprobed(r, h)
  PROVE  /\ LauncherFound(r.engine, h)
         /\ r.engine = "junit" => BuildTool(h) # "none"
         /\ r.engine = "xunit" => h.projects # <<>>
PROOF
<1>1. CASE r.engine = "pytest"
  BY <1>1 DEF LauncherFound
<1>2. CASE r.engine = "jest"
  BY <1>2, JestIsInstalled DEF LauncherFound, Ready, Probe
<1>3. CASE r.engine = "go-test"
  BY <1>3, GoIsThere DEF LauncherFound, Ready, Probe
<1>4. CASE r.engine = "cargo-test"
  BY <1>4, CargoIsThere DEF LauncherFound, Ready, Probe
<1>5. CASE r.engine = "junit"
  <2>1. /\ BuildTool(h) # "none"
        /\ BuildTool(h) = "maven" => "mvn" \in h.tools
        /\ BuildTool(h) = "gradle" => "gradle" \in h.tools \/ "gradlew" \in h.marks
    BY <1>5, BuildToolIsThere DEF Ready, Probe
  <2> QED
    BY <1>5, <2>1, BuildTools DEF LauncherFound, Unprobed
<1>6. CASE r.engine = "xunit"
  BY <1>6, DotnetIsThere DEF LauncherFound, Ready, Probe
<1> QED
  BY <1>1, <1>2, <1>3, <1>4, <1>5, <1>6 DEF Engines

\* An adapter whose engine is ready does not miss what it launches.
LEMMA ReadyPassesPreflight ==
  ASSUME NEW r, NEW h, r.engine \in Engines, Ready(r.engine, h), ~Unprobed(r, h)
  PROVE  Preflight(r, h) \notin NotThere
PROOF
<1> DEFINE target == <<~Misread(r.engine, r.shape), "invalid-target">>
           launcher == <<LauncherFound(r.engine, h), "missing-binary">>
           tool == <<BuildTool(h) # "none", "build-tool-undetermined">>
           project == <<h.projects # <<>>, "project-not-found">>
<1>1. /\ r.engine \in {"pytest", "jest"} => Preflight(r, h) = FirstKind(<<target, launcher>>)
      /\ r.engine \in {"go-test", "cargo-test"} => Preflight(r, h) = FirstKind(<<launcher, target>>)
      /\ r.engine = "junit" => Preflight(r, h) = FirstKind(<<target, tool, launcher>>)
      /\ r.engine = "xunit" => Preflight(r, h) = FirstKind(<<launcher, project>>)
  BY DEF Preflight
<1>2. /\ launcher[1] /\ target[2] \notin NotThere
      /\ r.engine = "junit" => tool[1]
      /\ r.engine = "xunit" => project[1]
  BY ReadyIsLaunched DEF NotThere
<1>3. \A g \in {target, launcher, tool, project} : g[2] # "none"
  OBVIOUS
<1>4. "none" \notin NotThere
  BY DEF NotThere
<1> HIDE DEF target, launcher, tool, project
<1>5. ASSUME NEW G \in SUBSET {target, launcher, tool, project}, NEW gates \in Seq(G),
             \A g \in G : g[1] \/ g[2] \notin NotThere
      PROVE  FirstKind(gates) \notin NotThere
  BY <1>3, <1>4, <1>5, KindTells
<1>6. CASE r.engine \in {"pytest", "jest", "go-test", "cargo-test"}
  <2> DEFINE G == {target, launcher}
  <2>1. G \in SUBSET {target, launcher, tool, project} /\ \A g \in G : g[1] \/ g[2] \notin NotThere
    BY <1>2
  <2>2. target \in G /\ launcher \in G
    OBVIOUS
  <2> HIDE DEF G
  <2>3. <<target, launcher>> \in Seq(G) /\ <<launcher, target>> \in Seq(G)
    BY <2>2
  <2> QED
    BY <1>1, <1>5, <1>6, <2>1, <2>3
<1>7. CASE r.engine = "junit"
  <2> DEFINE G == {target, tool, launcher}
  <2>1. G \in SUBSET {target, launcher, tool, project} /\ \A g \in G : g[1] \/ g[2] \notin NotThere
    BY <1>2, <1>7
  <2>2. target \in G /\ launcher \in G /\ tool \in G
    OBVIOUS
  <2> HIDE DEF G
  <2>3. <<target, tool, launcher>> \in Seq(G)
    BY <2>2
  <2> QED
    BY <1>1, <1>5, <1>7, <2>1, <2>3
<1>8. CASE r.engine = "xunit"
  <2> DEFINE G == {launcher, project}
  <2>1. G \in SUBSET {target, launcher, tool, project} /\ \A g \in G : g[1] \/ g[2] \notin NotThere
    BY <1>2, <1>8
  <2>2. launcher \in G /\ project \in G
    OBVIOUS
  <2> HIDE DEF G
  <2>3. <<launcher, project>> \in Seq(G)
    BY <2>2
  <2> QED
    BY <1>1, <1>5, <1>8, <2>1, <2>3
<1> QED
  BY <1>6, <1>7, <1>8 DEF Engines

\* Gates that are passed, or refuse for another reason, miss nothing.
LEMMA UnlessMisses ==
  ASSUME NEW G, NEW gates \in Seq(G), \A g \in G : g[2] # "none" /\ (g[1] \/ g[2] \notin NotThere),
         NEW native, native.kind = "none"
  PROVE  Unless(gates, native).kind \notin NotThere
PROOF
<1>1. CASE FirstKind(gates) = "none"
  BY <1>1 DEF Unless, NotThere
<1>2. CASE FirstKind(gates) # "none"
  BY <1>2, KindTells DEF Unless, Refused
<1> QED
  BY <1>1, <1>2

\* A native result is no refusal.
LEMMA NativeIsNone == \A results, cov : Native(results, cov).kind = "none"
  BY DEF Native

\* What is there when the probe says ready is not missed after the run either.
LEMMA ReadyCollects ==
  ASSUME NEW r, NEW h, NEW c, NEW d, NEW k, r.engine \in Engines, Ready(r.engine, h),
         ~Unprobed(r, h),
         r.engine = "pytest" => c.lacks = {m \in {"pytest", "json-report", "pytest-cov"} :
                                             <<Interpreter(h), m>> \notin h.imports},
         r.engine = "jest" => c.lacks = IF "node_modules/.bin/jest" \in h.marks THEN {} ELSE {"jest"}
  PROVE  Collect(r, h, c, d, k).kind \notin NotThere
PROOF
<1>0. CASE c.timedOut
  BY <1>0 DEF Collect, Refused, NotThere
<1> SUFFICES ASSUME ~c.timedOut PROVE Collect(r, h, c, d, k).kind \notin NotThere
  BY <1>0
<1>u. "unparseable-output" \notin NotThere /\ "misconfigured-environment" \notin NotThere
  BY DEF NotThere
<1>1. CASE r.engine = "pytest"
  <2>1. /\ "json-report" \notin c.lacks /\ "pytest" \notin c.lacks
        /\ r.coverage => "pytest-cov" \notin c.lacks
    BY <1>1 DEF Ready, Probe, PytestProbe, Unprobed
  <2> DEFINE there == c.report # "none"
             a == <<there \/ "json-report" \notin c.lacks, "missing-plugin">>
             b == <<there \/ ~r.coverage \/ "pytest-cov" \notin c.lacks, "missing-plugin">>
             e == <<there \/ "pytest" \notin c.lacks, "missing-engine">>
             f == <<c.report = "whole", "unparseable-output">>
             g == <<r.coverage /\ c.rc = 0 => c.cov, "unparseable-output">>
             native == Native(ResultsOf(c, k), OwnCov(r, c, k))
             all == {a, b, e, f, g}
             gates == <<a, b, e, f, g>>
  <2>2. Collect(r, h, c, d, k) = Unless(gates, native)
    BY <1>1 DEF Collect, PytestCollect
  <2>6. a[1] /\ b[1] /\ e[1]
    BY <2>1
  <2>7. /\ a[2] = "missing-plugin" /\ b[2] = "missing-plugin" /\ e[2] = "missing-engine"
        /\ f[2] = "unparseable-output" /\ g[2] = "unparseable-output"
    OBVIOUS
  <2> HIDE DEF a, b, e, f, g, native
  <2>3. \A x \in all : x[2] # "none" /\ (x[1] \/ x[2] \notin NotThere)
    BY <1>u, <2>6, <2>7
  <2>4. gates \in Seq(all)
    BY ShortLists
  <2> HIDE DEF gates, all
  <2>5. native.kind = "none"
    BY NativeIsNone DEF native
  <2> QED
    BY <2>2, <2>3, <2>4, <2>5, UnlessMisses
<1>2. CASE r.engine = "jest"
  <2>1. "jest" \notin c.lacks
    BY <1>2, JestIsInstalled DEF Ready, Probe
  <2> DEFINE a == <<c.report # "none" \/ "jest" \notin c.lacks, "missing-plugin">>
             b == <<c.report = "whole", "unparseable-output">>
             e == <<r.coverage => c.cov, "unparseable-output">>
             native == Native(ResultsOf(c, k), OwnCov(r, c, k))
             all == {a, b, e}
             gates == <<a, b, e>>
  <2>2. Collect(r, h, c, d, k) = Unless(gates, native)
    BY <1>2 DEF Collect, JestCollect
  <2>6. a[1]
    BY <2>1
  <2>7. /\ a[2] = "missing-plugin" /\ b[2] = "unparseable-output"
        /\ e[2] = "unparseable-output"
    OBVIOUS
  <2> HIDE DEF a, b, e, native
  <2>3. \A x \in all : x[2] # "none" /\ (x[1] \/ x[2] \notin NotThere)
    BY <1>u, <2>6, <2>7
  <2>4. gates \in Seq(all)
    BY ShortLists
  <2> HIDE DEF gates, all
  <2>5. native.kind = "none"
    BY NativeIsNone DEF native
  <2> QED
    BY <2>2, <2>3, <2>4, <2>5, UnlessMisses
\* The others complain of their output only.
<1>3. CASE r.engine \in {"go-test", "cargo-test", "junit", "xunit"}
  <2>2. ASSUME NEW native, NEW gates, NEW a, NEW b,
               gates \in {<<a>>, <<a, b>>}, native.kind = "none",
               a[2] \in {"unparseable-output", "misconfigured-environment"},
               b[2] \in {"unparseable-output", "misconfigured-environment"}
        PROVE  Unless(gates, native).kind \notin NotThere
    <3> DEFINE all == {a, b}
    <3>1. \A x \in all : x[2] # "none" /\ x[2] \notin NotThere
      BY <1>u, <2>2
    <3>2. a \in all /\ b \in all
      OBVIOUS
    <3> HIDE DEF all
    <3>3. <<a>> \in Seq(all) /\ <<a, b>> \in Seq(all)
      BY <3>2
    <3> QED
      BY <2>2, <3>1, <3>3, UnlessMisses
  <2>3. \E native, gates, a, b :
          /\ Collect(r, h, c, d, k) = Unless(gates, native)
          /\ gates \in {<<a>>, <<a, b>>} /\ native.kind = "none"
          /\ a[2] \in {"unparseable-output", "misconfigured-environment"}
          /\ b[2] \in {"unparseable-output", "misconfigured-environment"}
    <3> DEFINE bad == "unparseable-output"
               unread == IF "libtest-json" \in c.lacks THEN "misconfigured-environment" ELSE bad
               buildFailed == DOMAIN c.ran = {} /\ c.rc # 0
    <3>1. CASE r.engine = "go-test"
      <4> DEFINE a == <<r.coverage /\ ~buildFailed => c.cov, bad>>
                 native == Native(ResultsOf(c, k), IF buildFailed THEN 0 ELSE OwnCov(r, c, k))
      <4>1. Collect(r, h, c, d, k) = Unless(<<a>>, native)
        BY <3>1 DEF Collect, GotestCollect
      <4>2. a[2] = bad /\ native.kind = "none"
        BY NativeIsNone
      <4> HIDE DEF a, native
      <4> QED
        BY <4>1, <4>2
    <3>2. CASE r.engine = "cargo-test"
      <4> DEFINE a == <<DOMAIN c.ran # {} \/ c.rc = 0, unread>>
                 b == <<r.coverage => c.cov, unread>>
                 native == Native(ResultsOf(c, k), OwnCov(r, c, k))
      <4>1. Collect(r, h, c, d, k) = Unless(<<a, b>>, native)
        BY <3>2 DEF Collect, CargoCollect
      <4>2. a[2] = unread /\ b[2] = unread /\ native.kind = "none"
        BY NativeIsNone
      <4> HIDE DEF a, b, native
      <4> QED
        BY <4>1, <4>2
    <3>3. CASE r.engine = "junit"
      <4> DEFINE j == d[BuildTool(h)]
                 a == <<j.dir \/ c.rc = 0, bad>>
                 native == Native(IF j.dir THEN j.reports ELSE NoReports,
                                  IF r.coverage THEN j.jacoco ELSE 0)
      <4>1. Collect(r, h, c, d, k) = Unless(<<a>>, native)
        BY <3>3 DEF Collect, JunitCollect
      <4>2. a[2] = bad /\ native.kind = "none"
        BY NativeIsNone
      <4> HIDE DEF a, native
      <4> QED
        BY <4>1, <4>2
    <3>4. CASE r.engine = "xunit"
      <4> DEFINE a == <<c.report # "none" \/ c.rc = 0, bad>>
                 b == <<c.report # "torn", bad>>
                 native == Native(IF c.report = "whole" THEN ResultsOf(c, k) ELSE NoReports,
                                  IF Collects(r, h) THEN OwnCov(r, c, k) ELSE 0)
      <4>1. Collect(r, h, c, d, k) = Unless(<<a, b>>, native)
        BY <3>4 DEF Collect, XunitCollect
      <4>2. a[2] = bad /\ b[2] = bad /\ native.kind = "none"
        BY NativeIsNone
      <4> HIDE DEF a, b, native
      <4> QED
        BY <4>1, <4>2
    <3> QED
      BY <1>3, <3>1, <3>2, <3>3, <3>4
  <2> QED
    BY <2>2, <2>3
<1> QED
  BY <1>1, <1>2, <1>3 DEF Engines

\* Until it answers, an invocation has answered nothing; the gate's verdict
\* holds while the machine stays as it is, and the tool complains about what is
\* not there.
RunnableInv ==
  /\ pc # "idle" => answer.kind = "nothing"
  /\ pc \in {"ready", "ended"} /\ calm => Ready(req.engine, host)
  /\ pc = "ended" => child.lacks = Lacks(req.engine)
  /\ ReadyIsRunnable

\* Each test a tool that has ended ran got as far as its engine can tell.
AgreeInv ==
  /\ pc = "ended" => child.ran \in [DOMAIN child.ran -> Reachable(req.engine)]
  /\ EnginesAgree

\* How an engine is resolved, or why it is not.
LEMMA ResolvedHow ==
  ASSUME NEW o, NEW p, NEW h
  PROVE  Resolve(o, p, h).how \in {"override", "pin", "backfill", "undetected", "ambiguous"}
PROOF
<1>1. Choose(h).choice \in {"undetected", "ambiguous", "chosen"}
  BY DEF Choose
<1> QED
  BY <1>1 DEF Resolve

\* An answer that misses nothing is no matter for the probe.
LEMMA OtherAnswers ==
  /\ answer.kind \notin NotThere => ReadyIsRunnable
  /\ Unprobed(req, host) => ReadyIsRunnable
  /\ ~calm => ReadyIsRunnable
  BY DEF ReadyIsRunnable, NotThere, Unprobed

\* Every step keeps ready engines runnable.
LEMMA RunnableStep == EngineInv /\ RunnableInv /\ [Next]_vars => RunnableInv'
PROOF
<1> SUFFICES ASSUME EngineInv, RunnableInv, [Next]_vars PROVE RunnableInv'
  OBVIOUS
<1>0. /\ answer'.kind \notin NotThere => ReadyIsRunnable'
      /\ Unprobed(req, host)' => ReadyIsRunnable'
      /\ ~calm' => ReadyIsRunnable'
  BY DEF ReadyIsRunnable, NotThere, Unprobed
<1>1. ASSUME NEW r \in Requests, Ask(r) PROVE RunnableInv'
  <2> DEFINE resolved == Resolve(r.override, pin, host)
  <2>1. resolved.how \notin NotThere
    BY ResolvedHow DEF NotThere
  <2> HIDE DEF resolved
  <2>2. /\ pc' \in {"idle", "asked"} /\ answer'.kind \notin NotThere
        /\ pc' # "idle" => answer'.kind = "nothing"
    BY <1>1, <2>1 DEF Ask, Refuse, NoAnswer, NotThere, resolved
  <2> QED
    BY <1>0, <2>2 DEF RunnableInv
<1>2. CASE Gate
  <2>1. CASE Ready(req.engine, host)
    <3>1. pc = "asked" /\ pc' = "ready" /\ UNCHANGED <<answer, req, host>>
      BY <1>2, <2>1 DEF Gate
    <3>2. answer'.kind = "nothing" /\ answer'.kind \notin NotThere
      BY <3>1 DEF RunnableInv, NotThere
    <3> QED
      BY <1>0, <2>1, <3>1, <3>2 DEF RunnableInv
  <2>2. CASE ~Ready(req.engine, host)
    <3>1. pc' = "idle" /\ answer'.kind \notin NotThere
      BY <1>2, <2>2 DEF Gate, Refuse, NotThere
    <3> QED
      BY <1>0, <3>1 DEF RunnableInv
  <2> QED
    BY <2>1, <2>2
<1>3. CASE Launch
  <2> DEFINE kind == Preflight(req, host)
  <2>1. /\ pc = "ready" /\ UNCHANGED <<host, req>> /\ req.engine \in Engines
        /\ calm => Ready(req.engine, host)
        /\ answer.kind = "nothing"
    BY <1>3 DEF Launch, EngineInv, RunnableInv
  <2>2. CASE Refuse(kind) /\ UNCHANGED calm
    <3>1. calm /\ ~Unprobed(req, host) => kind \notin NotThere
      BY <2>1, ReadyPassesPreflight
    <3>2. Unprobed(req, host)' <=> Unprobed(req, host)
      BY <2>1 DEF Unprobed
    <3> QED
      BY <1>0, <2>2, <3>1, <3>2 DEF Refuse, RunnableInv
  <2>3. CASE \E early \in BOOLEAN : Refuse(Vanished(req, host, early)) /\ calm' = FALSE
    BY <1>0, <2>3 DEF Refuse, RunnableInv
  <2>4. CASE Spawn /\ pc' = "ended" /\ UNCHANGED <<calm, answer>>
    <3>1. child'.lacks = Lacks(req.engine)
      BY <2>4 DEF Spawn
    <3>2. Lacks(req.engine)' = Lacks(req.engine)
      BY <2>1 DEF Lacks
    <3>3. answer'.kind = "nothing" /\ answer'.kind \notin NotThere
      BY <2>1, <2>4 DEF NotThere
    <3> QED
      BY <1>0, <2>1, <2>4, <3>1, <3>2, <3>3 DEF RunnableInv
  <2> QED
    BY <1>3, <2>2, <2>3, <2>4 DEF Launch
<1>4. CASE Finish
  <2> DEFINE native == Collect(req, host, child, disk, n)
  <2>1. /\ pc = "ended" /\ pc' = "idle" /\ UNCHANGED <<host, req, calm>>
        /\ answer' = IF native.kind = "none" THEN Record(native) ELSE [kind |-> native.kind]
    BY <1>4 DEF Finish
  <2>2. /\ req.engine \in Engines /\ child.lacks = Lacks(req.engine)
        /\ calm => Ready(req.engine, host)
    BY <2>1 DEF EngineInv, RunnableInv
  <2>3. calm /\ ~Unprobed(req, host) => native.kind \notin NotThere
    <3>1. /\ req.engine = "pytest" => child.lacks = {m \in {"pytest", "json-report", "pytest-cov"} :
                                                       <<Interpreter(host), m>> \notin host.imports}
          /\ req.engine = "jest" => child.lacks = IF "node_modules/.bin/jest" \in host.marks THEN {}
                                                  ELSE {"jest"}
      BY <2>2 DEF Lacks
    <3> QED
      BY <2>2, <3>1, ReadyCollects
  <2> HIDE DEF native
  <2>4. Unprobed(req, host)' <=> Unprobed(req, host)
    BY <2>1 DEF Unprobed
  <2>5. native.kind \notin NotThere => answer'.kind \notin NotThere
    BY <2>1, RecordSays DEF NotThere
  <2> QED
    BY <1>0, <2>1, <2>3, <2>4, <2>5 DEF RunnableInv
<1>5. CASE Drift
  <2>1. pc # "ended" /\ pc' = pc /\ UNCHANGED <<answer, req>> /\ ~calm'
    BY <1>5 DEF Drift
  <2> QED
    BY <1>0, <2>1 DEF RunnableInv
<1>6. CASE UNCHANGED vars
  <2>1. UNCHANGED <<host, pc, req, calm, child, answer>>
    BY <1>6 DEF vars
  <2> QED
    BY <2>1 DEF RunnableInv, ReadyIsRunnable, Lacks
<1> QED
  BY <1>1, <1>2, <1>3, <1>4, <1>5, <1>6 DEF Next, Done

\* What the probe calls ready is run: on a machine that stays as it is, no
\* adapter and no tool misses anything the probe looks at.
THEOREM ReadyIsRunnableHolds == Spec => []ReadyIsRunnable
PROOF
<1>1. Init => EngineInv /\ RunnableInv
  <2>1. Init => RunnableInv
    BY DEF Init, RunnableInv, ReadyIsRunnable
  <2> QED
    BY <2>1, EngineInit
<1>2. (EngineInv /\ RunnableInv) /\ [Next]_vars => (EngineInv /\ RunnableInv)'
  BY EngineStep, RunnableStep
<1>3. RunnableInv => ReadyIsRunnable
  BY DEF RunnableInv
<1> QED
  BY <1>1, <1>2, <1>3, PTL DEF Spec

(***************************************************************************)
(* One vocabulary                                                          *)
(***************************************************************************)

LEMMA Places ==
  /\ PlaceOf("passed") = 1 /\ PlaceOf("failed") = 2 /\ PlaceOf("errored") = 3
  /\ PlaceOf("skipped") = 4
PROOF
<1>1. \A i \in 1..4 : "passed" = <<"passed", "failed", "errored", "skipped">>[i] <=> i = 1
  OBVIOUS
<1>2. \A i \in 1..4 : "skipped" = <<"passed", "failed", "errored", "skipped">>[i] <=> i = 4
  OBVIOUS
<1> QED
  BY <1>1, <1>2, FailurePlaces DEF PlaceOf

\* What a tool can tell of a test is read from its word as it was.
LEMMA WordsAreRead ==
  ASSUME NEW e \in Engines, NEW o \in Reachable(e) \ {"started"}
  PROVE  Normalized(e, Word(e, o)) = o
PROOF
<1>1. o \in {"passed", "failed", "errored", "skipped"}
  BY DEF Reachable
<1>2. Normalized(e, Word(e, o)) =
        CASE e = "junit" -> JunitStatus(Word(e, o))
          [] e = "xunit" -> TrxStatus(Word(e, o))
          [] e \notin {"junit", "xunit"} ->
               IF Word(e, o) \in DOMAIN Vocabulary(e) THEN Vocabulary(e)[Word(e, o)] ELSE "unknown"
  BY DEF Normalized
<1>3. CASE e = "pytest"
  <2>1. Vocabulary(e) = [passed |-> "passed", failed |-> "failed", skipped |-> "skipped",
                         xfailed |-> "xfailed", xpassed |-> "xpassed", error |-> "errored"]
    BY <1>3 DEF Vocabulary
  <2>2. Word(e, o) = <<"passed", "failed", "error", "skipped">>[PlaceOf(o)]
    BY <1>3 DEF Word, PlaceOf
  <2> QED
    BY <1>1, <1>2, <1>3, <2>1, <2>2, Places
<1>4. CASE e = "jest"
  <2>1. Vocabulary(e) = [passed |-> "passed", failed |-> "failed", pending |-> "skipped",
                         skipped |-> "skipped", todo |-> "skipped", disabled |-> "skipped",
                         focused |-> "passed"]
    BY <1>4 DEF Vocabulary
  <2>2. Word(e, o) = <<"passed", "failed", "failed", "pending">>[PlaceOf(o)]
    BY <1>4 DEF Word, PlaceOf
  <2>3. o # "errored"
    BY <1>4 DEF Reachable
  <2> QED
    BY <1>1, <1>2, <1>4, <2>1, <2>2, <2>3, Places
<1>5. CASE e = "go-test"
  <2>1. Vocabulary(e) = [pass |-> "passed", fail |-> "failed", skip |-> "skipped"]
    BY <1>5 DEF Vocabulary
  <2>2. Word(e, o) = <<"pass", "fail", "fail", "skip">>[PlaceOf(o)]
    BY <1>5 DEF Word, PlaceOf
  <2>3. o # "errored"
    BY <1>5 DEF Reachable
  <2> QED
    BY <1>1, <1>2, <1>5, <2>1, <2>2, <2>3, Places
<1>6. CASE e = "cargo-test"
  <2>1. Vocabulary(e) = [ok |-> "passed", failed |-> "failed", ignored |-> "skipped"]
    BY <1>6 DEF Vocabulary
  <2>2. Word(e, o) = <<"ok", "failed", "failed", "ignored">>[PlaceOf(o)]
    BY <1>6 DEF Word, PlaceOf
  <2>3. o # "errored"
    BY <1>6 DEF Reachable
  <2> QED
    BY <1>1, <1>2, <1>6, <2>1, <2>2, <2>3, Places
<1>7. CASE e = "junit"
  <2>1. Word(e, o) = <<"none", "failure", "error", "skipped">>[PlaceOf(o)]
    BY <1>7 DEF Word, PlaceOf
  <2> QED
    BY <1>1, <1>2, <1>7, <2>1, Places DEF JunitStatus
<1>8. CASE e = "xunit"
  <2>1. Word(e, o) = <<"passed", "failed", "error", "notexecuted">>[PlaceOf(o)]
    BY <1>8 DEF Word, PlaceOf
  <2> QED
    BY <1>1, <1>2, <1>8, <2>1, Places DEF TrxStatus
<1> QED
  BY <1>3, <1>4, <1>5, <1>6, <1>7, <1>8 DEF Engines

Whole == /\ child.built /\ ~child.upToDate
         /\ child.lost = {} /\ child.report = "whole" /\ ~Unfinished(child.ran)
Plain == child.rc = 0 \/ (child.rc = 1 /\ Failing(child.ran))

\* A suite reported whole is taken whole.
LEMMA WholeIsTaken ==
  ASSUME EngineInv, AgreeInv, pc = "ended", Whole
  PROVE  Taken = [t \in DOMAIN child.ran |-> [status |-> child.ran[t], by |-> n]]
PROOF
<1>1. EndedInv /\ req.engine \in Engines
  BY DEF EngineInv
<1>2. Seen(child) \ child.lost = DOMAIN child.ran
  BY DEF Whole, Unfinished, Seen
<1>3. ResultsOf(child, n) = [t \in DOMAIN child.ran |-> [status |-> child.ran[t], by |-> n]]
  BY <1>2 DEF ResultsOf
<1>4. Taken = ResultsOf(child, n)
  <2>1. CASE req.engine = "junit"
    <3>1. disk[BuildTool(host)].reports = ResultsOf(child, n)
      BY <1>1, <2>1 DEF EndedInv, Whole
    <3>2. CASE disk[BuildTool(host)].dir
      BY <2>1, <3>1, <3>2 DEF Taken
    <3>3. CASE ~disk[BuildTool(host)].dir
      <4>1. DOMAIN child.ran = {}
        BY <1>1, <2>1, <3>3 DEF EndedInv, Whole
      <4>2. ResultsOf(child, n) = NoReports
        BY <1>3, <4>1 DEF NoReports
      <4> QED
        BY <2>1, <3>3, <4>2 DEF Taken
    <3> QED
      BY <3>2, <3>3
  <2>2. CASE req.engine = "xunit"
    BY <2>2 DEF Taken, Whole
  <2>3. CASE req.engine \notin {"junit", "xunit"}
    BY <2>3 DEF Taken
  <2> QED
    BY <2>1, <2>2, <2>3
<1> QED
  BY <1>3, <1>4

\* Its record has the results and the verdict any engine would have given it.
LEMMA FinishAgrees ==
  ASSUME EngineInv, AgreeInv, pc = "ended", Whole, Plain,
         NEW native, native.kind = "none", native.results = Taken
  PROVE  /\ Record(native).results = child.ran
         /\ Record(native).status = IF Failing(child.ran) THEN "failed" ELSE "passed"
PROOF
<1>1. EndedInv /\ req.engine \in Engines
  BY DEF EngineInv
<1>2. child.ran = [t \in DOMAIN child.ran |-> child.ran[t]]
      /\ \A t \in DOMAIN child.ran : child.ran[t] \in Reachable(req.engine) \ {"started"}
  BY DEF AgreeInv, Whole, Unfinished
<1> DEFINE taken == [t \in DOMAIN child.ran |-> [status |-> child.ran[t], by |-> n]]
<1>3. native.results = taken
  BY WholeIsTaken
<1>4. DOMAIN native.results = DOMAIN child.ran
      /\ \A t \in DOMAIN child.ran : native.results[t].status = child.ran[t]
  BY <1>3
<1> HIDE DEF taken
<1>5. \A t \in DOMAIN child.ran :
        Normalized(req.engine, Word(req.engine, native.results[t].status)) = child.ran[t]
  BY <1>1, <1>2, <1>4, WordsAreRead
<1>6. Record(native).results = child.ran
  <2> DEFINE read(t) == Normalized(req.engine, Word(req.engine, native.results[t].status))
  <2>1. Record(native).results = [t \in DOMAIN native.results |-> read(t)]
    BY DEF Record
  <2>2. [t \in DOMAIN child.ran |-> read(t)] = [t \in DOMAIN child.ran |-> child.ran[t]]
    BY <1>5
  <2> QED
    BY <1>2, <1>4, <2>1, <2>2
<1>7. FailLike(child.ran) <=> Failing(child.ran)
  BY DEF FailLike, Failing
<1>8. Record(native).status = Verdict(req.engine, child.ran, child)
  BY <1>6, RecordSays
<1>9. Verdict(req.engine, child.ran, child) = IF Failing(child.ran) THEN "failed" ELSE "passed"
  <2>1. child.rc \in ExitCodes(req.engine, child.ran, child.built, child.blind)
    BY <1>1 DEF EndedInv
  <2>2. CASE req.engine = "pytest"
    <3>1. child.ran # <<>> /\ child.rc = IF Failing(child.ran) THEN 1 ELSE 0
      BY <2>1, <2>2 DEF ExitCodes, Plain
    <3> QED
      BY <1>7, <2>2, <3>1 DEF Verdict, PytestVerdict
  <2>3. CASE req.engine = "jest"
    <3>1. child.rc = IF Failing(child.ran) THEN 1 ELSE 0
      BY <1>1, <2>1, <2>3 DEF ExitCodes, Plain, Whole, EndedInv, IgnoresFailures
    <3> QED
      BY <1>1, <1>7, <2>3, <3>1 DEF Verdict, JestVerdict, EndedInv, Successes
  <2>4. CASE req.engine \notin {"pytest", "jest"}
    BY <1>7, <2>4 DEF Verdict, CodedVerdict, Plain
  <2> QED
    BY <2>2, <2>3, <2>4
<1> QED
  BY <1>6, <1>8, <1>9

\* Every step keeps the engines in agreement.
LEMMA AgreeStep == EngineInv /\ AgreeInv /\ [Next]_vars => AgreeInv'
PROOF
<1> SUFFICES ASSUME EngineInv, AgreeInv, [Next]_vars PROVE AgreeInv'
  OBVIOUS
<1>0. ASSUME pc' # "ended", answer'.kind # "record" PROVE AgreeInv'
  BY <1>0 DEF AgreeInv, EnginesAgree, Recorded
<1>1. ASSUME NEW r \in Requests, Ask(r) PROVE AgreeInv'
  <2> DEFINE resolved == Resolve(r.override, pin, host)
  <2>1. resolved.how # "record"
    BY ResolvedHow
  <2> HIDE DEF resolved
  <2>2. pc' \in {"idle", "asked"} /\ answer'.kind # "record"
    BY <1>1, <2>1 DEF Ask, Refuse, NoAnswer, resolved
  <2> QED
    BY <1>0, <2>2
<1>2. CASE Gate
  <2>1. pc' \in {"idle", "ready"} /\ answer'.kind # "record"
    BY <1>2 DEF Gate, Refuse, EngineInv
  <2> QED
    BY <1>0, <2>1
<1>3. CASE Launch
  <2>1. req.engine \in Engines /\ answer.kind # "record" /\ UNCHANGED <<host, req>>
    BY <1>3 DEF Launch, EngineInv
  <2>2. CASE Refuse(Preflight(req, host))
    <3>1. pc' = "idle" /\ answer'.kind # "record"
      BY <2>1, <2>2, PreflightRefuses DEF Refuse
    <3> QED
      BY <1>0, <3>1
  <2>3. CASE \E early \in BOOLEAN : Refuse(Vanished(req, host, early))
    <3>1. pc' = "idle" /\ answer'.kind # "record"
      BY <2>3 DEF Refuse, Vanished
    <3> QED
      BY <1>0, <3>1
  <2>4. CASE Spawn /\ UNCHANGED answer
    <3>1. child'.ran \in [DOMAIN child'.ran -> Reachable(req.engine)]
      BY <2>4 DEF Spawn
    <3>2. Reachable(req.engine)' = Reachable(req.engine)
      BY <2>1 DEF Reachable
    <3> QED
      BY <2>1, <2>4, <3>1, <3>2 DEF AgreeInv, EnginesAgree, Recorded
  <2> QED
    BY <1>3, <2>2, <2>3, <2>4 DEF Launch
<1>4. CASE Finish
  <2> DEFINE native == Collect(req, host, child, disk, n)
  <2>1. /\ pc = "ended" /\ pc' = "idle" /\ UNCHANGED child
        /\ answer' = IF native.kind = "none" THEN Record(native) ELSE [kind |-> native.kind]
    BY <1>4 DEF Finish
  <2>2. native.kind # "record" /\ (native.kind = "none" => native.results = Taken)
    BY <2>1, CollectedIsTaken DEF EngineInv, Complaints
  <2> HIDE DEF native
  <2>3. CASE native.kind # "none"
    BY <1>0, <2>1, <2>2, <2>3
  <2>4. CASE native.kind = "none"
    <3>1. Whole /\ Plain => /\ answer'.results = child.ran
                            /\ answer'.status = IF Failing(child.ran) THEN "failed" ELSE "passed"
      BY <2>1, <2>2, <2>4, FinishAgrees
    <3>2. EnginesAgree'
      BY <2>1, <3>1 DEF EnginesAgree, Whole, Plain, Failing, Unfinished
    <3> QED
      BY <2>1, <3>2 DEF AgreeInv
  <2> QED
    BY <2>3, <2>4
<1>5. CASE Drift
  <2>1. pc' = pc /\ pc # "ended" /\ UNCHANGED <<answer, child>>
    BY <1>5 DEF Drift
  <2> QED
    BY <2>1 DEF AgreeInv, EnginesAgree, Recorded
<1>6. CASE UNCHANGED vars
  BY <1>6 DEF vars, AgreeInv, EnginesAgree, Recorded
<1> QED
  BY <1>1, <1>2, <1>3, <1>4, <1>5, <1>6 DEF Next, Done

\* One vocabulary, for all engines, machines and tools: a suite that was built,
\* ran to its end and was reported whole has the results it had and the verdict
\* they call for, whichever engine ran it.
THEOREM EnginesAgreeHolds == Spec => []EnginesAgree
PROOF
<1>1. Init => EngineInv /\ AgreeInv
  <2>1. Init => AgreeInv
    BY DEF Init, AgreeInv, EnginesAgree, Recorded, NoAnswer
  <2> QED
    BY <2>1, EngineInit
<1>2. (EngineInv /\ AgreeInv) /\ [Next]_vars => (EngineInv /\ AgreeInv)'
  BY EngineStep, AgreeStep
<1>3. AgreeInv => EnginesAgree
  BY DEF AgreeInv
<1> QED
  BY <1>1, <1>2, <1>3, PTL DEF Spec
===============================================================================
