------------------------------ MODULE Coverage ------------------------------
(***************************************************************************)
(* The coverage component at work (src/novetest/coverage): runs leave a    *)
(* native payload in their artifact directory, derive_coverage_facts turns *)
(* it into facts and stores them, the availability probe says what can be  *)
(* had, compare_coverage_facts relates two runs.  Meanwhile the user moves *)
(* sources.  What deletion, reset and torn files do to stored facts is in  *)
(* DerivedFacts.                                                           *)
(***************************************************************************)
EXTENDS CoverageFacts

CONSTANTS
  Sources,          \* the source files of the workspace
  Payloads,         \* payloads of a first run: [engine, docs, contexts, shape]
  LaterPayloads,    \* payloads of a later one
  MaxRuns           \* bound on the runs of a behaviour

(* The entries of a payload: XML comes as documents, JSON is one.          *)
Entries(run) ==
  IF run.engine \in {"junit", "xunit"} THEN UNION {Range(doc) : doc \in Range(run.docs)} ELSE Range(run.docs)

(* What the tools write: lists; JSON objects and JaCoCo reports name a     *)
(* file once, JaCoCo's files a line once; counts are not negative.         *)
EntryIsTyped(engine, e) ==
  CASE engine = "pytest" -> e.exec \cup e.miss \subseteq Nat
    [] engine = "jest" -> "statements" \in DOMAIN e =>
         IsFiniteSet(e.statements) /\ \A s \in e.statements : s.line \in Nat
    [] engine = "junit" ->
         /\ IsFiniteSet(e.lines) /\ \A l \in e.lines : l.nr \in Nat /\ l.ci \in Nat /\ l.mi \in Nat
         /\ \A l, m \in e.lines : l.nr = m.nr => l = m
    [] engine = "xunit" ->
         IsFiniteSet(e.lines) /\ \A l \in e.lines : l[1] \in Nat /\ l[2] \in Nat
    [] engine = "cargo-test" ->
         /\ e.key = "SF" => e.path # NoBlock.path
         /\ e.key \in {"DA", "BRDA"} => e.line \in Nat /\ e.hits \in Nat
         /\ e.key \in {"LF", "LH", "BRF", "BRH"} => e.n \in Nat
    [] engine = "go-test" -> TRUE

Engines == {"pytest", "jest", "cargo-test", "go-test", "junit", "xunit"}

IsList(s) == s \in Seq(Range(s))

ASSUME CoveragePayloads ==
  \A p \in Payloads \cup LaterPayloads :
    /\ p.engine \in Engines /\ p.shape \in {"none", "file", "dir"}
    /\ IsList(p.docs)
    /\ p.engine \in {"junit", "xunit"} => \A doc \in Range(p.docs) : IsList(doc)
    /\ \A e \in Entries(p) : EntryIsTyped(p.engine, e)
    /\ p.engine \in {"pytest", "jest", "junit"} => \A d, e \in Entries(p) : d.path = e.path => d = e

ASSUME CoverageBound == MaxRuns \in Nat

VARIABLES
  tree,             \* the sources on disk
  runs,             \* the payload of each run, in the order they ran
  facts             \* coverage_facts.json of each run, or NoFacts

vars == <<tree, runs, facts>>

NoFacts == [state |-> "none"]
Unavailable(reason) == [state |-> reason]
Facts(run, files) ==
  [state |-> "facts", engine |-> run.engine, files |-> files,
   granularity |-> Granularity(run.engine, run.contexts)]

Has(f) == f.state = "facts"

----------------------------------------------------------------------------
(* The artifact key a payload is registered under, and the keys the        *)
(* availability probe looks for.  go-test registers one nobody reads.      *)
KeyOf(engine) ==
  CASE engine \in {"pytest", "jest"} -> "coverage_json"
    [] engine = "cargo-test" -> "coverage_lcov"
    [] engine \in {"junit", "xunit"} -> "coverage_xml"
    [] engine = "go-test" -> "coverage_profile"

\* Mutant: the probe predates the cargo engine.
ProbedJsonXml == {"coverage_json", "coverage_xml"}

ProbedKeys == {"coverage_json", "coverage_lcov", "coverage_xml"}

(* shape: no artifact, one file, or a directory (the modules of a Maven    *)
(* build, which run_maven stages by module; per-test reports of Coverlet). *)
Registered(run) == run.shape # "none"

(* Reads a file; only the xunit branch takes a directory.                  *)
Readable(run) ==
  /\ Registered(run)
  /\ KeyOf(run.engine) # "coverage_profile"
  /\ run.shape = "file" \/ run.engine = "xunit"

(* The junit and xunit branches drop the files that are not on disk.       *)
ChecksDisk == {"junit", "xunit"}

OnDisk(files, f) == IF f.path \in tree THEN Append(files, f) ELSE files

Surviving(run, files) ==
  IF run.engine \in ChecksDisk THEN FoldLeft(OnDisk, <<>>, files) ELSE files

Derived(run) ==
  IF ~Readable(run) \/ (run.shape = "dir" /\ run.docs = <<>>) THEN Unavailable("missing-native-payload")
  ELSE LET files == Parse(run.engine, run.docs)
       IN  IF files = Corrupt THEN Unavailable("native-payload-corrupt")
           ELSE IF files # <<>> /\ Surviving(run, files) = <<>> THEN Unavailable("missing-native-payload")
           ELSE Facts(run, Surviving(run, files))

(* check_coverage_availability.                                            *)
Available(r) == Has(facts[r]) \/ (Registered(runs[r]) /\ KeyOf(runs[r].engine) \in ProbedKeys)

----------------------------------------------------------------------------
Init == tree = Sources /\ runs = <<>> /\ facts = <<>>

(* The run engine keeps the payload of a run with its evidence.            *)
Execute ==
  /\ Len(runs) < MaxRuns
  /\ \E p \in (IF runs = <<>> THEN Payloads ELSE LaterPayloads) : runs' = Append(runs, p)
  /\ facts' = Append(facts, NoFacts)
  /\ UNCHANGED tree

(* derive_coverage_facts; a file that is there is written again.           *)
Derive(r) ==
  /\ facts' = [facts EXCEPT ![r] = IF Has(Derived(runs[r])) THEN Derived(runs[r]) ELSE @]
  /\ UNCHANGED <<tree, runs>>

(* The user removes a source, or puts it back.                             *)
MoveSource(f) == /\ tree' = IF f \in tree THEN tree \ {f} ELSE tree \cup {f}
                 /\ UNCHANGED <<runs, facts>>

Next == \/ Execute
        \/ \E r \in DOMAIN runs : Derive(r)
        \/ \E f \in Sources : MoveSource(f)

Spec == Init /\ [][Next]_vars
----------------------------------------------------------------------------
(* Facts are about the runs there are, and an executed line is a line.     *)
CoverageTypeOK ==
  /\ tree \subseteq Sources
  /\ Len(facts) = Len(runs)
  /\ \A r \in DOMAIN facts : Has(facts[r]) =>
       \A i \in DOMAIN facts[r].files :
         facts[r].files[i].exec \cup facts[r].files[i].miss \subseteq Nat

(* The lines of a file whose only class in a Cobertura document lists them *)
(* once as hit and once as not, as Coverlet does for the accessors of a    *)
(* property: nothing merges a class with itself (cobertura_parser.py:335-  *)
(* 354).                                                                   *)
AtOdds(run, path) ==
  LET alone(doc) == {e \in Range(doc) : e.path = path /\ \A d \in Range(doc) : d.path = path => d = e}
      both(e) == CoberturaClass(e).exec \cap CoberturaClass(e).miss
  IN  IF run.engine # "xunit" THEN {}
      ELSE UNION {both(e) : e \in UNION {alone(doc) : doc \in Range(run.docs)}}

(* A stored file lists a line as executed or as missing, not as both, but  *)
(* where the one class it was read from is at odds with itself; whatever   *)
(* order and number of classes, reports and blocks there are.  Its summary *)
(* counts the lines it lists, those at odds twice; jest alone counts       *)
(* statements, of which a line may hold several                            *)
(* (models/coverage_fact_set.py:55-74).  coverage.py's own numbers are     *)
(* copied, so the claim is the parsers'.                                   *)
LinesAreDecided ==
  \A r \in DOMAIN facts : Has(facts[r]) /\ facts[r].engine # "pytest" =>
    \A i \in DOMAIN facts[r].files :
      LET f == facts[r].files[i]
          both == f.exec \cap f.miss
          lines == Cardinality(f.exec \cup f.miss)
      IN  /\ both \subseteq AtOdds(runs[r], f.path)
          /\ IF facts[r].engine = "jest" THEN lines <= f.stmts ELSE f.stmts = lines + Cardinality(both)

(* The record at j is in a block of that file.                             *)
InFile(records, j, path) ==
  \E a \in 1..(j - 1) :
    /\ records[a].key = "SF" /\ records[a].path = path
    /\ \A k \in (a + 1)..j : records[k].key \notin {"SF", "end_of_record"}

HitRecords(records, path) ==
  {j \in DOMAIN records : records[j].key = "DA" /\ InFile(records, j, path) /\ records[j].hits > 0}

(* The lines a payload shows to have been run.                             *)
HitLines(run, path) ==
  LET of == {e \in Entries(run) : e.path = path}
  IN  CASE run.engine = "pytest" -> UNION {e.exec : e \in of}
        [] run.engine = "jest" -> UNION {{s.line : s \in {x \in e.statements : x.hits > 0}} : e \in of}
        [] run.engine = "junit" -> UNION {{l.nr : l \in {x \in e.lines : x.ci > 0}} : e \in of}
        [] run.engine = "xunit" -> UNION {{l[1] : l \in {x \in e.lines : x[2] > 0}} : e \in of}
        [] run.engine = "cargo-test" -> {run.docs[j].line : j \in HitRecords(run.docs, path)}

(* What the facts say was run of a file: LCOV alone gives an entry for     *)
(* each block of it, of which compute_coverage_delta then reads the later  *)
(* (coverage/compare.py:239).                                              *)
Executed(stored, f) ==
  IF stored.engine # "cargo-test" THEN f.exec
  ELSE UNION {g.exec : g \in {x \in Range(stored.files) : x.path = f.path}}

(* No line that ran is lost on the way: a line some record of a run's      *)
(* payload shows as hit is an executed line of the stored facts, whatever  *)
(* order the records of the file come in, as when the types of a C# file   *)
(* are separate classes (cobertura_parser.py:250-263) or an LCOV file      *)
(* counts a line several times (lcov_parser.py:291-293).  Three limits:    *)
(* several Cobertura documents overwrite one another, so there must be one *)
(* (cobertura_parser.py:264); the blocks of one LCOV path are taken        *)
(* together; a file that left the disk is dropped.                         *)
NoLostHit ==
  \A r \in DOMAIN facts :
    Has(facts[r]) /\ (facts[r].engine = "xunit" => Len(runs[r].docs) = 1) =>
      \A f \in Range(facts[r].files) : HitLines(runs[r], f.path) \subseteq Executed(facts[r], f)

(* A truncated or contradictory LCOV file gives no facts: every block that *)
(* is opened is closed before the next one, and a total it declares is     *)
(* that of its records (lcov_parser.py:308-316, 392-401, 472-481); where   *)
(* it declares several, the last.  A block whose branch records were all   *)
(* cut is believed: its BRF and BRH are looked at only beside a BRDA       *)
(* (449-450, against 105-107).                                             *)
Block(records, a, b) ==
  /\ a < b /\ records[a].key = "SF" /\ records[b].key = "end_of_record"
  /\ \A j \in (a + 1) .. (b - 1) : records[j].key \notin {"SF", "end_of_record"}

(* What a record counts: a line or a branch.                               *)
Item(rec) == IF rec.key = "DA" THEN rec.line ELSE <<rec.line, rec.block, rec.branch>>
Items(records, js) == {Item(records[j]) : j \in js}

Those(records, a, b, key) == {j \in a .. b : records[j].key = key}
Hit(records, js) == {j \in js : records[j].hits > 0}

LastOf(records, a, b, key) ==
  {j \in a .. b : records[j].key = key /\ \A k \in (j + 1) .. b : records[k].key # key}

Declares(records, a, b, total, counted) ==
  \A j \in LastOf(records, a, b, total) : records[j].n = Cardinality(Items(records, counted))

Totals(records, a, b) ==
  LET da == Those(records, a, b, "DA")
      brda == Those(records, a, b, "BRDA")
  IN  /\ Declares(records, a, b, "LF", da)
      /\ Declares(records, a, b, "LH", Hit(records, da))
      /\ brda # {} => /\ Declares(records, a, b, "BRF", brda)
                      /\ Declares(records, a, b, "BRH", Hit(records, brda))

WellFormed(records) ==
  \A a \in DOMAIN records : records[a].key = "SF" =>
    \E b \in DOMAIN records : Block(records, a, b) /\ Totals(records, a, b)

TruncatedIsRefused ==
  \A r \in DOMAIN facts : Has(facts[r]) /\ facts[r].engine = "cargo-test" => WellFormed(runs[r].docs)

(* The probe and the derivation are written apart: what can be derived, or *)
(* has been, the probe reports as available (availability.py:103-147).     *)
ProbeMissesNothing ==
  \A r \in DOMAIN runs : Has(facts[r]) \/ Has(Derived(runs[r])) => Available(r)

(* What the adapters say of the payload of a Maven build of several        *)
(* modules: it is registered "so D2's per-module glob works at the         *)
(* Coverage engine" (run/adapters/junit_adapter.py:431-434).  Coverage     *)
(* that was collected, is intact and names sources on disk can be derived. *)
StagedCoverageIsDerived ==
  \A r \in DOMAIN runs :
    /\ runs[r].shape # "none" /\ runs[r].docs # <<>>
    /\ Parse(runs[r].engine, runs[r].docs) # Corrupt
    /\ tree = Sources
    => Has(Derived(runs[r]))
============================================================================
