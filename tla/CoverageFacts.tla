--------------------------- MODULE CoverageFacts ---------------------------
(***************************************************************************)
(* What src/novetest/coverage computes from a native coverage payload: one *)
(* parser per engine, the facts of a file, the merge of two views of it,   *)
(* and the difference of the facts of two runs.  Text and XML are lists of *)
(* the records they hold; Corrupt stands for CoverageJsonParseError.       *)
(***************************************************************************)
EXTENDS Integers, Sequences, SequencesExt, FiniteSets

CorruptFile == [path |-> "native-payload-corrupt"]
Corrupt == <<CorruptFile>>

(* The lines of a file, its branch arcs, the tests of each line (only      *)
(* coverage.py says), and the statements its summary counts.               *)
FileFacts(path, exec, miss, stmts) ==
  [path |-> path, exec |-> exec, miss |-> miss, arcs |-> {}, tests |-> <<>>, stmts |-> stmts]

ByLines(path, exec, miss) ==
  FileFacts(path, exec, miss, Cardinality(exec) + Cardinality(miss))

----------------------------------------------------------------------------
(* coverage.py: the entries say it all; a context is a test and a phase,   *)
(* the empty context is collection and is dropped.                         *)
PytestFile(e) ==
  LET clean(line) == {c[1] : c \in e.contexts[line]} \ {""}
      kept == {line \in DOMAIN e.contexts : clean(line) # {}}
  IN  IF "stmts" \notin DOMAIN e THEN CorruptFile
      ELSE [FileFacts(e.path, e.exec, e.miss, e.stmts)
              EXCEPT !.tests = [line \in kept |-> clean(line)]]

(* istanbul: statements, each on its first line; a line is executed when   *)
(* one of its statements is.                                               *)
JestFile(e) ==
  LET hit == {s.line : s \in {x \in e.statements : x.hits > 0}}
  IN  IF "statements" \notin DOMAIN e THEN CorruptFile
      ELSE FileFacts(e.path, hit, {s.line : s \in e.statements} \ hit, Cardinality(e.statements))

(* JaCoCo: covered and missed instructions of a line; a line with neither  *)
(* is not a statement.                                                     *)
JacocoFile(e) ==
  ByLines(e.path, {l.nr : l \in {x \in e.lines : x.ci > 0}},
                  {l.nr : l \in {x \in e.lines : x.ci = 0 /\ x.mi > 0}})

(* Cobertura: a class lists the lines of its own part of a file, a line    *)
(* of several methods several times.                                       *)
CoberturaClass(e) ==
  ByLines(e.path, {l[1] : l \in {x \in e.lines : x[2] > 0}},
                  {l[1] : l \in {x \in e.lines : x[2] = 0}})

\* Mutant: a line missing in either view is missing.
MergeBoth(old, new) == ByLines(old.path, old.exec \cup new.exec, old.miss \cup new.miss)

MergeFile(old, new) ==
  LET exec == old.exec \cup new.exec
  IN  ByLines(old.path, exec, (old.miss \cup new.miss) \ exec)

----------------------------------------------------------------------------
(* A list of files in which each path stands once.                         *)
Paths(files) == {files[i].path : i \in DOMAIN files}

Put(files, f) ==
  IF f.path \in Paths(files)
  THEN [i \in DOMAIN files |-> IF files[i].path = f.path THEN f ELSE files[i]]
  ELSE Append(files, f)

AllOrCorrupt(files) ==
  IF \E i \in DOMAIN files : files[i] = CorruptFile THEN Corrupt ELSE files

ParsePytest(doc) == AllOrCorrupt([i \in DOMAIN doc |-> PytestFile(doc[i])])

ParseJest(doc) == AllOrCorrupt([i \in DOMAIN doc |-> JestFile(doc[i])])

(* The first report of a source file is kept, of whichever document.       *)
KeepFirst(files, e) == IF e.path \in Paths(files) THEN files ELSE Append(files, JacocoFile(e))

JacocoDocument(files, doc) == FoldLeft(KeepFirst, files, doc)

ParseJacoco(docs) == FoldLeft(JacocoDocument, <<>>, docs)

(* The classes of a document are merged; a later document overwrites.      *)
PutClass(files, e) ==
  LET f == CoberturaClass(e)
  IN  IF f.path \in Paths(files)
      THEN Put(files, MergeFile(CHOOSE x \in Range(files) : x.path = f.path, f))
      ELSE Append(files, f)

CoberturaDocument(doc) == FoldLeft(PutClass, <<>>, doc)

Overwrite(files, doc) == FoldLeft(Put, files, CoberturaDocument(doc))

ParseCobertura(docs) == FoldLeft(Overwrite, <<>>, docs)

----------------------------------------------------------------------------
(* LCOV, record by record: the block that is open, its line hits and the   *)
(* totals it declares.                                                     *)
NoBlock ==
  [path |-> "none", hits |-> <<>>, arcs |-> <<>>, LF |-> -1, LH |-> -1, BRF |-> -1, BRH |-> -1]

\* Mutant: of several counts of a line the last stands.
CountLast(counts, key, n) == [k \in DOMAIN counts \cup {key} |-> IF k = key THEN n ELSE counts[k]]

Count(counts, key, n) ==
  [k \in DOMAIN counts \cup {key} |->
     (IF k \in DOMAIN counts THEN counts[k] ELSE 0) + (IF k = key THEN n ELSE 0)]

HitKeys(counts) == {k \in DOMAIN counts : counts[k] > 0}

(* A declared total, -1 where there is none, is not what was counted.      *)
Disagrees(declared, counted) == declared # -1 /\ declared # Cardinality(counted)

(* The totals of the branches are looked at only if there are branches.    *)
LcovBlock(b) ==
  LET hit == HitKeys(b.hits)
  IN  IF \/ Disagrees(b.LF, DOMAIN b.hits) \/ Disagrees(b.LH, hit)
         \/ /\ DOMAIN b.arcs # {}
            /\ Disagrees(b.BRF, DOMAIN b.arcs) \/ Disagrees(b.BRH, HitKeys(b.arcs))
      THEN CorruptFile
      ELSE [ByLines(b.path, hit, DOMAIN b.hits \ hit)
              EXCEPT !.arcs = {<<a[1], a[3]>> : a \in HitKeys(b.arcs)}]

(* What a record says of the block it is in; unknown ones are skipped.     *)
InBlock(b, rec) ==
  CASE rec.key = "DA" -> [b EXCEPT !.hits = Count(@, rec.line, rec.hits)]
    [] rec.key = "BRDA" -> [b EXCEPT !.arcs = Count(@, <<rec.line, rec.block, rec.branch>>, rec.hits)]
    [] rec.key = "LF" -> [b EXCEPT !.LF = rec.n]
    [] rec.key = "LH" -> [b EXCEPT !.LH = rec.n]
    [] rec.key = "BRF" -> [b EXCEPT !.BRF = rec.n]
    [] rec.key = "BRH" -> [b EXCEPT !.BRH = rec.n]
    [] OTHER -> b

LcovRecord(st, rec) ==
  LET corrupt == [st EXCEPT !.files = Corrupt]
  IN  IF st.files = Corrupt \/ rec.key = "TN" THEN st
      ELSE IF rec.key = "SF" THEN
        IF st.open # NoBlock THEN corrupt ELSE [st EXCEPT !.open = [NoBlock EXCEPT !.path = rec.path]]
      ELSE IF st.open = NoBlock THEN corrupt
      ELSE IF rec.key = "end_of_record" THEN
        IF LcovBlock(st.open) = CorruptFile THEN corrupt
        ELSE [open |-> NoBlock, files |-> Append(st.files, LcovBlock(st.open))]
      ELSE [st EXCEPT !.open = InBlock(@, rec)]

\* Mutant: a block that is open at the end of the file is let go.
ParseLcovToEnd(records) ==
  LET st == FoldLeft(LcovRecord, [open |-> NoBlock, files |-> <<>>], records)
  IN  IF records = <<>> THEN Corrupt ELSE st.files

ParseLcov(records) ==
  LET st == FoldLeft(LcovRecord, [open |-> NoBlock, files |-> <<>>], records)
  IN  IF st.open # NoBlock \/ records = <<>> THEN Corrupt ELSE st.files

Parse(engine, docs) ==
  CASE engine = "pytest" -> ParsePytest(docs)
    [] engine = "jest" -> ParseJest(docs)
    [] engine = "cargo-test" -> ParseLcov(docs)
    [] engine = "junit" -> ParseJacoco(docs)
    [] engine = "xunit" -> ParseCobertura(docs)

(* Per-test only from coverage.py with show_contexts.                      *)
Granularity(engine, contexts) == IF engine = "pytest" /\ contexts THEN "per-test" ELSE "aggregate"

----------------------------------------------------------------------------
(* A dictionary by path: of two entries of one path, the later.            *)
FileAt(files, path) ==
  files[CHOOSE i \in DOMAIN files :
          /\ files[i].path = path
          /\ \A j \in DOMAIN files : files[j].path = path => j <= i]

FileDelta(old, new) ==
  [path |-> old.path, covered |-> new.exec \ old.exec, uncovered |-> old.exec \ new.exec,
   arcs |-> (new.arcs \ old.arcs) \cup (old.arcs \ new.arcs)]

Delta(old, new) ==
  LET both == Paths(old) \cap Paths(new)
      deltas == {FileDelta(FileAt(old, p), FileAt(new, p)) : p \in both}
  IN  [added |-> Paths(new) \ Paths(old), removed |-> Paths(old) \ Paths(new),
       deltas |-> {d \in deltas : d.covered # {} \/ d.uncovered # {} \/ d.arcs # {}}]

(* What the localization engine takes as the files that changed.           *)
ChangedFiles(delta) == delta.added \cup delta.removed \cup {d.path : d \in delta.deltas}
============================================================================
