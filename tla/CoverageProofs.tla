---------------------------- MODULE CoverageProofs ----------------------------
(***************************************************************************)
(* Proofs about Coverage, for any payloads the tools may write, any number *)
(* of runs and any sources that come and go.                               *)
(***************************************************************************)
EXTENDS Coverage, SequenceTheorems, FiniteSetTheorems, WellFoundedInduction, TLAPS

(***************************************************************************)
(* Induction                                                               *)
(***************************************************************************)

\* A set of naturals that has 0, and with k what follows k, has all up to n.
LEMMA UpTo ==
  ASSUME NEW n \in Nat, NEW P, 0 \in P, \A k \in 0..(n - 1) : k \in P => k + 1 \in P
  PROVE  \A k \in 0..n : k \in P
PROOF
<1> DEFINE Bad == {k \in 0..n : k \notin P}
<1> SUFFICES ASSUME Bad # {} PROVE FALSE
  OBVIOUS
<1>1. PICK k \in Bad : \A y \in Bad : ~(y < k)
  <2>1. Bad \in SUBSET Nat
    OBVIOUS
  <2> HIDE DEF Bad
  <2>2. PICK k \in Bad : \A y \in Bad : <<y, k>> \notin OpToRel(<, Nat)
    BY <2>1, WFMin, NatLessThanWellFounded
  <2>3. \A y \in Bad : ~(y < k)
    BY <2>1, <2>2, Zenon DEF OpToRel
  <2> QED
    BY <2>3
<1>2. k - 1 \in 0..(n - 1) /\ k - 1 \notin Bad
  BY <1>1
<1>3. k - 1 \in P
  BY <1>2
<1> QED
  BY <1>1, <1>2, <1>3

\* The greatest of some of the numbers up to k + 1.
LEMMA MaxOfUpTo ==
  ASSUME NEW k \in Nat, NEW S \in SUBSET (1..(k + 1)), S # {}
  PROVE  /\ Max(S) \in S
         /\ k + 1 \in S => Max(S) = k + 1
PROOF
<1> DEFINE P == {m \in Nat : \A T \in SUBSET (1..m) : T # {} => \E x \in T : \A y \in T : x >= y}
<1>1. 0 \in P
  <2>1. \A T \in SUBSET (1..0) : T = {}
    OBVIOUS
  <2> QED
    BY <2>1
<1>2. ASSUME NEW m \in 0..k, m \in P PROVE m + 1 \in P
  <2> SUFFICES ASSUME NEW T \in SUBSET (1..(m + 1)), T # {} PROVE \E x \in T : \A y \in T : x >= y
    OBVIOUS
  <2>1. CASE m + 1 \in T
    <3>1. \A y \in T : m + 1 >= y
      OBVIOUS
    <3> QED
      BY <2>1, <3>1
  <2>2. CASE m + 1 \notin T
    <3>1. T \in SUBSET (1..m)
      BY <2>2
    <3> QED
      BY <1>2, <3>1
  <2> QED
    BY <2>1, <2>2
<1>3. k + 1 \in P
  <2> HIDE DEF P
  <2>1. \A j \in 0..((k + 1) - 1) : j \in P => j + 1 \in P
    BY <1>2
  <2>2. k + 1 \in Nat /\ k + 1 \in 0..(k + 1)
    OBVIOUS
  <2>3. \A j \in 0..(k + 1) : j \in P
    BY <1>1, <2>1, <2>2, UpTo
  <2> QED
    BY <2>2, <2>3
<1>4. \E x \in S : \A y \in S : x >= y
  BY <1>3
<1>5. Max(S) \in S /\ \A y \in S : Max(S) >= y
  BY <1>4 DEF Max
<1>6. Max(S) \in 1..(k + 1) /\ (k + 1 \in S => Max(S) >= k + 1)
  BY <1>5
<1> QED
  BY <1>5, <1>6

(***************************************************************************)
(* The folds of the parsers                                                *)
(*                                                                         *)
(* The library's theorems about recursive functions take operators, which  *)
(* no prover here instantiates.  So the turns of all the loops are one     *)
(* operator, and that a fold is what its loop computes is shown once.      *)
(***************************************************************************)

\* One turn of a loop: what it does with x at the entry e.
Turn(loop, disk, x, e) ==
  CASE loop = "KeepFirst" -> KeepFirst(x, e)
    [] loop = "JacocoDocument" -> JacocoDocument(x, e)
    [] loop = "PutClass" -> PutClass(x, e)
    [] loop = "Put" -> Put(x, e)
    [] loop = "Overwrite" -> Overwrite(x, e)
    [] loop = "OnDisk" -> (IF e.path \in disk THEN Append(x, e) ELSE x)
    [] loop = "LcovRecord" -> LcovRecord(x, e)

\* What the records of an LCOV file leave.
LcovRead(records) == FoldLeft(LcovRecord, [open |-> NoBlock, files |-> <<>>], records)

\* The function a fold over the places D of s is the value of.
Folds(loop, disk, base, s, D, f) ==
  f = [S \in SUBSET D |->
         IF S = {} THEN base ELSE Turn(loop, disk, f[S \ {Max(S)}], s[Max(S)])]

\* There is such a function, however long the list.
LEMMA FoldExists ==
  ASSUME NEW loop, NEW disk, NEW base, NEW s, NEW n \in Nat
  PROVE  \E f : Folds(loop, disk, base, s, 1..n, f)
PROOF
<1> DEFINE P == {k \in Nat : \E f : Folds(loop, disk, base, s, 1..k, f)}
<1>1. 0 \in P
  <2> DEFINE f == [S \in SUBSET (1..0) |-> base]
  <2>1. \A S \in SUBSET (1..0) : S = {}
    OBVIOUS
  <2>2. Folds(loop, disk, base, s, 1..0, f)
    BY <2>1 DEF Folds
  <2> QED
    BY <2>2
<1>2. ASSUME NEW j \in 0..(n - 1), j \in P PROVE j + 1 \in P
  <2>1. PICK g : Folds(loop, disk, base, s, 1..j, g)
    BY <1>2
  <2> DEFINE f == [S \in SUBSET (1..(j + 1)) |->
                     IF j + 1 \in S THEN Turn(loop, disk, g[S \ {j + 1}], s[j + 1]) ELSE g[S]]
  <2>2. \A S \in SUBSET (1..(j + 1)) : j + 1 \notin S => S \in SUBSET (1..j) /\ f[S] = g[S]
    OBVIOUS
  <2>3. \A S \in SUBSET (1..(j + 1)) :
          f[S] = IF S = {} THEN base ELSE Turn(loop, disk, f[S \ {Max(S)}], s[Max(S)])
    <3> TAKE S \in SUBSET (1..(j + 1))
    <3>1. CASE S = {}
      <4>1. f[S] = g[S] /\ S \in SUBSET (1..j)
        BY <3>1, <2>2
      <4> QED
        BY <3>1, <4>1, <2>1 DEF Folds
    <3>2. CASE S # {} /\ j + 1 \in S
      <4>1. Max(S) = j + 1
        BY <3>2, MaxOfUpTo
      <4>2. S \ {j + 1} \in SUBSET (1..(j + 1)) /\ j + 1 \notin S \ {j + 1}
        OBVIOUS
      <4>3. f[S \ {j + 1}] = g[S \ {j + 1}]
        BY <4>2, <2>2
      <4>4. f[S] = Turn(loop, disk, g[S \ {j + 1}], s[j + 1])
        BY <3>2
      <4> QED
        BY <3>2, <4>1, <4>3, <4>4
    <3>3. CASE S # {} /\ j + 1 \notin S
      <4>1. S \in SUBSET (1..j) /\ f[S] = g[S]
        BY <3>3, <2>2
      <4>2. S \ {Max(S)} \in SUBSET (1..(j + 1)) /\ j + 1 \notin S \ {Max(S)}
        BY <3>3
      <4>3. f[S \ {Max(S)}] = g[S \ {Max(S)}]
        BY <4>2, <2>2
      <4>4. g[S] = IF S = {} THEN base ELSE Turn(loop, disk, g[S \ {Max(S)}], s[Max(S)])
        BY <4>1, <2>1 DEF Folds
      <4> HIDE DEF f
      <4> QED
        BY <3>3, <4>1, <4>3, <4>4
    <3> QED
      BY <3>1, <3>2, <3>3
  <2>4. f = [S \in SUBSET (1..(j + 1)) |-> f[S]]
    OBVIOUS
  <2> HIDE DEF f
  <2>5. Folds(loop, disk, base, s, 1..(j + 1), f)
    BY <2>3, <2>4 DEF Folds
  <2> QED
    BY <2>5
<1> HIDE DEF P
<1>3. \A j \in 0..n : j \in P
  BY <1>1, <1>2, UpTo
<1> QED
  BY <1>3 DEF P

\* What a loop has after each turn.
Goes(loop, disk, base, s, h) ==
  /\ h[0] = base
  /\ \A k \in 0..(Len(s) - 1) : h[k + 1] = Turn(loop, disk, h[k], s[k + 1])

LEMMA FoldGoes ==
  ASSUME NEW loop, NEW disk, NEW base, NEW s, IsList(s), NEW f,
         Folds(loop, disk, base, s, DOMAIN s, f)
  PROVE  \E h : Goes(loop, disk, base, s, h) /\ f[DOMAIN s] = h[Len(s)]
PROOF
<1>1. Len(s) \in Nat /\ DOMAIN s = 1..Len(s)
  BY DEF IsList
<1> DEFINE h == [k \in 0..Len(s) |-> f[1..k]]
<1>2. h[0] = base
  <2>1. 1..0 = {} /\ {} \in SUBSET (1..Len(s)) /\ 0 \in 0..Len(s)
    BY <1>1
  <2> QED
    BY <1>1, <2>1 DEF Folds
<1>3. ASSUME NEW k \in 0..(Len(s) - 1)
      PROVE  h[k + 1] = Turn(loop, disk, h[k], s[k + 1])
  <2>1. /\ k \in Nat /\ k \in 0..Len(s) /\ k + 1 \in 0..Len(s)
        /\ 1..(k + 1) \in SUBSET (1..Len(s)) /\ k + 1 \in 1..(k + 1)
        /\ (1..(k + 1)) \ {k + 1} = 1..k
    BY <1>1
  <2>2. Max(1..(k + 1)) = k + 1
    BY <2>1, MaxOfUpTo
  <2>3. f[1..(k + 1)] = Turn(loop, disk, f[1..k], s[k + 1])
    BY <1>1, <2>1, <2>2 DEF Folds
  <2> QED
    BY <2>1, <2>3
<1>4. f[DOMAIN s] = h[Len(s)]
  BY <1>1
<1> QED
  BY <1>2, <1>3, <1>4 DEF Goes

LEMMA LoopOf ==
  ASSUME NEW loop, NEW disk, NEW base, NEW s, IsList(s)
  PROVE  /\ \E f : Folds(loop, disk, base, s, DOMAIN s, f)
         /\ \A f : Folds(loop, disk, base, s, DOMAIN s, f) =>
              \E h : Goes(loop, disk, base, s, h) /\ f[DOMAIN s] = h[Len(s)]
PROOF
<1>1. Len(s) \in Nat /\ DOMAIN s = 1..Len(s)
  BY DEF IsList
<1>2. \E f : Folds(loop, disk, base, s, DOMAIN s, f)
  BY <1>1, FoldExists
<1>3. ASSUME NEW f, Folds(loop, disk, base, s, DOMAIN s, f)
      PROVE  \E h : Goes(loop, disk, base, s, h) /\ f[DOMAIN s] = h[Len(s)]
  BY <1>3, FoldGoes
<1> QED
  BY <1>2, <1>3

\* The classes of a document, one after the other.
LEMMA DocumentGoes ==
  ASSUME NEW doc, IsList(doc)
  PROVE  \E h : Goes("PutClass", {}, <<>>, doc, h) /\ CoberturaDocument(doc) = h[Len(doc)]
PROOF
<1> DEFINE Own(f) == f = [S \in SUBSET DOMAIN doc |->
                           IF S = {} THEN <<>> ELSE PutClass(f[S \ {Max(S)}], doc[Max(S)])]
           g == CHOOSE f : Own(f)
<1>1. CoberturaDocument(doc) = g[DOMAIN doc]
  BY DEF CoberturaDocument, FoldLeft, MapThenFoldSet
<1>2. \A f : Own(f) <=> Folds("PutClass", {}, <<>>, doc, DOMAIN doc, f)
  BY DEF Folds, Turn
<1>3. \E f : Folds("PutClass", {}, <<>>, doc, DOMAIN doc, f)
  BY LoopOf
<1>4. Own(g)
  BY <1>2, <1>3
<1>5. Folds("PutClass", {}, <<>>, doc, DOMAIN doc, g)
  BY <1>2, <1>4
<1> HIDE DEF g
<1> QED
  BY <1>1, <1>5, LoopOf

\* A document on top of those before it.
LEMMA OverwriteGoes ==
  ASSUME NEW files, NEW doc, IsList(CoberturaDocument(doc))
  PROVE  \E h : Goes("Put", {}, files, CoberturaDocument(doc), h) /\ Overwrite(files, doc) = h[Len(CoberturaDocument(doc))]
PROOF
<1> DEFINE Own(f) == f = [S \in SUBSET DOMAIN CoberturaDocument(doc) |->
                           IF S = {} THEN files ELSE Put(f[S \ {Max(S)}], CoberturaDocument(doc)[Max(S)])]
           g == CHOOSE f : Own(f)
<1>1. Overwrite(files, doc) = g[DOMAIN CoberturaDocument(doc)]
  BY DEF Overwrite, FoldLeft, MapThenFoldSet
<1>2. \A f : Own(f) <=> Folds("Put", {}, files, CoberturaDocument(doc), DOMAIN CoberturaDocument(doc), f)
  BY DEF Folds, Turn
<1>3. \E f : Folds("Put", {}, files, CoberturaDocument(doc), DOMAIN CoberturaDocument(doc), f)
  BY LoopOf
<1>4. Own(g)
  BY <1>2, <1>3
<1>5. Folds("Put", {}, files, CoberturaDocument(doc), DOMAIN CoberturaDocument(doc), g)
  BY <1>2, <1>4
<1> HIDE DEF g
<1> QED
  BY <1>1, <1>5, LoopOf

\* The documents, one after the other.
LEMMA CoberturaGoes ==
  ASSUME NEW docs, IsList(docs)
  PROVE  \E h : Goes("Overwrite", {}, <<>>, docs, h) /\ ParseCobertura(docs) = h[Len(docs)]
PROOF
<1> DEFINE Own(f) == f = [S \in SUBSET DOMAIN docs |->
                           IF S = {} THEN <<>> ELSE Overwrite(f[S \ {Max(S)}], docs[Max(S)])]
           g == CHOOSE f : Own(f)
<1>1. ParseCobertura(docs) = g[DOMAIN docs]
  BY DEF ParseCobertura, FoldLeft, MapThenFoldSet
<1>2. \A f : Own(f) <=> Folds("Overwrite", {}, <<>>, docs, DOMAIN docs, f)
  BY DEF Folds, Turn
<1>3. \E f : Folds("Overwrite", {}, <<>>, docs, DOMAIN docs, f)
  BY LoopOf
<1>4. Own(g)
  BY <1>2, <1>3
<1>5. Folds("Overwrite", {}, <<>>, docs, DOMAIN docs, g)
  BY <1>2, <1>4
<1> HIDE DEF g
<1> QED
  BY <1>1, <1>5, LoopOf

\* The files of a JaCoCo document.
LEMMA JacocoDocumentGoes ==
  ASSUME NEW files, NEW doc, IsList(doc)
  PROVE  \E h : Goes("KeepFirst", {}, files, doc, h) /\ JacocoDocument(files, doc) = h[Len(doc)]
PROOF
<1> DEFINE Own(f) == f = [S \in SUBSET DOMAIN doc |->
                           IF S = {} THEN files ELSE KeepFirst(f[S \ {Max(S)}], doc[Max(S)])]
           g == CHOOSE f : Own(f)
<1>1. JacocoDocument(files, doc) = g[DOMAIN doc]
  BY DEF JacocoDocument, FoldLeft, MapThenFoldSet
<1>2. \A f : Own(f) <=> Folds("KeepFirst", {}, files, doc, DOMAIN doc, f)
  BY DEF Folds, Turn
<1>3. \E f : Folds("KeepFirst", {}, files, doc, DOMAIN doc, f)
  BY LoopOf
<1>4. Own(g)
  BY <1>2, <1>3
<1>5. Folds("KeepFirst", {}, files, doc, DOMAIN doc, g)
  BY <1>2, <1>4
<1> HIDE DEF g
<1> QED
  BY <1>1, <1>5, LoopOf

\* Its documents.
LEMMA JacocoGoes ==
  ASSUME NEW docs, IsList(docs)
  PROVE  \E h : Goes("JacocoDocument", {}, <<>>, docs, h) /\ ParseJacoco(docs) = h[Len(docs)]
PROOF
<1> DEFINE Own(f) == f = [S \in SUBSET DOMAIN docs |->
                           IF S = {} THEN <<>> ELSE JacocoDocument(f[S \ {Max(S)}], docs[Max(S)])]
           g == CHOOSE f : Own(f)
<1>1. ParseJacoco(docs) = g[DOMAIN docs]
  BY DEF ParseJacoco, FoldLeft, MapThenFoldSet
<1>2. \A f : Own(f) <=> Folds("JacocoDocument", {}, <<>>, docs, DOMAIN docs, f)
  BY DEF Folds, Turn
<1>3. \E f : Folds("JacocoDocument", {}, <<>>, docs, DOMAIN docs, f)
  BY LoopOf
<1>4. Own(g)
  BY <1>2, <1>3
<1>5. Folds("JacocoDocument", {}, <<>>, docs, DOMAIN docs, g)
  BY <1>2, <1>4
<1> HIDE DEF g
<1> QED
  BY <1>1, <1>5, LoopOf

\* The records of an LCOV file.
LEMMA LcovGoes ==
  ASSUME NEW records, IsList(records)
  PROVE  \E h : Goes("LcovRecord", {}, [open |-> NoBlock, files |-> <<>>], records, h) /\ LcovRead(records) = h[Len(records)]
PROOF
<1> DEFINE Own(f) == f = [S \in SUBSET DOMAIN records |->
                           IF S = {} THEN [open |-> NoBlock, files |-> <<>>] ELSE LcovRecord(f[S \ {Max(S)}], records[Max(S)])]
           g == CHOOSE f : Own(f)
<1>1. LcovRead(records) = g[DOMAIN records]
  BY DEF LcovRead, FoldLeft, MapThenFoldSet
<1>2. \A f : Own(f) <=> Folds("LcovRecord", {}, [open |-> NoBlock, files |-> <<>>], records, DOMAIN records, f)
  BY DEF Folds, Turn
<1>3. \E f : Folds("LcovRecord", {}, [open |-> NoBlock, files |-> <<>>], records, DOMAIN records, f)
  BY LoopOf
<1>4. Own(g)
  BY <1>2, <1>3
<1>5. Folds("LcovRecord", {}, [open |-> NoBlock, files |-> <<>>], records, DOMAIN records, g)
  BY <1>2, <1>4
<1> HIDE DEF g
<1> QED
  BY <1>1, <1>5, LoopOf

\* The files that are on disk.
LEMMA SurvivingGoes ==
  ASSUME NEW run, run.engine \in ChecksDisk, NEW files, IsList(files)
  PROVE  \E h : Goes("OnDisk", tree, <<>>, files, h) /\ Surviving(run, files) = h[Len(files)]
PROOF
<1> DEFINE Own(f) == f = [S \in SUBSET DOMAIN files |->
                           IF S = {} THEN <<>> ELSE OnDisk(f[S \ {Max(S)}], files[Max(S)])]
           g == CHOOSE f : Own(f)
<1>1. Surviving(run, files) = g[DOMAIN files]
  BY DEF Surviving, FoldLeft, MapThenFoldSet
<1>2. \A f : Own(f) <=> Folds("OnDisk", tree, <<>>, files, DOMAIN files, f)
  BY DEF Folds, Turn, OnDisk
<1>3. \E f : Folds("OnDisk", tree, <<>>, files, DOMAIN files, f)
  BY LoopOf
<1>4. Own(g)
  BY <1>2, <1>3
<1>5. Folds("OnDisk", tree, <<>>, files, DOMAIN files, g)
  BY <1>2, <1>4
<1> HIDE DEF g
<1> QED
  BY <1>1, <1>5, LoopOf

(***************************************************************************)
(* Lists                                                                   *)
(***************************************************************************)

LEMMA ListsAre ==
  ASSUME NEW s, IsList(s)
  PROVE  Len(s) \in Nat /\ DOMAIN s = 1..Len(s) /\ s \in [1..Len(s) -> Range(s)]
BY DEF IsList

LEMMA OverItsRange ==
  ASSUME NEW S, NEW s \in Seq(S)
  PROVE  IsList(s)
PROOF
<1>1. Len(s) \in Nat /\ s \in [1..Len(s) -> S] /\ DOMAIN s = 1..Len(s)
  OBVIOUS
<1>2. \A i \in 1..Len(s) : s[i] \in Range(s)
  BY <1>1 DEF Range
<1>3. s \in [1..Len(s) -> Range(s)]
  BY <1>1, <1>2
<1> QED
  BY <1>1, <1>3, SeqDef DEF IsList

LEMMA FunctionsAreLists ==
  ASSUME NEW n \in Nat, NEW s, s = [i \in 1..n |-> s[i]]
  PROVE  IsList(s)
PROOF
<1>1. \A i \in 1..n : s[i] \in Range(s)
  <2> TAKE i \in 1..n
  <2>1. DOMAIN s = 1..n
    OBVIOUS
  <2> QED
    BY <2>1 DEF Range
<1>2. s \in [1..n -> Range(s)]
  BY <1>1
<1> QED
  BY <1>2, SeqDef DEF IsList

LEMMA AppendIs ==
  ASSUME NEW s, IsList(s), NEW x
  PROVE  IsList(Append(s, x)) /\ Range(Append(s, x)) = Range(s) \cup {x}
PROOF
<1>1. Len(s) \in Nat /\ DOMAIN s = 1..Len(s) /\ s \in Seq(Range(s) \cup {x})
  BY ListsAre, SeqMonotonic DEF IsList
<1>2. /\ Append(s, x) \in Seq(Range(s) \cup {x})
      /\ Len(Append(s, x)) = Len(s) + 1
      /\ DOMAIN Append(s, x) = 1..(Len(s) + 1)
      /\ Append(s, x)[Len(s) + 1] = x
      /\ \A i \in DOMAIN s : Append(s, x)[i] = s[i]
  BY <1>1
<1>4. IsList(Append(s, x))
  BY <1>2, OverItsRange
<1>5. ASSUME NEW i \in 1..(Len(s) + 1) PROVE i \in DOMAIN s \/ i = Len(s) + 1
  BY <1>1
<1>6. ASSUME NEW y \in Range(Append(s, x)) PROVE y \in Range(s) \cup {x}
  BY <1>1, <1>2, <1>5 DEF Range
<1>7. ASSUME NEW y \in Range(s) \cup {x} PROVE y \in Range(Append(s, x))
  <2>1. Len(s) + 1 \in DOMAIN Append(s, x) /\ DOMAIN s \subseteq DOMAIN Append(s, x)
    BY <1>1, <1>2
  <2>2. CASE y = x
    BY <1>2, <2>1, <2>2 DEF Range
  <2>3. CASE y \in Range(s)
    <3>1. PICK i \in DOMAIN s : y = s[i]
      BY <2>3 DEF Range
    <3>2. i \in DOMAIN Append(s, x) /\ Append(s, x)[i] = y
      BY <1>2, <2>1, <3>1
    <3> QED
      BY <3>2 DEF Range
  <2> QED
    BY <2>2, <2>3
<1> QED
  BY <1>4, <1>6, <1>7

LEMMA PathsAre ==
  ASSUME NEW files, NEW p
  PROVE  p \in Paths(files) <=> \E f \in Range(files) : f.path = p
BY DEF Paths, Range

\* Put leaves one file of that path, and the others as they were.
LEMMA PutIs ==
  ASSUME NEW files, IsList(files), NEW f
  PROVE  /\ IsList(Put(files, f))
         /\ f \in Range(Put(files, f))
         /\ \A g \in Range(Put(files, f)) : g = f \/ (g \in Range(files) /\ g.path # f.path)
         /\ \A g \in Range(files) : g.path # f.path => g \in Range(Put(files, f))
PROOF
<1>1. CASE f.path \notin Paths(files)
  <2>1. Put(files, f) = Append(files, f)
    BY <1>1 DEF Put
  <2>2. \A g \in Range(files) : g.path # f.path
    BY <1>1, PathsAre
  <2> QED
    BY <2>1, <2>2, AppendIs
<1>2. CASE f.path \in Paths(files)
  <2> DEFINE new == [i \in DOMAIN files |-> IF files[i].path = f.path THEN f ELSE files[i]]
  <2>1. Put(files, f) = new
    BY <1>2 DEF Put
  <2>2. Len(files) \in Nat /\ DOMAIN files = 1..Len(files)
    BY ListsAre
  <2>3. DOMAIN new = DOMAIN files /\ \A i \in DOMAIN files : new[i] = IF files[i].path = f.path THEN f ELSE files[i]
    OBVIOUS
  <2>4. new = [i \in 1..Len(files) |-> new[i]]
    BY <2>2
  <2> HIDE DEF new
  <2>5. IsList(new)
    BY <2>2, <2>4, FunctionsAreLists
  <2>6. PICK i \in DOMAIN files : files[i].path = f.path
    BY <1>2 DEF Paths
  <2>7. f \in Range(new)
    BY <2>3, <2>6 DEF Range
  <2>8. \A g \in Range(new) : g = f \/ (g \in Range(files) /\ g.path # f.path)
    BY <2>3 DEF Range
  <2>9. \A g \in Range(files) : g.path # f.path => g \in Range(new)
    BY <2>3 DEF Range
  <2> QED
    BY <2>1, <2>5, <2>7, <2>8, <2>9
<1> QED
  BY <1>1, <1>2

(***************************************************************************)
(* JaCoCo                                                                  *)
(***************************************************************************)

\* A list of the files of some of the entries.
FilesOf(E, files) == IsList(files) /\ \A f \in Range(files) : \E e \in E : f = JacocoFile(e)

LEMMA EmptyIsList == IsList(<<>>) /\ Range(<<>>) = {}
PROOF
<1>1. <<>> \in Seq({}) /\ DOMAIN <<>> = {}
  OBVIOUS
<1>2. Range(<<>>) = {}
  BY <1>1 DEF Range
<1> QED
  BY <1>1, <1>2 DEF IsList

LEMMA JacocoDocumentIs ==
  ASSUME NEW E, NEW files, FilesOf(E, files), NEW doc, IsList(doc), Range(doc) \subseteq E
  PROVE  FilesOf(E, JacocoDocument(files, doc))
PROOF
<1>1. PICK h : Goes("KeepFirst", {}, files, doc, h) /\ JacocoDocument(files, doc) = h[Len(doc)]
  BY JacocoDocumentGoes
<1>2. Len(doc) \in Nat /\ \A k \in 0..(Len(doc) - 1) : doc[k + 1] \in E
  <2>1. Len(doc) \in Nat /\ DOMAIN doc = 1..Len(doc)
    BY ListsAre
  <2>2. \A k \in 0..(Len(doc) - 1) : k + 1 \in DOMAIN doc
    BY <2>1
  <2> QED
    BY <2>1, <2>2 DEF Range
<1> DEFINE P == {k \in 0..Len(doc) : FilesOf(E, h[k])}
<1>3. 0 \in P
  BY <1>1, <1>2 DEF Goes
<1>4. ASSUME NEW k \in 0..(Len(doc) - 1), k \in P PROVE k + 1 \in P
  <2>1. h[k + 1] = KeepFirst(h[k], doc[k + 1])
    BY <1>1 DEF Goes, Turn
  <2>2. FilesOf(E, h[k]) /\ doc[k + 1] \in E /\ k + 1 \in 0..Len(doc)
    BY <1>2, <1>4
  <2>3. FilesOf(E, Append(h[k], JacocoFile(doc[k + 1])))
    BY <2>2, AppendIs DEF FilesOf
  <2> QED
    BY <2>1, <2>2, <2>3 DEF KeepFirst
<1> HIDE DEF P
<1>5. \A k \in 0..Len(doc) : k \in P
  BY <1>2, <1>3, <1>4, UpTo
<1>6. Len(doc) \in P
  BY <1>2, <1>5
<1> QED
  BY <1>1, <1>6 DEF P

\* Every file of a JaCoCo report is that of one of its entries.
LEMMA JacocoIs ==
  ASSUME NEW docs, IsList(docs), \A doc \in Range(docs) : IsList(doc)
  PROVE  FilesOf(UNION {Range(doc) : doc \in Range(docs)}, ParseJacoco(docs))
PROOF
<1> DEFINE E == UNION {Range(doc) : doc \in Range(docs)}
<1>1. PICK h : Goes("JacocoDocument", {}, <<>>, docs, h) /\ ParseJacoco(docs) = h[Len(docs)]
  BY JacocoGoes
<1>2. Len(docs) \in Nat /\ \A k \in 0..(Len(docs) - 1) : docs[k + 1] \in Range(docs)
  <2>1. Len(docs) \in Nat /\ DOMAIN docs = 1..Len(docs)
    BY ListsAre
  <2>2. \A k \in 0..(Len(docs) - 1) : k + 1 \in DOMAIN docs
    BY <2>1
  <2> QED
    BY <2>1, <2>2 DEF Range
<1> DEFINE P == {k \in 0..Len(docs) : FilesOf(E, h[k])}
<1>3. 0 \in P
  BY <1>1, <1>2, EmptyIsList DEF Goes, FilesOf
<1>4. ASSUME NEW k \in 0..(Len(docs) - 1), k \in P PROVE k + 1 \in P
  <2>1. h[k + 1] = JacocoDocument(h[k], docs[k + 1])
    BY <1>1 DEF Goes, Turn
  <2>2. FilesOf(E, h[k]) /\ docs[k + 1] \in Range(docs) /\ k + 1 \in 0..Len(docs)
    BY <1>2, <1>4
  <2>3. Range(docs[k + 1]) \subseteq E /\ IsList(docs[k + 1])
    BY <2>2
  <2> QED
    BY <2>1, <2>2, <2>3, JacocoDocumentIs
<1> HIDE DEF P
<1>5. \A k \in 0..Len(docs) : k \in P
  BY <1>2, <1>3, <1>4, UpTo
<1>6. Len(docs) \in P
  BY <1>2, <1>5
<1> QED
  BY <1>1, <1>6 DEF P

(***************************************************************************)
(* Files whose lines are decided                                           *)
(***************************************************************************)

LEMMA ImageIs ==
  ASSUME NEW S, IsFiniteSet(S), NEW f, DOMAIN f = S
  PROVE  LET T == {f[x] : x \in S}
         IN  IsFiniteSet(T) /\ Cardinality(T) <= Cardinality(S)
PROOF
<1> DEFINE T == {f[x] : x \in S}
           g == [x \in S |-> f[x]]
<1>1. g \in Surjection(S, T)
  BY DEF Surjection
<1> HIDE DEF T, g
<1>2. IsFiniteSet(T) /\ Cardinality(T) <= Cardinality(S)
  BY <1>1, FS_Surjection
<1> QED
  BY <1>2 DEF T

\* Executed lines and missing ones, which are both counted.
LineFile(f) ==
  /\ f = ByLines(f.path, f.exec, f.miss)
  /\ IsFiniteSet(f.exec) /\ IsFiniteSet(f.miss) /\ f.exec \cup f.miss \subseteq Nat

LEMMA LineFileIs ==
  ASSUME NEW path, NEW exec, NEW miss, IsFiniteSet(exec), IsFiniteSet(miss),
         exec \cup miss \subseteq Nat
  PROVE  /\ LineFile(ByLines(path, exec, miss))
         /\ ByLines(path, exec, miss).path = path
         /\ ByLines(path, exec, miss).exec = exec
         /\ ByLines(path, exec, miss).miss = miss
BY DEF LineFile, ByLines, FileFacts

LEMMA LineFileCounts ==
  ASSUME NEW f, LineFile(f)
  PROVE  f.stmts = Cardinality(f.exec \cup f.miss) + Cardinality(f.exec \cap f.miss)
PROOF
<1>1. f.stmts = Cardinality(f.exec) + Cardinality(f.miss)
  <2>1. ByLines(f.path, f.exec, f.miss).stmts = Cardinality(f.exec) + Cardinality(f.miss)
    BY DEF ByLines, FileFacts
  <2> QED
    BY <2>1 DEF LineFile
<1>2. Cardinality(f.exec \cup f.miss) =
        Cardinality(f.exec) + Cardinality(f.miss) - Cardinality(f.exec \cap f.miss)
  BY FS_Union DEF LineFile
<1>3. IsFiniteSet(f.exec \cap f.miss) /\ IsFiniteSet(f.exec \cup f.miss)
  BY FS_Union, FS_Intersection DEF LineFile
<1>4. /\ Cardinality(f.exec) \in Nat /\ Cardinality(f.miss) \in Nat
      /\ Cardinality(f.exec \cap f.miss) \in Nat /\ Cardinality(f.exec \cup f.miss) \in Nat
  BY <1>3, FS_CardinalityType DEF LineFile
<1> QED
  BY <1>1, <1>2, <1>4

LEMMA JacocoFileIs ==
  ASSUME NEW e, EntryIsTyped("junit", e)
  PROVE  /\ LineFile(JacocoFile(e)) /\ JacocoFile(e).path = e.path
         /\ JacocoFile(e).exec \cap JacocoFile(e).miss = {}
PROOF
<1> DEFINE hit == {x \in e.lines : x.ci > 0}
           missed == {x \in e.lines : x.ci = 0 /\ x.mi > 0}
           nr == [x \in e.lines |-> x.nr]
           exec == {l.nr : l \in hit}
           miss == {l.nr : l \in missed}
<1>1. /\ IsFiniteSet(e.lines) /\ \A l \in e.lines : l.nr \in Nat /\ l.ci \in Nat /\ l.mi \in Nat
      /\ \A l, m \in e.lines : l.nr = m.nr => l = m
  BY DEF EntryIsTyped
<1>2. IsFiniteSet({l.nr : l \in e.lines})
  <2>1. {nr[x] : x \in e.lines} = {l.nr : l \in e.lines} /\ DOMAIN nr = e.lines
    OBVIOUS
  <2> HIDE DEF nr
  <2>2. IsFiniteSet({nr[x] : x \in e.lines})
    BY <1>1, <2>1, ImageIs
  <2> QED
    BY <2>1, <2>2
<1>3. exec \subseteq {l.nr : l \in e.lines} /\ miss \subseteq {l.nr : l \in e.lines}
  OBVIOUS
<1>4. IsFiniteSet(exec) /\ IsFiniteSet(miss)
  <2> HIDE DEF exec, miss
  <2> QED
    BY <1>2, <1>3, FS_Subset
<1>5. exec \cap miss = {} /\ exec \cup miss \subseteq Nat
  BY <1>1
<1>6. JacocoFile(e) = ByLines(e.path, exec, miss)
  BY DEF JacocoFile
<1> HIDE DEF exec, miss
<1> QED
  BY <1>4, <1>5, <1>6, LineFileIs

LEMMA CoberturaClassIs ==
  ASSUME NEW e, EntryIsTyped("xunit", e)
  PROVE  LineFile(CoberturaClass(e)) /\ CoberturaClass(e).path = e.path
PROOF
<1> DEFINE nr == [x \in e.lines |-> x[1]]
           exec == {l[1] : l \in {x \in e.lines : x[2] > 0}}
           miss == {l[1] : l \in {x \in e.lines : x[2] = 0}}
<1>1. IsFiniteSet(e.lines) /\ \A l \in e.lines : l[1] \in Nat /\ l[2] \in Nat
  BY DEF EntryIsTyped
<1>2. IsFiniteSet({l[1] : l \in e.lines})
  <2>1. {nr[x] : x \in e.lines} = {l[1] : l \in e.lines} /\ DOMAIN nr = e.lines
    OBVIOUS
  <2> HIDE DEF nr
  <2>2. IsFiniteSet({nr[x] : x \in e.lines})
    BY <1>1, <2>1, ImageIs
  <2> QED
    BY <2>1, <2>2
<1>3. exec \subseteq {l[1] : l \in e.lines} /\ miss \subseteq {l[1] : l \in e.lines}
  OBVIOUS
<1>4. IsFiniteSet(exec) /\ IsFiniteSet(miss)
  <2> HIDE DEF exec, miss
  <2> QED
    BY <1>2, <1>3, FS_Subset
<1>5. exec \cup miss \subseteq Nat
  BY <1>1
<1>6. CoberturaClass(e) = ByLines(e.path, exec, miss)
  BY DEF CoberturaClass
<1> HIDE DEF exec, miss
<1> QED
  BY <1>4, <1>5, <1>6, LineFileIs

LEMMA MergeFileIs ==
  ASSUME NEW f, LineFile(f), NEW g, LineFile(g)
  PROVE  /\ LineFile(MergeFile(f, g))
         /\ MergeFile(f, g).path = f.path
         /\ MergeFile(f, g).exec = f.exec \cup g.exec
         /\ MergeFile(f, g).exec \cap MergeFile(f, g).miss = {}
PROOF
<1> DEFINE exec == f.exec \cup g.exec
           miss == (f.miss \cup g.miss) \ exec
<1>1. IsFiniteSet(exec) /\ IsFiniteSet(f.miss \cup g.miss)
  BY FS_Union DEF LineFile
<1>2. miss \subseteq f.miss \cup g.miss
  OBVIOUS
<1>3. IsFiniteSet(miss)
  <2> HIDE DEF miss
  <2> QED
    BY <1>1, <1>2, FS_Subset
<1>4. exec \cap miss = {} /\ exec \cup miss \subseteq Nat
  BY DEF LineFile
<1>5. MergeFile(f, g) = ByLines(f.path, exec, miss)
  BY DEF MergeFile
<1> HIDE DEF exec, miss
<1>6. /\ LineFile(MergeFile(f, g)) /\ MergeFile(f, g).path = f.path
      /\ MergeFile(f, g).exec = exec /\ MergeFile(f, g).miss = miss
  BY <1>1, <1>3, <1>4, <1>5, LineFileIs
<1> QED
  BY <1>4, <1>6 DEF exec

(***************************************************************************)
(* Cobertura                                                               *)
(***************************************************************************)

\* What the first k classes of a document have come to.
\* A file is at odds with itself only as the one class it was read from.
Alone(doc, f, k) == \E i \in 1..k :
  f = CoberturaClass(doc[i]) /\ \A j \in 1..k : doc[j].path = f.path => j = i

Merged(doc, files, k) ==
  /\ IsList(files) /\ \A f \in Range(files) : LineFile(f)
  /\ \A f \in Range(files) : f.exec \cap f.miss = {} \/ Alone(doc, f, k)
  /\ \A i \in 1..k :
       /\ doc[i].path \in Paths(files)
       /\ \A f \in Range(files) : f.path = doc[i].path => CoberturaClass(doc[i]).exec \subseteq f.exec

LEMMA PutClassMerges ==
  ASSUME NEW doc, NEW k \in Nat, NEW files, Merged(doc, files, k), EntryIsTyped("xunit", doc[k + 1])
  PROVE  Merged(doc, PutClass(files, doc[k + 1]), k + 1)
PROOF
<1> DEFINE f == CoberturaClass(doc[k + 1])
           new == PutClass(files, doc[k + 1])
<1>1. LineFile(f) /\ f.path = doc[k + 1].path
  BY CoberturaClassIs
<1>2. IsList(files) /\ (\A g \in Range(files) : LineFile(g))
  BY DEF Merged
<1>3. ASSUME NEW i \in 1..(k + 1) PROVE i \in 1..k \/ i = k + 1
  OBVIOUS
<1>4. ASSUME NEW g \in Range(files), g.path # f.path
      PROVE  g.exec \cap g.miss = {} \/ Alone(doc, g, k + 1)
  <2>1. CASE g.exec \cap g.miss = {}
    BY <2>1
  <2>2. CASE Alone(doc, g, k)
    <3>1. PICK i \in 1..k : g = CoberturaClass(doc[i]) /\ \A j \in 1..k : doc[j].path = g.path => j = i
      BY <2>2 DEF Alone
    <3>2. \A j \in 1..(k + 1) : doc[j].path = g.path => j = i
      BY <1>1, <1>3, <1>4, <3>1
    <3>3. i \in 1..(k + 1)
      BY <3>1
    <3> QED
      BY <3>1, <3>2, <3>3 DEF Alone
  <2> QED
    BY <2>1, <2>2 DEF Merged
<1>5. CASE f.path \notin Paths(files)
  <2>1. new = Append(files, f)
    BY <1>5 DEF PutClass
  <2> HIDE DEF f, new
  <2>2. IsList(new) /\ Range(new) = Range(files) \cup {f}
    BY <1>2, <2>1, AppendIs
  <2>3. \A g \in Range(new) : LineFile(g)
    BY <1>1, <1>2, <2>2
  <2>4. Alone(doc, f, k + 1)
    <3>1. \A j \in 1..k : doc[j].path # f.path
      BY <1>5 DEF Merged
    <3>2. \A j \in 1..(k + 1) : doc[j].path = f.path => j = k + 1
      BY <1>3, <3>1
    <3>3. k + 1 \in 1..(k + 1)
      OBVIOUS
    <3> QED
      BY <3>2, <3>3 DEF Alone, f
  <2>5. \A g \in Range(new) : g.exec \cap g.miss = {} \/ Alone(doc, g, k + 1)
    <3>1. \A g \in Range(files) : g.path # f.path
      BY <1>5, PathsAre
    <3> QED
      BY <1>4, <2>2, <2>4, <3>1
  <2>6. ASSUME NEW i \in 1..(k + 1)
        PROVE  /\ doc[i].path \in Paths(new)
               /\ \A g \in Range(new) : g.path = doc[i].path => CoberturaClass(doc[i]).exec \subseteq g.exec
    <3>1. CASE i \in 1..k
      <4>1. doc[i].path \in Paths(files) /\ doc[i].path # f.path
        BY <1>5, <3>1 DEF Merged
      <4>2. doc[i].path \in Paths(new)
        BY <2>2, <4>1, PathsAre
      <4>3. \A g \in Range(new) : g.path = doc[i].path => g \in Range(files)
        BY <2>2, <4>1
      <4> QED
        BY <3>1, <4>2, <4>3 DEF Merged
    <3>2. CASE i = k + 1
      <4>1. doc[i].path \in Paths(new)
        BY <1>1, <2>2, <3>2, PathsAre
      <4>2. \A g \in Range(new) : g.path = doc[i].path => g = f
        BY <1>1, <1>5, <2>2, <3>2, PathsAre
      <4> QED
        BY <3>2, <4>1, <4>2 DEF f
    <3> QED
      BY <1>3, <3>1, <3>2
  <2> QED
    BY <2>2, <2>3, <2>6, <2>5 DEF Merged, new
<1>6. CASE f.path \in Paths(files)
  <2> DEFINE x == CHOOSE y \in Range(files) : y.path = f.path
             m == MergeFile(x, f)
  <2>1. new = Put(files, m)
    BY <1>6 DEF PutClass
  <2>2. x \in Range(files) /\ x.path = f.path
    BY <1>6, PathsAre
  <2> HIDE DEF f, new, x
  <2>3. LineFile(m) /\ m.path = f.path /\ m.exec = x.exec \cup f.exec /\ m.exec \cap m.miss = {}
    BY <1>1, <1>2, <2>2, MergeFileIs
  <2> HIDE DEF m
  <2>4. /\ IsList(new) /\ m \in Range(new)
        /\ \A g \in Range(new) : g = m \/ (g \in Range(files) /\ g.path # m.path)
        /\ \A g \in Range(files) : g.path # m.path => g \in Range(new)
    BY <1>2, <2>1, PutIs
  <2>5. \A g \in Range(new) : LineFile(g)
    BY <1>2, <2>3, <2>4
  <2>6. \A g \in Range(new) : g.exec \cap g.miss = {} \/ Alone(doc, g, k + 1)
    BY <1>4, <2>3, <2>4
  <2>7. \A p : p \in Paths(files) => p \in Paths(new)
    BY <2>2, <2>3, <2>4, PathsAre
  <2>8. ASSUME NEW i \in 1..(k + 1)
        PROVE  /\ doc[i].path \in Paths(new)
               /\ \A g \in Range(new) : g.path = doc[i].path => CoberturaClass(doc[i]).exec \subseteq g.exec
    <3>1. CASE i \in 1..k
      <4>1. doc[i].path \in Paths(files)
        BY <3>1 DEF Merged
      <4>2. \A g \in Range(files) : g.path = doc[i].path => CoberturaClass(doc[i]).exec \subseteq g.exec
        BY <3>1 DEF Merged
      <4>3. m.path = doc[i].path => CoberturaClass(doc[i]).exec \subseteq m.exec
        BY <2>2, <2>3, <4>2
      <4> QED
        BY <2>4, <2>7, <4>1, <4>2, <4>3
    <3>2. CASE i = k + 1
      <4>1. doc[i].path \in Paths(new)
        BY <1>1, <1>6, <2>7, <3>2
      <4>2. \A g \in Range(new) : g.path = doc[i].path => g = m
        BY <1>1, <2>3, <2>4, <3>2
      <4>3. CoberturaClass(doc[i]).exec \subseteq m.exec
        BY <2>3, <3>2 DEF f
      <4> QED
        BY <4>1, <4>2, <4>3
    <3> QED
      BY <1>3, <3>1, <3>2
  <2> QED
    BY <2>4, <2>5, <2>8, <2>6 DEF Merged, new
<1> QED
  BY <1>5, <1>6

\* What a document has come to: no line that a class of a file ran is missing.
LEMMA DocumentIs ==
  ASSUME NEW doc, IsList(doc), \A e \in Range(doc) : EntryIsTyped("xunit", e)
  PROVE  Merged(doc, CoberturaDocument(doc), Len(doc))
PROOF
<1>1. PICK h : Goes("PutClass", {}, <<>>, doc, h) /\ CoberturaDocument(doc) = h[Len(doc)]
  BY DocumentGoes
<1>2. Len(doc) \in Nat /\ \A k \in 0..(Len(doc) - 1) : EntryIsTyped("xunit", doc[k + 1])
  <2>1. Len(doc) \in Nat /\ DOMAIN doc = 1..Len(doc)
    BY ListsAre
  <2>2. \A k \in 0..(Len(doc) - 1) : k + 1 \in DOMAIN doc
    BY <2>1
  <2>3. \A k \in 0..(Len(doc) - 1) : doc[k + 1] \in Range(doc)
    BY <2>2 DEF Range
  <2> QED
    BY <2>1, <2>3
<1> DEFINE P == {k \in 0..Len(doc) : Merged(doc, h[k], k)}
<1>3. 0 \in P
  <2>1. 1..0 = {} /\ 0 \in 0..Len(doc)
    BY <1>2
  <2> QED
    BY <1>1, <2>1, EmptyIsList DEF Goes, Merged
<1>4. ASSUME NEW k \in 0..(Len(doc) - 1), k \in P PROVE k + 1 \in P
  <2>1. h[k + 1] = PutClass(h[k], doc[k + 1])
    BY <1>1 DEF Goes, Turn
  <2>2. Merged(doc, h[k], k) /\ EntryIsTyped("xunit", doc[k + 1]) /\ k \in Nat /\ k + 1 \in 0..Len(doc)
    BY <1>2, <1>4
  <2> QED
    BY <2>1, <2>2, PutClassMerges
<1> HIDE DEF P
<1>5. \A k \in 0..Len(doc) : k \in P
  BY <1>2, <1>3, <1>4, UpTo
<1>6. Len(doc) \in P
  BY <1>2, <1>5
<1> QED
  BY <1>1, <1>6 DEF P

\* A list of some of the files of G.
Among(G, files) == IsList(files) /\ Range(files) \subseteq G

LEMMA OverwriteIs ==
  ASSUME NEW G, NEW files, Among(G, files), NEW doc, Among(G, CoberturaDocument(doc))
  PROVE  Among(G, Overwrite(files, doc))
PROOF
<1> DEFINE news == CoberturaDocument(doc)
<1>1. PICK h : Goes("Put", {}, files, news, h) /\ Overwrite(files, doc) = h[Len(news)]
  BY OverwriteGoes DEF Among
<1> HIDE DEF news
<1>2. Len(news) \in Nat /\ \A k \in 0..(Len(news) - 1) : news[k + 1] \in G
  <2>1. Len(news) \in Nat /\ DOMAIN news = 1..Len(news)
    BY ListsAre DEF Among, news
  <2>2. \A k \in 0..(Len(news) - 1) : k + 1 \in DOMAIN news
    BY <2>1
  <2>3. \A k \in 0..(Len(news) - 1) : news[k + 1] \in Range(news)
    BY <2>2 DEF Range
  <2> QED
    BY <2>1, <2>3 DEF Among, news
<1> DEFINE P == {k \in 0..Len(news) : Among(G, h[k])}
<1>3. 0 \in P
  BY <1>1, <1>2 DEF Goes
<1>4. ASSUME NEW k \in 0..(Len(news) - 1), k \in P PROVE k + 1 \in P
  <2>1. h[k + 1] = Put(h[k], news[k + 1])
    BY <1>1 DEF Goes, Turn
  <2>2. Among(G, h[k]) /\ news[k + 1] \in G /\ k + 1 \in 0..Len(news)
    BY <1>2, <1>4
  <2>3. Among(G, Put(h[k], news[k + 1]))
    BY <2>2, PutIs DEF Among
  <2> QED
    BY <2>1, <2>2, <2>3
<1> HIDE DEF P
<1>5. \A k \in 0..Len(news) : k \in P
  BY <1>2, <1>3, <1>4, UpTo
<1>6. Len(news) \in P
  BY <1>2, <1>5
<1> QED
  BY <1>1, <1>6 DEF P

\* Every file of a Cobertura report is one that one of its documents has come to.
LEMMA CoberturaIs ==
  ASSUME NEW docs, IsList(docs),
         \A doc \in Range(docs) : IsList(doc) /\ \A e \in Range(doc) : EntryIsTyped("xunit", e)
  PROVE  Among(UNION {Range(CoberturaDocument(doc)) : doc \in Range(docs)}, ParseCobertura(docs))
PROOF
<1> DEFINE G == UNION {Range(CoberturaDocument(doc)) : doc \in Range(docs)}
<1>1. PICK h : Goes("Overwrite", {}, <<>>, docs, h) /\ ParseCobertura(docs) = h[Len(docs)]
  BY CoberturaGoes
<1>2. Len(docs) \in Nat /\ \A k \in 0..(Len(docs) - 1) : docs[k + 1] \in Range(docs)
  <2>1. Len(docs) \in Nat /\ DOMAIN docs = 1..Len(docs)
    BY ListsAre
  <2>2. \A k \in 0..(Len(docs) - 1) : k + 1 \in DOMAIN docs
    BY <2>1
  <2> QED
    BY <2>1, <2>2 DEF Range
<1> DEFINE P == {k \in 0..Len(docs) : Among(G, h[k])}
<1>3. 0 \in P
  BY <1>1, <1>2, EmptyIsList DEF Goes, Among
<1>4. ASSUME NEW k \in 0..(Len(docs) - 1), k \in P PROVE k + 1 \in P
  <2>1. h[k + 1] = Overwrite(h[k], docs[k + 1])
    BY <1>1 DEF Goes, Turn
  <2>2. Among(G, h[k]) /\ docs[k + 1] \in Range(docs) /\ k + 1 \in 0..Len(docs)
    BY <1>2, <1>4
  <2>3. IsList(CoberturaDocument(docs[k + 1]))
    BY <2>2, DocumentIs DEF Merged
  <2>4. Among(G, CoberturaDocument(docs[k + 1]))
    BY <2>2, <2>3 DEF Among
  <2> HIDE DEF G
  <2> QED
    BY <2>1, <2>2, <2>4, OverwriteIs
<1> HIDE DEF P
<1>5. \A k \in 0..Len(docs) : k \in P
  BY <1>2, <1>3, <1>4, UpTo
<1>6. Len(docs) \in P
  BY <1>2, <1>5
<1> QED
  BY <1>1, <1>6 DEF P

(***************************************************************************)
(* LCOV                                                                    *)
(***************************************************************************)

\* What LinesAreDecided wants of a file whose statements are its lines.
Decided(f) ==
  LET both == f.exec \cap f.miss
  IN  /\ both = {} /\ f.stmts = Cardinality(f.exec \cup f.miss) + Cardinality(both)
      /\ f.exec \cup f.miss \subseteq Nat

Mapping(f) == f = [l \in DOMAIN f |-> f[l]]
When(n, item) == {l \in {item} : n > 0}

\* The counts of a block that was opened at a are those of its records.
Tallied(records, a, k, key, counts) ==
  /\ Mapping(counts) /\ IsFiniteSet(DOMAIN counts)
  /\ \A l \in DOMAIN counts : counts[l] \in Nat
  /\ DOMAIN counts = Items(records, Those(records, a, k, key))
  /\ HitKeys(counts) = Items(records, Hit(records, Those(records, a, k, key)))

Told(records, a, k, total, n) == \A j \in LastOf(records, a, k, total) : n = records[j].n

\* The block that was opened at a is still open after the k-th record.
Reading(records, a, k, o) ==
  /\ o = [path |-> o.path, hits |-> o.hits, arcs |-> o.arcs,
          LF |-> o.LF, LH |-> o.LH, BRF |-> o.BRF, BRH |-> o.BRH]
  /\ a \in 1..k /\ records[a].key = "SF" /\ o.path = records[a].path /\ o.path # NoBlock.path
  /\ \A j \in (a + 1)..k : records[j].key \notin {"SF", "end_of_record"}
  /\ Tallied(records, a, k, "DA", o.hits) /\ DOMAIN o.hits \subseteq Nat
  /\ Tallied(records, a, k, "BRDA", o.arcs)
  /\ Told(records, a, k, "LF", o.LF) /\ Told(records, a, k, "LH", o.LH)
  /\ Told(records, a, k, "BRF", o.BRF) /\ Told(records, a, k, "BRH", o.BRH)

\* Some file has what the block from a to b shows as hit.
Shown(records, a, b, files) ==
  \E f \in Range(files) :
    f.path = records[a].path /\ f.exec = Items(records, Hit(records, Those(records, a, b, "DA")))

\* Each block opened among the first m records is closed among the first k.
Closed(records, files, k, m) ==
  \A a \in 1..m : records[a].key = "SF" =>
    \E b \in 1..k : Block(records, a, b) /\ Totals(records, a, b) /\ Shown(records, a, b, files)

LcovInv(records, k, st) ==
  /\ st = [open |-> st.open, files |-> st.files]
  /\ st.files # Corrupt =>
       /\ IsList(st.files) /\ \A f \in Range(st.files) : Decided(f)
       /\ \/ st.open = NoBlock /\ Closed(records, st.files, k, k)
          \/ \E a \in 1..k : Reading(records, a, k, st.open) /\ Closed(records, st.files, k, a - 1)

LEMMA ClosedGrows ==
  ASSUME NEW records, NEW k \in Nat, NEW m, NEW files, Closed(records, files, k, m),
         NEW more, Range(files) \subseteq Range(more)
  PROVE  Closed(records, more, k + 1, m)
PROOF
<1>1. 1..k \subseteq 1..(k + 1)
  OBVIOUS
<1>2. \A a, b : Shown(records, a, b, files) => Shown(records, a, b, more)
  BY DEF Shown
<1> QED
  BY <1>1, <1>2 DEF Closed

\* The places up to the next, and what is among them.
LEMMA OneMoreRecord ==
  ASSUME NEW records, NEW k \in Nat, NEW a \in 1..(k + 1)
  PROVE  /\ a..(k + 1) = a..k \cup {k + 1} /\ (a + 1)..(k + 1) \subseteq (a + 1)..k \cup {k + 1}
         /\ \A key : Those(records, a, k + 1, key) =
              IF records[k + 1].key = key THEN Those(records, a, k, key) \cup {k + 1} ELSE Those(records, a, k, key)
         /\ \A key : LastOf(records, a, k + 1, key) =
              IF records[k + 1].key = key THEN {k + 1} ELSE LastOf(records, a, k, key)
PROOF
<1>1. a..(k + 1) = a..k \cup {k + 1} /\ (a + 1)..(k + 1) \subseteq (a + 1)..k \cup {k + 1}
  OBVIOUS
<1>2. \A key : Those(records, a, k + 1, key) =
        IF records[k + 1].key = key THEN Those(records, a, k, key) \cup {k + 1} ELSE Those(records, a, k, key)
  BY <1>1 DEF Those
<1>3. ASSUME NEW key
      PROVE  LastOf(records, a, k + 1, key) = IF records[k + 1].key = key THEN {k + 1} ELSE LastOf(records, a, k, key)
  <2>1. \A j \in a..k : (j + 1)..(k + 1) = (j + 1)..k \cup {k + 1}
    OBVIOUS
  <2>2. ((k + 1) + 1)..(k + 1) = {}
    OBVIOUS
  <2>3. CASE records[k + 1].key = key
    <3>1. \A j \in a..k : j \notin LastOf(records, a, k + 1, key)
      BY <2>1, <2>3 DEF LastOf
    <3>2. k + 1 \in LastOf(records, a, k + 1, key)
      BY <1>1, <2>2, <2>3 DEF LastOf
    <3>3. LastOf(records, a, k + 1, key) \subseteq a..(k + 1)
      BY DEF LastOf
    <3>4. \A j : j \in LastOf(records, a, k + 1, key) <=> j = k + 1
      BY <1>1, <3>1, <3>2, <3>3
    <3> QED
      BY <2>3, <3>4
  <2>4. CASE records[k + 1].key # key
    <3>1. k + 1 \notin LastOf(records, a, k + 1, key)
      BY <2>4 DEF LastOf
    <3>2. \A j \in a..k : j \in LastOf(records, a, k + 1, key) <=> j \in LastOf(records, a, k, key)
      BY <1>1, <2>1, <2>4 DEF LastOf
    <3>3. LastOf(records, a, k + 1, key) \subseteq a..(k + 1) /\ LastOf(records, a, k, key) \subseteq a..k
      BY DEF LastOf
    <3>4. \A j : j \in LastOf(records, a, k + 1, key) <=> j \in LastOf(records, a, k, key)
      BY <1>1, <3>1, <3>2, <3>3
    <3>5. LastOf(records, a, k + 1, key) = LastOf(records, a, k, key)
      BY <3>4
    <3> QED
      BY <2>4, <3>5
  <2> QED
    BY <2>3, <2>4
<1> QED
  BY <1>1, <1>2, <1>3

\* One more record is counted, or is none of those that are.
LEMMA CountTallies ==
  ASSUME NEW records, NEW k \in Nat, NEW a \in 1..(k + 1), NEW key, NEW old,
         Tallied(records, a, k, key, old), NEW new,
         records[k + 1].key = key =>
           /\ records[k + 1].hits \in Nat
           /\ new = Count(old, Item(records[k + 1]), records[k + 1].hits),
         records[k + 1].key # key => new = old
  PROVE  Tallied(records, a, k + 1, key, new)
PROOF
<1> DEFINE rec == records[k + 1]
           item == Item(rec)
           js == Those(records, a, k, key)
<1>1. Those(records, a, k + 1, key) = IF rec.key = key THEN js \cup {k + 1} ELSE js
  <2>1. \A q : Those(records, a, k + 1, q) =
          IF records[k + 1].key = q THEN Those(records, a, k, q) \cup {k + 1} ELSE Those(records, a, k, q)
    BY OneMoreRecord
  <2> QED
    BY <2>1
<1>2. CASE rec.key # key
  BY <1>1, <1>2 DEF Tallied
<1>3. CASE rec.key = key
  <2>1. /\ rec.hits \in Nat /\ new = Count(old, item, rec.hits)
        /\ Those(records, a, k + 1, key) = js \cup {k + 1}
    BY <1>1, <1>3
  <2>2. Items(records, js \cup {k + 1}) = Items(records, js) \cup {item}
    BY DEF Items
  <2>3. Items(records, Hit(records, js \cup {k + 1})) = Items(records, Hit(records, js)) \cup When(rec.hits, item)
    BY DEF Items, Hit, When
  <2> HIDE DEF item, js
  <2>4. \A l \in DOMAIN old : old[l] \in Nat
    BY DEF Tallied
  <2>5. DOMAIN new = DOMAIN old \cup {item} /\ Mapping(new)
    BY <2>1 DEF Count, Mapping
  <2>6. \A l \in DOMAIN new :
          new[l] = (IF l \in DOMAIN old THEN old[l] ELSE 0) + (IF l = item THEN rec.hits ELSE 0)
    BY <2>1 DEF Count
  <2> HIDE DEF rec
  <2>7. \A l \in DOMAIN new : new[l] \in Nat
    BY <2>1, <2>4, <2>6
  <2>8. \A l \in DOMAIN new : new[l] > 0 <=> (l \in DOMAIN old /\ old[l] > 0) \/ (l = item /\ rec.hits > 0)
    BY <2>1, <2>4, <2>6
  <2>9. HitKeys(new) = HitKeys(old) \cup When(rec.hits, item)
    BY <2>5, <2>8 DEF HitKeys, When
  <2>10. IsFiniteSet(DOMAIN new)
    BY <2>5, FS_AddElement DEF Tallied
  <2>11. /\ DOMAIN new = Items(records, js \cup {k + 1})
         /\ HitKeys(new) = Items(records, Hit(records, js \cup {k + 1}))
    BY <2>2, <2>3, <2>5, <2>9 DEF Tallied, js
  <2> QED
    BY <2>1, <2>5, <2>7, <2>10, <2>11 DEF Tallied
<1> QED
  BY <1>2, <1>3

\* A total is the one that was declared last.
LEMMA TotalTold ==
  ASSUME NEW records, NEW k \in Nat, NEW a \in 1..(k + 1), NEW total, NEW n, NEW m,
         Told(records, a, k, total, n),
         m = IF records[k + 1].key = total THEN records[k + 1].n ELSE n
  PROVE  Told(records, a, k + 1, total, m)
PROOF
<1>1. LastOf(records, a, k + 1, total) =
        IF records[k + 1].key = total THEN {k + 1} ELSE LastOf(records, a, k, total)
  BY OneMoreRecord
<1> QED
  BY <1>1 DEF Told

\* A record inside a block says of it what it says.
LEMMA InBlockReads ==
  ASSUME NEW records, NEW k \in Nat, NEW a, NEW o, Reading(records, a, k, o),
         EntryIsTyped("cargo-test", records[k + 1]),
         records[k + 1].key \notin {"SF", "end_of_record"}
  PROVE  Reading(records, a, k + 1, InBlock(o, records[k + 1]))
PROOF
<1> DEFINE rec == records[k + 1]
           new == InBlock(o, rec)
<1>1. /\ o = [path |-> o.path, hits |-> o.hits, arcs |-> o.arcs,
              LF |-> o.LF, LH |-> o.LH, BRF |-> o.BRF, BRH |-> o.BRH]
      /\ a \in 1..k /\ records[a].key = "SF" /\ o.path = records[a].path /\ o.path # NoBlock.path
      /\ \A j \in (a + 1)..k : records[j].key \notin {"SF", "end_of_record"}
      /\ DOMAIN o.hits \subseteq Nat
  BY DEF Reading
<1>2. /\ new = [path |-> new.path, hits |-> new.hits, arcs |-> new.arcs,
                LF |-> new.LF, LH |-> new.LH, BRF |-> new.BRF, BRH |-> new.BRH]
      /\ new.path = o.path
      /\ new.hits = IF rec.key = "DA" THEN Count(o.hits, rec.line, rec.hits) ELSE o.hits
      /\ new.arcs = IF rec.key = "BRDA" THEN Count(o.arcs, <<rec.line, rec.block, rec.branch>>, rec.hits) ELSE o.arcs
      /\ new.LF = IF rec.key = "LF" THEN rec.n ELSE o.LF
      /\ new.LH = IF rec.key = "LH" THEN rec.n ELSE o.LH
      /\ new.BRF = IF rec.key = "BRF" THEN rec.n ELSE o.BRF
      /\ new.BRH = IF rec.key = "BRH" THEN rec.n ELSE o.BRH
  <2>1. CASE rec.key = "DA"
    BY <1>1, <2>1 DEF InBlock
  <2>2. CASE rec.key = "BRDA"
    BY <1>1, <2>2 DEF InBlock
  <2>3. CASE rec.key = "LF"
    BY <1>1, <2>3 DEF InBlock
  <2>4. CASE rec.key = "LH"
    BY <1>1, <2>4 DEF InBlock
  <2>5. CASE rec.key = "BRF"
    BY <1>1, <2>5 DEF InBlock
  <2>6. CASE rec.key = "BRH"
    BY <1>1, <2>6 DEF InBlock
  <2>7. CASE rec.key \notin {"DA", "BRDA", "LF", "LH", "BRF", "BRH"}
    BY <1>1, <2>7 DEF InBlock
  <2> QED
    BY <2>1, <2>2, <2>3, <2>4, <2>5, <2>6, <2>7
<1>3. a \in 1..(k + 1)
  BY <1>1
<1>4. \A j \in (a + 1)..(k + 1) : records[j].key \notin {"SF", "end_of_record"}
  BY <1>1, <1>3, OneMoreRecord
<1>5. rec.key \in {"DA", "BRDA"} => rec.line \in Nat /\ rec.hits \in Nat
  BY DEF EntryIsTyped
<1>6. Tallied(records, a, k + 1, "DA", new.hits)
  <2>1. Tallied(records, a, k, "DA", o.hits)
    BY DEF Reading
  <2>2. rec.key = "DA" => rec.hits \in Nat /\ new.hits = Count(o.hits, Item(rec), rec.hits)
    BY <1>2, <1>5 DEF Item
  <2>3. rec.key # "DA" => new.hits = o.hits
    BY <1>2
  <2> HIDE DEF new
  <2> QED
    BY <1>3, <2>1, <2>2, <2>3, CountTallies
<1>7. Tallied(records, a, k + 1, "BRDA", new.arcs)
  <2>1. Tallied(records, a, k, "BRDA", o.arcs)
    BY DEF Reading
  <2>2. rec.key = "BRDA" => rec.hits \in Nat /\ new.arcs = Count(o.arcs, Item(rec), rec.hits)
    BY <1>2, <1>5 DEF Item
  <2>3. rec.key # "BRDA" => new.arcs = o.arcs
    BY <1>2
  <2> HIDE DEF new
  <2> QED
    BY <1>3, <2>1, <2>2, <2>3, CountTallies
<1>8. DOMAIN new.hits \subseteq Nat
  <2> HIDE DEF new
  <2> QED
    BY <1>1, <1>2, <1>5 DEF Count
<1>9. /\ Told(records, a, k + 1, "LF", new.LF) /\ Told(records, a, k + 1, "LH", new.LH)
      /\ Told(records, a, k + 1, "BRF", new.BRF) /\ Told(records, a, k + 1, "BRH", new.BRH)
  <2>1. /\ Told(records, a, k, "LF", o.LF) /\ Told(records, a, k, "LH", o.LH)
        /\ Told(records, a, k, "BRF", o.BRF) /\ Told(records, a, k, "BRH", o.BRH)
    BY DEF Reading
  <2> HIDE DEF new
  <2> QED
    BY <1>2, <1>3, <2>1, TotalTold
<1> HIDE DEF new
<1>10. Reading(records, a, k + 1, new)
  BY <1>1, <1>2, <1>3, <1>4, <1>6, <1>7, <1>8, <1>9 DEF Reading
<1> QED
  BY <1>10 DEF new

\* The lines of a block that was read are decided, and its totals hold.
LEMMA LcovBlockIs ==
  ASSUME NEW records, NEW a, NEW k, NEW o, Tallied(records, a, k, "DA", o.hits), DOMAIN o.hits \subseteq Nat,
         Tallied(records, a, k, "BRDA", o.arcs), LcovBlock(o) # CorruptFile
  PROVE  LET da == Those(records, a, k, "DA")
             brda == Those(records, a, k, "BRDA")
         IN  /\ Decided(LcovBlock(o)) /\ LcovBlock(o).path = o.path
             /\ LcovBlock(o).exec = Items(records, Hit(records, da))
             /\ o.LF \in {-1, Cardinality(Items(records, da))}
             /\ o.LH \in {-1, Cardinality(Items(records, Hit(records, da)))}
             /\ brda # {} => /\ o.BRF \in {-1, Cardinality(Items(records, brda))}
                             /\ o.BRH \in {-1, Cardinality(Items(records, Hit(records, brda)))}
PROOF
<1> DEFINE hit == HitKeys(o.hits)
           miss == DOMAIN o.hits \ hit
           f == ByLines(o.path, hit, miss)
           arcs == {<<x[1], x[3]>> : x \in HitKeys(o.arcs)}
<1>1. /\ ~Disagrees(o.LF, DOMAIN o.hits) /\ ~Disagrees(o.LH, hit)
      /\ DOMAIN o.arcs # {} => ~Disagrees(o.BRF, DOMAIN o.arcs) /\ ~Disagrees(o.BRH, HitKeys(o.arcs))
      /\ LcovBlock(o) = [f EXCEPT !.arcs = arcs]
  BY DEF LcovBlock
<1>2. /\ IsFiniteSet(DOMAIN o.hits) /\ DOMAIN o.hits \subseteq Nat
      /\ DOMAIN o.hits = Items(records, Those(records, a, k, "DA"))
      /\ hit = Items(records, Hit(records, Those(records, a, k, "DA")))
      /\ DOMAIN o.arcs = Items(records, Those(records, a, k, "BRDA"))
      /\ HitKeys(o.arcs) = Items(records, Hit(records, Those(records, a, k, "BRDA")))
  BY DEF Tallied
<1>3. hit \subseteq DOMAIN o.hits /\ miss \subseteq DOMAIN o.hits /\ hit \cap miss = {}
  BY DEF HitKeys
<1>4. IsFiniteSet(hit) /\ IsFiniteSet(miss)
  <2> HIDE DEF hit, miss
  <2> QED
    BY <1>2, <1>3, FS_Subset
<1>5. LineFile(f) /\ f.path = o.path /\ f.exec = hit /\ f.miss = miss
  <2> HIDE DEF hit, miss
  <2> QED
    BY <1>2, <1>3, <1>4, LineFileIs
<1>6. f.stmts = Cardinality(f.exec \cup f.miss) + Cardinality(f.exec \cap f.miss)
  <2> HIDE DEF f
  <2> QED
    BY <1>5, LineFileCounts
<1>7. /\ LcovBlock(o).path = f.path /\ LcovBlock(o).exec = f.exec
      /\ LcovBlock(o).miss = f.miss /\ LcovBlock(o).stmts = f.stmts
  <2> HIDE DEF arcs
  <2> QED
    BY <1>1 DEF ByLines, FileFacts
<1> HIDE DEF f, hit, miss, arcs
<1>8. Decided(LcovBlock(o))
  BY <1>3, <1>5, <1>6, <1>7 DEF Decided, LineFile
<1>9. Those(records, a, k, "BRDA") # {} => DOMAIN o.arcs # {}
  BY <1>2 DEF Items
<1> QED
  BY <1>1, <1>2, <1>5, <1>7, <1>8, <1>9 DEF Disagrees

\* The end of a block closes it, with the totals it declared.
LEMMA BlockEnds ==
  ASSUME NEW records, NEW k \in Nat, NEW a, NEW o, Reading(records, a, k, o),
         \A j \in 1..k : EntryIsTyped("cargo-test", records[j]),
         records[k + 1].key = "end_of_record", LcovBlock(o) # CorruptFile
  PROVE  /\ Block(records, a, k + 1) /\ Totals(records, a, k + 1)
         /\ LcovBlock(o).path = records[a].path
         /\ LcovBlock(o).exec = Items(records, Hit(records, Those(records, a, k + 1, "DA")))
PROOF
<1>1. a \in 1..k /\ a \in 1..(k + 1) /\ a < k + 1
  BY DEF Reading
<1>2. Block(records, a, k + 1)
  <2>1. (a + 1)..((k + 1) - 1) = (a + 1)..k
    OBVIOUS
  <2> QED
    BY <1>1, <2>1 DEF Block, Reading
<1>3. ASSUME NEW key, key # "end_of_record"
      PROVE  /\ Those(records, a, k + 1, key) = Those(records, a, k, key)
             /\ LastOf(records, a, k + 1, key) = LastOf(records, a, k, key)
  <2>1. \A q : Those(records, a, k + 1, q) =
          IF records[k + 1].key = q THEN Those(records, a, k, q) \cup {k + 1} ELSE Those(records, a, k, q)
    BY <1>1, OneMoreRecord
  <2>2. \A q : LastOf(records, a, k + 1, q) =
          IF records[k + 1].key = q THEN {k + 1} ELSE LastOf(records, a, k, q)
    BY <1>1, OneMoreRecord
  <2> QED
    BY <1>3, <2>1, <2>2
<1> DEFINE da == Those(records, a, k, "DA")
           brda == Those(records, a, k, "BRDA")
<1>4. /\ LcovBlock(o).path = records[a].path
      /\ LcovBlock(o).exec = Items(records, Hit(records, da))
      /\ o.LF \in {-1, Cardinality(Items(records, da))}
      /\ o.LH \in {-1, Cardinality(Items(records, Hit(records, da)))}
      /\ brda # {} => /\ o.BRF \in {-1, Cardinality(Items(records, brda))}
                      /\ o.BRH \in {-1, Cardinality(Items(records, Hit(records, brda)))}
  BY LcovBlockIs DEF Reading
<1> HIDE DEF da, brda
<1>5. ASSUME NEW total \in {"LF", "LH", "BRF", "BRH"}, NEW n, NEW js,
             Told(records, a, k, total, n), n \in {-1, Cardinality(Items(records, js))}
      PROVE  Declares(records, a, k + 1, total, js)
  <2>1. ASSUME NEW j \in LastOf(records, a, k, total)
        PROVE  records[j].n = Cardinality(Items(records, js))
    <3>1. j \in 1..k /\ records[j].key = total
      BY <1>1, <2>1 DEF LastOf
    <3>2. records[j].n \in Nat
      BY <3>1 DEF EntryIsTyped
    <3>3. n = records[j].n
      BY <1>5, <2>1 DEF Told
    <3> QED
      BY <1>5, <3>2, <3>3
  <2>2. LastOf(records, a, k + 1, total) = LastOf(records, a, k, total)
    BY <1>3
  <2> QED
    BY <2>1, <2>2 DEF Declares
<1>6. /\ Told(records, a, k, "LF", o.LF) /\ Told(records, a, k, "LH", o.LH)
      /\ Told(records, a, k, "BRF", o.BRF) /\ Told(records, a, k, "BRH", o.BRH)
  BY DEF Reading
<1>7. Declares(records, a, k + 1, "LF", da) /\ Declares(records, a, k + 1, "LH", Hit(records, da))
  BY <1>4, <1>5, <1>6
<1>8. brda # {} => /\ Declares(records, a, k + 1, "BRF", brda)
                   /\ Declares(records, a, k + 1, "BRH", Hit(records, brda))
  BY <1>4, <1>5, <1>6
<1>9. Those(records, a, k + 1, "DA") = da /\ Those(records, a, k + 1, "BRDA") = brda
  BY <1>3 DEF da, brda
<1>10. Totals(records, a, k + 1)
  BY <1>7, <1>8, <1>9 DEF Totals
<1> QED
  BY <1>2, <1>4, <1>9, <1>10

\* A record after which no block is open, and one that is not the first of a block.
LEMMA NothingOpens ==
  ASSUME NEW records, NEW k \in Nat, NEW files, Closed(records, files, k, k), records[k + 1].key # "SF"
  PROVE  Closed(records, files, k + 1, k + 1)
PROOF
<1>1. Closed(records, files, k + 1, k)
  BY ClosedGrows
<1>2. \A a \in 1..(k + 1) : records[a].key = "SF" => a \in 1..k
  OBVIOUS
<1> QED
  BY <1>1, <1>2 DEF Closed

\* The block that was read is closed, and those before it are.
LEMMA BlockCloses ==
  ASSUME NEW records, NEW k \in Nat, NEW a, NEW o, NEW files, IsList(files),
         Reading(records, a, k, o), Closed(records, files, k, a - 1),
         \A j \in 1..k : EntryIsTyped("cargo-test", records[j]),
         records[k + 1].key = "end_of_record", LcovBlock(o) # CorruptFile
  PROVE  Closed(records, Append(files, LcovBlock(o)), k + 1, k + 1)
PROOF
<1> DEFINE more == Append(files, LcovBlock(o))
<1>0. Range(more) = Range(files) \cup {LcovBlock(o)}
  BY AppendIs
<1> HIDE DEF more
<1>1. Block(records, a, k + 1) /\ Totals(records, a, k + 1) /\ Shown(records, a, k + 1, more)
  BY <1>0, BlockEnds DEF Shown
<1>2. Closed(records, more, k + 1, a - 1)
  BY <1>0, ClosedGrows
<1>3. k + 1 \in 1..(k + 1)
  OBVIOUS
<1>4. ASSUME NEW c \in 1..(k + 1), records[c].key = "SF" PROVE c \in 1..(a - 1) \/ c = a
  <2>1. a \in 1..k /\ \A j \in (a + 1)..k : records[j].key # "SF"
    BY DEF Reading
  <2>2. c \notin (a + 1)..k /\ c # k + 1
    BY <1>4, <2>1
  <2> QED
    BY <2>1, <2>2
<1>5. Closed(records, more, k + 1, k + 1)
  BY <1>1, <1>2, <1>3, <1>4 DEF Closed
<1> QED
  BY <1>5 DEF more

\* A block is opened: nothing has been read of it.
LEMMA BlockOpens ==
  ASSUME NEW records, NEW k \in Nat, EntryIsTyped("cargo-test", records[k + 1]), records[k + 1].key = "SF"
  PROVE  Reading(records, k + 1, k + 1, [NoBlock EXCEPT !.path = records[k + 1].path])
PROOF
<1> DEFINE o == [NoBlock EXCEPT !.path = records[k + 1].path]
<1>1. /\ o = [path |-> o.path, hits |-> o.hits, arcs |-> o.arcs,
              LF |-> o.LF, LH |-> o.LH, BRF |-> o.BRF, BRH |-> o.BRH]
      /\ o.path = records[k + 1].path /\ o.hits = <<>> /\ o.arcs = <<>>
  BY DEF NoBlock
<1> HIDE DEF o
<1>2. o.path # NoBlock.path
  BY <1>1 DEF EntryIsTyped
<1>3. k + 1 \in 1..(k + 1) /\ (k + 1)..(k + 1) = {k + 1} /\ ((k + 1) + 1)..(k + 1) = {}
  OBVIOUS
<1>4. \A key \in {"DA", "BRDA"} : Those(records, k + 1, k + 1, key) = {}
  BY <1>3 DEF Those
<1>5. \A n : \A total \in {"LF", "LH", "BRF", "BRH"} : Told(records, k + 1, k + 1, total, n)
  BY <1>3 DEF LastOf, Told
<1>6. \A key \in {"DA", "BRDA"} : Tallied(records, k + 1, k + 1, key, <<>>)
  <2>1. /\ Mapping(<<>>) /\ DOMAIN <<>> = {} /\ HitKeys(<<>>) = {}
    BY DEF Mapping, HitKeys
  <2>2. IsFiniteSet({})
    BY FS_EmptySet
  <2>3. Items(records, {}) = {} /\ Hit(records, {}) = {}
    BY DEF Items, Hit
  <2> QED
    BY <1>4, <2>1, <2>2, <2>3 DEF Tallied
<1>7. Reading(records, k + 1, k + 1, o)
  BY <1>1, <1>2, <1>3, <1>5, <1>6 DEF Reading
<1> QED
  BY <1>7 DEF o

LEMMA LcovStep ==
  ASSUME NEW records, NEW k \in Nat, NEW st, LcovInv(records, k, st),
         \A j \in 1..(k + 1) : EntryIsTyped("cargo-test", records[j])
  PROVE  LcovInv(records, k + 1, LcovRecord(st, records[k + 1]))
PROOF
<1> DEFINE rec == records[k + 1]
           new == LcovRecord(st, rec)
<1>1. st = [open |-> st.open, files |-> st.files] /\ EntryIsTyped("cargo-test", rec)
  BY DEF LcovInv
<1>2. CASE st.files = Corrupt
  <2>1. new = st
    BY <1>2 DEF LcovRecord
  <2> QED
    BY <1>1, <1>2, <2>1 DEF LcovInv
<1>3. CASE new = [st EXCEPT !.files = Corrupt]
  <2>1. new = [open |-> st.open, files |-> Corrupt]
    BY <1>1, <1>3
  <2> HIDE DEF new
  <2>2. LcovInv(records, k + 1, new)
    BY <2>1 DEF LcovInv
  <2> QED
    BY <2>2 DEF new
<1>4. CASE st.files # Corrupt /\ new # [st EXCEPT !.files = Corrupt]
  <2>1. IsList(st.files) /\ \A f \in Range(st.files) : Decided(f)
    BY <1>4 DEF LcovInv
  <2>2. CASE st.open = NoBlock
    <3>1. Closed(records, st.files, k, k)
      BY <1>4, <2>2 DEF LcovInv, Reading
    <3>2. CASE rec.key = "SF"
      <4>1. new = [st EXCEPT !.open = [NoBlock EXCEPT !.path = rec.path]]
        BY <1>4, <2>2, <3>2 DEF LcovRecord
      <4>2. new = [open |-> new.open, files |-> st.files]
            /\ new.open = [NoBlock EXCEPT !.path = records[k + 1].path]
        BY <1>1, <4>1
      <4>3. Reading(records, k + 1, k + 1, new.open)
        BY <1>1, <3>2, <4>2, BlockOpens
      <4>4. Closed(records, st.files, k + 1, (k + 1) - 1) /\ k + 1 \in 1..(k + 1)
        BY <3>1, ClosedGrows
      <4> HIDE DEF new
      <4>5. new.files = st.files
        BY <4>2
      <4>6. LcovInv(records, k + 1, new)
        BY <2>1, <4>2, <4>3, <4>4, <4>5 DEF LcovInv
      <4> QED
        BY <4>6 DEF new
    <3>3. CASE rec.key # "SF"
      <4>1. new = st
        BY <1>4, <2>2, <3>3 DEF LcovRecord
      <4>2. Closed(records, st.files, k + 1, k + 1)
        BY <3>1, <3>3, NothingOpens
      <4> QED
        BY <1>1, <2>1, <2>2, <4>1, <4>2 DEF LcovInv
    <3> QED
      BY <3>2, <3>3
  <2>3. CASE st.open # NoBlock
    <3>1. PICK a \in 1..k : Reading(records, a, k, st.open) /\ Closed(records, st.files, k, a - 1)
      BY <1>4, <2>3 DEF LcovInv
    <3>2. rec.key # "SF"
      BY <1>4, <2>3 DEF LcovRecord
    <3>3. CASE rec.key = "end_of_record"
      <4> DEFINE f == LcovBlock(st.open)
      <4>1. f # CorruptFile /\ new = [open |-> NoBlock, files |-> Append(st.files, f)]
        BY <1>4, <2>3, <3>3 DEF LcovRecord
      <4>2. Decided(f)
        BY <3>1, <4>1, LcovBlockIs DEF Reading
      <4>3. Closed(records, Append(st.files, f), k + 1, k + 1)
        BY <2>1, <3>1, <3>3, <4>1, BlockCloses
      <4> HIDE DEF f, new
      <4>4. IsList(Append(st.files, f)) /\ \A g \in Range(Append(st.files, f)) : Decided(g)
        BY <2>1, <4>2, AppendIs
      <4>5. LcovInv(records, k + 1, new)
        BY <4>1, <4>3, <4>4 DEF LcovInv
      <4> QED
        BY <4>5 DEF new
    <3>4. CASE rec.key # "end_of_record"
      <4>1. Reading(records, a, k + 1, InBlock(st.open, rec))
        BY <1>1, <3>1, <3>2, <3>4, InBlockReads
      <4>2. Closed(records, st.files, k + 1, a - 1) /\ a \in 1..(k + 1)
        BY <3>1, ClosedGrows
      <4>3. new = [open |-> InBlock(st.open, rec), files |-> st.files]
        <5>1. CASE rec.key = "TN"
          <6>1. InBlock(st.open, rec) = st.open
            BY <5>1 DEF InBlock
          <6>2. new = st
            BY <5>1 DEF LcovRecord
          <6> QED
            BY <1>1, <6>1, <6>2
        <5>2. CASE rec.key # "TN"
          <6>1. new = [st EXCEPT !.open = InBlock(@, rec)]
            BY <1>4, <2>3, <3>2, <3>4, <5>2 DEF LcovRecord
          <6> QED
            BY <1>1, <6>1
        <5> QED
          BY <5>1, <5>2
      <4> HIDE DEF new
      <4>4. LcovInv(records, k + 1, new)
        BY <2>1, <4>1, <4>2, <4>3 DEF LcovInv
      <4> QED
        BY <4>4 DEF new
    <3> QED
      BY <3>3, <3>4
  <2> QED
    BY <2>2, <2>3
<1> QED
  BY <1>2, <1>3, <1>4

\* What is read of an LCOV file is decided, and every block it opens is closed with its totals.
LEMMA LcovIs ==
  ASSUME NEW records, IsList(records), \A e \in Range(records) : EntryIsTyped("cargo-test", e),
         ParseLcov(records) # Corrupt
  PROVE  /\ WellFormed(records)
         /\ IsList(ParseLcov(records)) /\ \A f \in Range(ParseLcov(records)) : Decided(f)
         /\ Closed(records, ParseLcov(records), Len(records), Len(records))
PROOF
<1>1. PICK h : /\ Goes("LcovRecord", {}, [open |-> NoBlock, files |-> <<>>], records, h)
               /\ LcovRead(records) = h[Len(records)]
  BY LcovGoes
<1>2. Len(records) \in Nat /\ DOMAIN records = 1..Len(records)
      /\ \A k \in 1..Len(records) : EntryIsTyped("cargo-test", records[k])
  <2>1. Len(records) \in Nat /\ DOMAIN records = 1..Len(records)
    BY ListsAre
  <2> QED
    BY <2>1 DEF Range
<1> DEFINE P == {k \in 0..Len(records) : LcovInv(records, k, h[k])}
<1>3. 0 \in P
  <2>1. h[0] = [open |-> NoBlock, files |-> <<>>] /\ 0 \in 0..Len(records)
    BY <1>1, <1>2 DEF Goes
  <2>2. Closed(records, <<>>, 0, 0)
    BY DEF Closed
  <2>3. LcovInv(records, 0, h[0])
    BY <2>1, <2>2, EmptyIsList DEF LcovInv
  <2> QED
    BY <2>1, <2>3
<1>4. ASSUME NEW k \in 0..(Len(records) - 1), k \in P PROVE k + 1 \in P
  <2>1. h[k + 1] = LcovRecord(h[k], records[k + 1])
    BY <1>1 DEF Goes, Turn
  <2>2. LcovInv(records, k, h[k]) /\ k \in Nat /\ k + 1 \in 0..Len(records)
    BY <1>2, <1>4
  <2>3. \A j \in 1..(k + 1) : EntryIsTyped("cargo-test", records[j])
    BY <1>2
  <2> QED
    BY <2>1, <2>2, <2>3, LcovStep
<1> HIDE DEF P
<1>5. \A k \in 0..Len(records) : k \in P
  BY <1>2, <1>3, <1>4, UpTo
<1>6. LcovInv(records, Len(records), LcovRead(records))
  BY <1>1, <1>2, <1>5 DEF P
<1> DEFINE st == LcovRead(records)
<1>7. st.open = NoBlock /\ ParseLcov(records) = st.files
  BY DEF ParseLcov, LcovRead
<1> HIDE DEF st
<1>8. LcovInv(records, Len(records), st)
  BY <1>6 DEF st
<1>9. /\ IsList(st.files) /\ \A f \in Range(st.files) : Decided(f)
      /\ Closed(records, st.files, Len(records), Len(records))
  BY <1>7, <1>8 DEF LcovInv, Reading
<1> QED
  BY <1>2, <1>7, <1>9 DEF Closed, WellFormed

(***************************************************************************)
(* The JSON of coverage.py and of istanbul                                 *)
(***************************************************************************)

LEMMA AllOrCorruptIs ==
  ASSUME NEW files, AllOrCorrupt(files) # Corrupt
  PROVE  AllOrCorrupt(files) = files /\ \A f \in Range(files) : f # CorruptFile
BY DEF AllOrCorrupt, Range

LEMMA PytestIs ==
  ASSUME NEW doc, IsList(doc), ParsePytest(doc) # Corrupt
  PROVE  /\ IsList(ParsePytest(doc))
         /\ \A f \in Range(ParsePytest(doc)) : \E e \in Range(doc) : f = PytestFile(e) /\ f # CorruptFile
PROOF
<1> DEFINE files == [i \in DOMAIN doc |-> PytestFile(doc[i])]
<1>1. ParsePytest(doc) = AllOrCorrupt(files)
  BY DEF ParsePytest
<1>2. DOMAIN files = DOMAIN doc /\ \A i \in DOMAIN doc : files[i] = PytestFile(doc[i])
  OBVIOUS
<1>3. Len(doc) \in Nat /\ DOMAIN doc = 1..Len(doc)
  BY ListsAre
<1>4. files = [i \in 1..Len(doc) |-> files[i]]
  BY <1>3
<1> HIDE DEF files
<1>5. IsList(files)
  BY <1>3, <1>4, FunctionsAreLists
<1>6. ParsePytest(doc) = files /\ \A f \in Range(files) : f # CorruptFile
  BY <1>1, AllOrCorruptIs
<1>7. \A f \in Range(files) : \E e \in Range(doc) : f = PytestFile(e)
  BY <1>2 DEF Range
<1> QED
  BY <1>5, <1>6, <1>7

LEMMA JestIs ==
  ASSUME NEW doc, IsList(doc), ParseJest(doc) # Corrupt
  PROVE  /\ IsList(ParseJest(doc))
         /\ \A f \in Range(ParseJest(doc)) : \E e \in Range(doc) : f = JestFile(e) /\ f # CorruptFile
PROOF
<1> DEFINE files == [i \in DOMAIN doc |-> JestFile(doc[i])]
<1>1. ParseJest(doc) = AllOrCorrupt(files)
  BY DEF ParseJest
<1>2. DOMAIN files = DOMAIN doc /\ \A i \in DOMAIN doc : files[i] = JestFile(doc[i])
  OBVIOUS
<1>3. Len(doc) \in Nat /\ DOMAIN doc = 1..Len(doc)
  BY ListsAre
<1>4. files = [i \in 1..Len(doc) |-> files[i]]
  BY <1>3
<1> HIDE DEF files
<1>5. IsList(files)
  BY <1>3, <1>4, FunctionsAreLists
<1>6. ParseJest(doc) = files /\ \A f \in Range(files) : f # CorruptFile
  BY <1>1, AllOrCorruptIs
<1>7. \A f \in Range(files) : \E e \in Range(doc) : f = JestFile(e)
  BY <1>2 DEF Range
<1> QED
  BY <1>5, <1>6, <1>7

LEMMA PytestFileIs ==
  ASSUME NEW e, PytestFile(e) # CorruptFile
  PROVE  PytestFile(e).path = e.path /\ PytestFile(e).exec = e.exec /\ PytestFile(e).miss = e.miss
BY DEF PytestFile, FileFacts

LEMMA JestFileIs ==
  ASSUME NEW e, JestFile(e) # CorruptFile, EntryIsTyped("jest", e)
  PROVE  /\ JestFile(e).path = e.path
         /\ JestFile(e).exec = {s.line : s \in {x \in e.statements : x.hits > 0}}
         /\ JestFile(e).exec \cap JestFile(e).miss = {}
         /\ JestFile(e).exec \cup JestFile(e).miss \subseteq Nat
         /\ Cardinality(JestFile(e).exec \cup JestFile(e).miss) <= JestFile(e).stmts
PROOF
<1> DEFINE hit == {s.line : s \in {x \in e.statements : x.hits > 0}}
           all == {s.line : s \in e.statements}
           line == [s \in e.statements |-> s.line]
<1>1. JestFile(e) = FileFacts(e.path, hit, all \ hit, Cardinality(e.statements))
      /\ "statements" \in DOMAIN e
  BY DEF JestFile
<1>2. IsFiniteSet(e.statements) /\ \A s \in e.statements : s.line \in Nat
  BY <1>1 DEF EntryIsTyped
<1>3. hit \subseteq all /\ all \subseteq Nat
  BY <1>2
<1>4. {line[s] : s \in e.statements} = all /\ DOMAIN line = e.statements
  OBVIOUS
<1> HIDE DEF hit, all, line
<1>5. Cardinality(all) <= Cardinality(e.statements)
  <2>1. Cardinality({line[s] : s \in e.statements}) <= Cardinality(e.statements)
    BY <1>2, <1>4, ImageIs
  <2> QED
    BY <1>4, <2>1
<1>6. hit \cup (all \ hit) = all
  BY <1>3
<1>7. /\ JestFile(e).path = e.path /\ JestFile(e).exec = hit /\ JestFile(e).miss = all \ hit
      /\ JestFile(e).stmts = Cardinality(e.statements)
  BY <1>1 DEF FileFacts
<1>8. JestFile(e).exec \cup JestFile(e).miss = all
  BY <1>6, <1>7
<1> QED
  BY <1>3, <1>5, <1>7, <1>8 DEF hit

(***************************************************************************)
(* What a payload is parsed to                                             *)
(***************************************************************************)

\* The files that survive are files.
LEMMA SurvivingIs ==
  ASSUME NEW run, NEW files, IsList(files)
  PROVE  Among(Range(files), Surviving(run, files))
PROOF
<1>1. CASE run.engine \notin ChecksDisk
  BY <1>1 DEF Surviving, Among
<1>2. CASE run.engine \in ChecksDisk
  <2>1. PICK h : Goes("OnDisk", tree, <<>>, files, h) /\ Surviving(run, files) = h[Len(files)]
    BY <1>2, SurvivingGoes
  <2>2. Len(files) \in Nat /\ \A k \in 0..(Len(files) - 1) : files[k + 1] \in Range(files)
    <3>1. Len(files) \in Nat /\ DOMAIN files = 1..Len(files)
      BY ListsAre
    <3>2. \A k \in 0..(Len(files) - 1) : k + 1 \in DOMAIN files
      BY <3>1
    <3> QED
      BY <3>1, <3>2 DEF Range
  <2> DEFINE P == {k \in 0..Len(files) : Among(Range(files), h[k])}
  <2>3. 0 \in P
    BY <2>1, <2>2, EmptyIsList DEF Goes, Among
  <2>4. ASSUME NEW k \in 0..(Len(files) - 1), k \in P PROVE k + 1 \in P
    <3>1. h[k + 1] = IF files[k + 1].path \in tree THEN Append(h[k], files[k + 1]) ELSE h[k]
      BY <2>1 DEF Goes, Turn
    <3>2. Among(Range(files), h[k]) /\ k + 1 \in 0..Len(files) /\ files[k + 1] \in Range(files)
      BY <2>2, <2>4
    <3>3. Among(Range(files), Append(h[k], files[k + 1]))
      BY <3>2, AppendIs DEF Among
    <3> QED
      BY <3>1, <3>2, <3>3
  <2> HIDE DEF P
  <2>5. \A k \in 0..Len(files) : k \in P
    BY <2>2, <2>3, <2>4, UpTo
  <2>6. Len(files) \in P
    BY <2>2, <2>5
  <2> QED
    BY <2>1, <2>6 DEF P
<1> QED
  BY <1>1, <1>2

\* What the blocks of an LCOV file show as hit, the facts have.
BlocksKept(run, files) ==
  \A f \in Range(files) :
    HitLines(run, f.path) \subseteq UNION {g.exec : g \in {x \in Range(files) : x.path = f.path}}

\* A file of the facts of a run.
Kept(run, f) ==
  /\ f.exec \cup f.miss \subseteq Nat
  /\ run.engine # "pytest" =>
       LET both == f.exec \cap f.miss
           lines == Cardinality(f.exec \cup f.miss)
       IN  /\ both \subseteq AtOdds(run, f.path)
           /\ IF run.engine = "jest" THEN lines <= f.stmts ELSE f.stmts = lines + Cardinality(both)
  /\ run.engine # "cargo-test" /\ (run.engine = "xunit" => Len(run.docs) = 1) =>
       HitLines(run, f.path) \subseteq f.exec

AllPayloads == Payloads \cup LaterPayloads

LEMMA PytestKept ==
  ASSUME NEW run \in AllPayloads, run.engine = "pytest", ParsePytest(run.docs) # Corrupt
  PROVE  IsList(ParsePytest(run.docs)) /\ \A f \in Range(ParsePytest(run.docs)) : Kept(run, f)
PROOF
<1>1. /\ IsList(run.docs) /\ Entries(run) = Range(run.docs)
      /\ \A e \in Range(run.docs) : EntryIsTyped("pytest", e)
      /\ \A d, e \in Range(run.docs) : d.path = e.path => d = e
  BY CoveragePayloads DEF AllPayloads, Entries
<1>2. ASSUME NEW f \in Range(ParsePytest(run.docs)) PROVE Kept(run, f)
  <2>1. PICK e \in Range(run.docs) : f = PytestFile(e) /\ f # CorruptFile
    BY <1>1, PytestIs
  <2>2. f.path = e.path /\ f.exec = e.exec /\ f.miss = e.miss
    BY <2>1, PytestFileIs
  <2>3. f.exec \cup f.miss \subseteq Nat
    BY <1>1, <2>2 DEF EntryIsTyped
  <2>4. \A d \in Range(run.docs) : d.path = f.path => d.exec = f.exec
    BY <1>1, <2>2
  <2>5. HitLines(run, f.path) = UNION {d.exec : d \in {x \in Range(run.docs) : x.path = f.path}}
    BY <1>1 DEF HitLines
  <2>6. HitLines(run, f.path) \subseteq f.exec
    BY <2>4, <2>5
  <2> QED
    BY <2>3, <2>6 DEF Kept
<1> QED
  BY <1>1, <1>2, PytestIs

LEMMA JestKept ==
  ASSUME NEW run \in AllPayloads, run.engine = "jest", ParseJest(run.docs) # Corrupt
  PROVE  IsList(ParseJest(run.docs)) /\ \A f \in Range(ParseJest(run.docs)) : Kept(run, f)
PROOF
<1>1. /\ IsList(run.docs) /\ Entries(run) = Range(run.docs)
      /\ \A e \in Range(run.docs) : EntryIsTyped("jest", e)
      /\ \A d, e \in Range(run.docs) : d.path = e.path => d = e
  BY CoveragePayloads DEF AllPayloads, Entries
<1> DEFINE hits(e) == {s.line : s \in {x \in e.statements : x.hits > 0}}
<1>2. ASSUME NEW f \in Range(ParseJest(run.docs)) PROVE Kept(run, f)
  <2>1. PICK e \in Range(run.docs) : f = JestFile(e) /\ f # CorruptFile
    BY <1>1, JestIs
  <2>2. /\ f.path = e.path /\ f.exec = hits(e) /\ f.exec \cap f.miss = {} /\ f.exec \cup f.miss \subseteq Nat
        /\ Cardinality(f.exec \cup f.miss) <= f.stmts
    BY <1>1, <2>1, JestFileIs
  <2>3. \A d \in Range(run.docs) : d.path = f.path => d = e
    BY <1>1, <2>2
  <2>4. HitLines(run, f.path) = UNION {hits(d) : d \in {x \in Range(run.docs) : x.path = f.path}}
    BY <1>1 DEF HitLines
  <2> HIDE DEF hits
  <2>5. HitLines(run, f.path) \subseteq f.exec
    BY <2>2, <2>3, <2>4
  <2> QED
    BY <2>2, <2>5 DEF Kept
<1> QED
  BY <1>1, <1>2, JestIs

LEMMA LcovKept ==
  ASSUME NEW run \in AllPayloads, run.engine = "cargo-test", ParseLcov(run.docs) # Corrupt
  PROVE  /\ WellFormed(run.docs) /\ BlocksKept(run, ParseLcov(run.docs))
         /\ IsList(ParseLcov(run.docs)) /\ \A f \in Range(ParseLcov(run.docs)) : Kept(run, f)
PROOF
<1> DEFINE records == run.docs
           files == ParseLcov(records)
<1>1. IsList(run.docs) /\ \A e \in Range(run.docs) : EntryIsTyped("cargo-test", e)
  BY CoveragePayloads DEF AllPayloads, Entries
<1>2. /\ WellFormed(run.docs) /\ Closed(records, files, Len(records), Len(records))
      /\ IsList(ParseLcov(run.docs)) /\ \A f \in Range(ParseLcov(run.docs)) : Decided(f)
  BY <1>1, LcovIs
<1>3. Len(records) \in Nat /\ DOMAIN records = 1..Len(records)
  BY <1>1, ListsAre
<1> HIDE DEF files
<1>4. ASSUME NEW path, NEW j \in HitRecords(records, path)
      PROVE  \E g \in Range(files) : g.path = path /\ records[j].line \in g.exec
  <2>1. j \in 1..Len(records) /\ records[j].key = "DA" /\ records[j].hits > 0 /\ InFile(records, j, path)
    BY <1>3 DEF HitRecords
  <2>2. PICK a \in 1..(j - 1) :
          /\ records[a].key = "SF" /\ records[a].path = path
          /\ \A i \in (a + 1)..j : records[i].key \notin {"SF", "end_of_record"}
    BY <2>1 DEF InFile
  <2>3. a \in 1..Len(records)
    BY <1>3, <2>1
  <2>4. PICK b \in 1..Len(records) : Block(records, a, b) /\ Shown(records, a, b, files)
    BY <1>2, <2>2, <2>3 DEF Closed
  <2>5. j \in a..b
    <3>1. a < b /\ records[b].key = "end_of_record"
      BY <2>4 DEF Block
    <3>2. b \notin (a + 1)..j
      BY <2>2, <3>1
    <3> QED
      BY <2>1, <3>1, <3>2
  <2>6. PICK g \in Range(files) :
          g.path = path /\ g.exec = Items(records, Hit(records, Those(records, a, b, "DA")))
    BY <2>2, <2>4 DEF Shown
  <2>7. j \in Hit(records, Those(records, a, b, "DA"))
    BY <2>1, <2>5 DEF Hit, Those
  <2>8. records[j].line \in g.exec
    BY <2>1, <2>6, <2>7 DEF Items, Item
  <2> QED
    BY <2>6, <2>8
<1>5. BlocksKept(run, files)
  <2>1. \A path : HitLines(run, path) = {records[j].line : j \in HitRecords(records, path)}
    BY DEF HitLines
  <2> HIDE DEF records
  <2> QED
    BY <1>4, <2>1 DEF BlocksKept
<1>6. \A f \in Range(files) : Kept(run, f)
  BY <1>2 DEF Kept, Decided, files
<1> QED
  BY <1>2, <1>5, <1>6 DEF files

LEMMA JacocoKept ==
  ASSUME NEW run \in AllPayloads, run.engine = "junit"
  PROVE  IsList(ParseJacoco(run.docs)) /\ \A f \in Range(ParseJacoco(run.docs)) : Kept(run, f)
PROOF
<1> DEFINE E == UNION {Range(doc) : doc \in Range(run.docs)}
<1>1. /\ IsList(run.docs) /\ Entries(run) = E /\ \A doc \in Range(run.docs) : IsList(doc)
      /\ \A e \in E : EntryIsTyped("junit", e)
      /\ \A d, e \in E : d.path = e.path => d = e
  BY CoveragePayloads DEF AllPayloads, Entries
<1>2. FilesOf(E, ParseJacoco(run.docs))
  BY <1>1, JacocoIs
<1> HIDE DEF E
<1> DEFINE hits(e) == {l.nr : l \in {x \in e.lines : x.ci > 0}}
<1>3. ASSUME NEW f \in Range(ParseJacoco(run.docs)) PROVE Kept(run, f)
  <2>1. PICK e \in E : f = JacocoFile(e)
    BY <1>2 DEF FilesOf
  <2>2. LineFile(f) /\ f.path = e.path /\ f.exec \cap f.miss = {}
    BY <1>1, <2>1, JacocoFileIs
  <2>3. f.exec = hits(e)
    BY <2>1 DEF JacocoFile, ByLines, FileFacts
  <2>4. \A d \in E : d.path = f.path => d = e
    BY <1>1, <2>2
  <2>5. HitLines(run, f.path) = UNION {hits(d) : d \in {x \in E : x.path = f.path}}
    BY <1>1 DEF HitLines
  <2> HIDE DEF hits
  <2>6. HitLines(run, f.path) \subseteq f.exec
    BY <2>3, <2>4, <2>5
  <2>7. f.stmts = Cardinality(f.exec \cup f.miss) + Cardinality(f.exec \cap f.miss)
    BY <2>2, LineFileCounts
  <2> QED
    BY <2>2, <2>6, <2>7 DEF Kept, LineFile
<1> QED
  BY <1>2, <1>3 DEF FilesOf

LEMMA CoberturaKept ==
  ASSUME NEW run \in AllPayloads, run.engine = "xunit"
  PROVE  IsList(ParseCobertura(run.docs)) /\ \A f \in Range(ParseCobertura(run.docs)) : Kept(run, f)
PROOF
<1> DEFINE E == UNION {Range(doc) : doc \in Range(run.docs)}
           hits(e) == {l[1] : l \in {x \in e.lines : x[2] > 0}}
<1>1. /\ IsList(run.docs) /\ Entries(run) = E
      /\ \A doc \in Range(run.docs) : IsList(doc) /\ \A e \in Range(doc) : EntryIsTyped("xunit", e)
  BY CoveragePayloads DEF AllPayloads, Entries
<1>2. Among(UNION {Range(CoberturaDocument(doc)) : doc \in Range(run.docs)}, ParseCobertura(run.docs))
  BY <1>1, CoberturaIs
<1>3. ASSUME NEW f \in Range(ParseCobertura(run.docs)) PROVE Kept(run, f)
  <2>1. PICK doc \in Range(run.docs) : f \in Range(CoberturaDocument(doc))
    BY <1>2 DEF Among
  <2>2. Merged(doc, CoberturaDocument(doc), Len(doc))
    BY <1>1, DocumentIs
  <2>3. LineFile(f)
    BY <2>1, <2>2 DEF Merged
  <2>4. f.stmts = Cardinality(f.exec \cup f.miss) + Cardinality(f.exec \cap f.miss)
    BY <2>3, LineFileCounts
  <2>5. f.exec \cap f.miss \subseteq AtOdds(run, f.path)
    <3>1. CASE f.exec \cap f.miss = {}
      BY <3>1
    <3>2. CASE Alone(doc, f, Len(doc))
      <4>1. PICK i \in 1..Len(doc) :
              f = CoberturaClass(doc[i]) /\ \A j \in 1..Len(doc) : doc[j].path = f.path => j = i
        BY <3>2 DEF Alone
      <4>2. DOMAIN doc = 1..Len(doc) /\ doc[i] \in Range(doc) /\ doc[i].path = f.path
        <5>1. DOMAIN doc = 1..Len(doc)
          BY <1>1, ListsAre
        <5>2. doc[i] \in Range(doc)
          BY <5>1 DEF Range
        <5> QED
          BY <1>1, <4>1, <5>1, <5>2, CoberturaClassIs
      <4>3. \A d \in Range(doc) : d.path = f.path => d = doc[i]
        BY <4>1, <4>2 DEF Range
      <4>4. doc[i] \in {e \in Range(doc) : e.path = f.path /\ \A d \in Range(doc) : d.path = f.path => d = e}
        BY <4>2, <4>3
      <4> QED
        BY <4>1, <4>4 DEF AtOdds
    <3> QED
      BY <2>1, <2>2, <3>1, <3>2 DEF Merged
  <2>6. ASSUME Len(run.docs) = 1 PROVE HitLines(run, f.path) \subseteq f.exec
    <3>1. E = Range(doc)
      <4>1. DOMAIN run.docs = 1..1
        BY <1>1, <2>6, ListsAre
      <4>2. \A other \in Range(run.docs) : other = doc
        BY <4>1 DEF Range
      <4> QED
        BY <4>2
    <3>2. HitLines(run, f.path) = UNION {hits(e) : e \in {x \in Range(doc) : x.path = f.path}}
      BY <1>1, <3>1 DEF HitLines
    <3>3. ASSUME NEW e \in Range(doc), e.path = f.path PROVE hits(e) \subseteq f.exec
      <4>1. DOMAIN doc = 1..Len(doc)
        BY <1>1, ListsAre
      <4>2. PICK i \in 1..Len(doc) : e = doc[i]
        BY <4>1 DEF Range
      <4>3. CoberturaClass(e).exec \subseteq f.exec
        BY <2>1, <2>2, <3>3, <4>2 DEF Merged
      <4>4. CoberturaClass(e).exec = hits(e)
        BY DEF CoberturaClass, ByLines, FileFacts
      <4> QED
        BY <4>3, <4>4
    <3> HIDE DEF hits
    <3> QED
      BY <3>2, <3>3
  <2> QED
    BY <2>3, <2>4, <2>6, <2>5 DEF Kept, LineFile
<1> QED
  BY <1>2, <1>3 DEF Among

\* What is parsed of a payload, whatever its engine.
LEMMA ParsedIs ==
  ASSUME NEW run \in AllPayloads, run.engine # "go-test", Parse(run.engine, run.docs) # Corrupt
  PROVE  /\ IsList(Parse(run.engine, run.docs))
         /\ \A f \in Range(Parse(run.engine, run.docs)) : Kept(run, f)
         /\ run.engine = "cargo-test" => WellFormed(run.docs) /\ BlocksKept(run, Parse(run.engine, run.docs))
PROOF
<1>1. run.engine \in {"pytest", "jest", "cargo-test", "junit", "xunit"}
  BY CoveragePayloads DEF AllPayloads, Engines
<1>2. CASE run.engine = "pytest"
  BY <1>2, PytestKept DEF Parse
<1>3. CASE run.engine = "jest"
  BY <1>3, JestKept DEF Parse
<1>4. CASE run.engine = "cargo-test"
  BY <1>4, LcovKept DEF Parse
<1>5. CASE run.engine = "junit"
  BY <1>5, JacocoKept DEF Parse
<1>6. CASE run.engine = "xunit"
  BY <1>6, CoberturaKept DEF Parse
<1> QED
  BY <1>1, <1>2, <1>3, <1>4, <1>5, <1>6

(***************************************************************************)
(* The stored facts                                                        *)
(***************************************************************************)

\* What facts there are of a run: they are about files that were parsed.
Sound(run, f) ==
  Has(f) =>
    /\ f.engine = run.engine /\ IsList(f.files) /\ \A g \in Range(f.files) : Kept(run, g)
    /\ run.engine = "cargo-test" => WellFormed(run.docs) /\ BlocksKept(run, f.files)

IInv ==
  /\ tree \subseteq Sources
  /\ IsList(runs) /\ Range(runs) \subseteq AllPayloads
  /\ IsList(facts) /\ Len(facts) = Len(runs)
  /\ \A r \in DOMAIN runs : Sound(runs[r], facts[r])

LEMMA DerivedIs ==
  ASSUME NEW run \in AllPayloads, Has(Derived(run))
  PROVE  Sound(run, Derived(run)) /\ Readable(run)
PROOF
<1> DEFINE files == Parse(run.engine, run.docs)
<1>1. Readable(run) /\ files # Corrupt /\ Derived(run) = Facts(run, Surviving(run, files))
  BY DEF Derived, Has, Unavailable
<1>2. run.engine # "go-test"
  BY <1>1 DEF Readable, KeyOf
<1>3. /\ IsList(files) /\ \A f \in Range(files) : Kept(run, f)
      /\ run.engine = "cargo-test" => WellFormed(run.docs) /\ BlocksKept(run, files)
  BY <1>1, <1>2, ParsedIs
<1> HIDE DEF files
<1>4. Among(Range(files), Surviving(run, files))
  BY <1>3, SurvivingIs
<1>5. Derived(run).engine = run.engine /\ Derived(run).files = Surviving(run, files)
  BY <1>1 DEF Facts
<1>6. run.engine = "cargo-test" => Surviving(run, files) = files
  BY DEF Surviving, ChecksDisk
<1> QED
  BY <1>1, <1>3, <1>4, <1>5, <1>6 DEF Sound, Among

LEMMA AppendAt ==
  ASSUME NEW s, IsList(s), NEW x
  PROVE  /\ DOMAIN Append(s, x) = 1..(Len(s) + 1) /\ Len(Append(s, x)) = Len(s) + 1
         /\ Append(s, x)[Len(s) + 1] = x
         /\ \A i \in 1..Len(s) : Append(s, x)[i] = s[i]
PROOF
<1>1. Len(s) \in Nat /\ s \in Seq(Range(s) \cup {x})
  BY ListsAre, SeqMonotonic DEF IsList
<1> QED
  BY <1>1

LEMMA InitIInv == Init => IInv
PROOF
<1> SUFFICES ASSUME Init PROVE IInv
  OBVIOUS
<1>1. DOMAIN runs = {} /\ Len(facts) = Len(runs)
  BY DEF Init
<1> QED
  BY <1>1, EmptyIsList DEF Init, IInv

LEMMA ExecuteKeeps == IInv /\ Execute => IInv'
PROOF
<1> SUFFICES ASSUME IInv, Execute PROVE IInv'
  OBVIOUS
<1>1. IsList(runs) /\ IsList(facts) /\ Len(facts) = Len(runs) /\ Range(runs) \subseteq AllPayloads
  BY DEF IInv
<1>2. PICK p \in AllPayloads : runs' = Append(runs, p)
  BY DEF Execute, AllPayloads
<1>3. facts' = Append(facts, NoFacts) /\ tree' = tree
  BY DEF Execute
<1>4. IsList(runs') /\ Range(runs') \subseteq AllPayloads /\ IsList(facts')
  BY <1>1, <1>2, <1>3, AppendIs
<1>5. Len(facts') = Len(runs')
  BY <1>1, <1>2, <1>3, AppendAt
<1>6. ASSUME NEW r \in DOMAIN runs' PROVE Sound(runs'[r], facts'[r])
  <2>1. Len(runs) \in Nat /\ DOMAIN runs = 1..Len(runs) /\ r \in 1..(Len(runs) + 1)
    BY <1>1, <1>2, ListsAre, AppendAt
  <2>2. CASE r = Len(runs) + 1
    <3>1. facts'[r] = NoFacts
      BY <1>1, <1>3, <2>2, AppendAt
    <3> QED
      BY <3>1 DEF Sound, Has, NoFacts
  <2>3. CASE r \in 1..Len(runs)
    <3>1. runs'[r] = runs[r] /\ facts'[r] = facts[r]
      BY <1>1, <1>2, <1>3, <2>3, AppendAt
    <3>2. Sound(runs[r], facts[r])
      BY <2>1, <2>3 DEF IInv
    <3> QED
      BY <3>1, <3>2
  <2> QED
    BY <2>1, <2>2, <2>3
<1> QED
  BY <1>3, <1>4, <1>5, <1>6 DEF IInv

LEMMA DeriveKeeps ==
  ASSUME IInv, NEW r \in DOMAIN runs, Derive(r)
  PROVE  IInv'
PROOF
<1> DEFINE new == IF Has(Derived(runs[r])) THEN Derived(runs[r]) ELSE facts[r]
<1>1. /\ IsList(runs) /\ IsList(facts) /\ Len(facts) = Len(runs) /\ Range(runs) \subseteq AllPayloads
      /\ tree \subseteq Sources
  BY DEF IInv
<1>2. Len(runs) \in Nat /\ DOMAIN runs = 1..Len(runs) /\ DOMAIN facts = 1..Len(runs)
  BY <1>1, ListsAre
<1>3. facts' = [facts EXCEPT ![r] = new] /\ tree' = tree /\ runs' = runs
  BY DEF Derive
<1>4. Sound(runs[r], new)
  <2>1. runs[r] \in AllPayloads
    BY <1>1 DEF Range
  <2> QED
    BY <2>1, DerivedIs DEF IInv
<1> HIDE DEF new
<1>5. facts' = [i \in 1..Len(runs) |-> facts'[i]] /\ DOMAIN facts' = 1..Len(runs)
  BY <1>1, <1>2, <1>3, ListsAre
<1>6. IsList(facts')
  BY <1>2, <1>5, FunctionsAreLists
<1>7. Len(facts') = Len(runs')
  BY <1>2, <1>3, <1>5, <1>6, ListsAre
<1>8. ASSUME NEW q \in DOMAIN runs' PROVE Sound(runs'[q], facts'[q])
  <2>1. q \in DOMAIN runs /\ q \in DOMAIN facts /\ runs'[q] = runs[q]
    BY <1>2, <1>3
  <2>2. facts'[q] = IF q = r THEN new ELSE facts[q]
    BY <1>3, <2>1
  <2> QED
    BY <1>4, <2>1, <2>2 DEF IInv
<1> QED
  BY <1>1, <1>3, <1>6, <1>7, <1>8 DEF IInv

LEMMA NextIInv == IInv /\ [Next]_vars => IInv'
PROOF
<1> SUFFICES ASSUME IInv, [Next]_vars PROVE IInv'
  OBVIOUS
<1>1. CASE Execute
  BY <1>1, ExecuteKeeps
<1>2. ASSUME NEW r \in DOMAIN runs, Derive(r) PROVE IInv'
  BY <1>2, DeriveKeeps
<1>3. ASSUME NEW f \in Sources, MoveSource(f) PROVE IInv'
  BY <1>3 DEF MoveSource, IInv
<1>4. CASE UNCHANGED vars
  BY <1>4 DEF vars, IInv
<1> QED
  BY <1>1, <1>2, <1>3, <1>4 DEF Next

LEMMA AlwaysIInv == Spec => []IInv
PROOF
<1> QED
  BY InitIInv, NextIInv, PTL DEF Spec

(***************************************************************************)
(* The theorems                                                            *)
(***************************************************************************)

\* A file of the facts of a run is one of those IInv speaks of.
LEMMA FilesAreKept ==
  ASSUME IInv, NEW r \in DOMAIN facts, Has(facts[r]), NEW i \in DOMAIN facts[r].files
  PROVE  r \in DOMAIN runs /\ facts[r].engine = runs[r].engine /\ Kept(runs[r], facts[r].files[i])
PROOF
<1>1. r \in DOMAIN runs
  BY ListsAre DEF IInv
<1>2. facts[r].files[i] \in Range(facts[r].files)
  BY DEF Range
<1> QED
  BY <1>1, <1>2 DEF IInv, Sound

\* There are facts of the runs there are, about lines (coverage/derive.py).
THEOREM CoverageTypeOKHolds == Spec => []CoverageTypeOK
PROOF
<1>1. IInv => CoverageTypeOK
  <2> SUFFICES ASSUME IInv PROVE CoverageTypeOK
    OBVIOUS
  <2>1. ASSUME NEW r \in DOMAIN facts, Has(facts[r]), NEW i \in DOMAIN facts[r].files
        PROVE  facts[r].files[i].exec \cup facts[r].files[i].miss \subseteq Nat
    BY <2>1, FilesAreKept DEF Kept
  <2> QED
    BY <2>1 DEF IInv, CoverageTypeOK
<1> QED
  BY <1>1, AlwaysIInv, PTL

\* No parser lists a line as executed and as missing, but where the one class
\* of a Cobertura file is at odds with itself, and each counts the lines it
\* lists, whatever the payload (coverage/*_parser.py).
THEOREM LinesAreDecidedHolds == Spec => []LinesAreDecided
PROOF
<1>1. IInv => LinesAreDecided
  <2> SUFFICES ASSUME IInv, NEW r \in DOMAIN facts, Has(facts[r]), facts[r].engine # "pytest",
                      NEW i \in DOMAIN facts[r].files
               PROVE  LET f == facts[r].files[i]
                          both == f.exec \cap f.miss
                          lines == Cardinality(f.exec \cup f.miss)
                      IN  /\ both \subseteq AtOdds(runs[r], f.path)
                          /\ IF facts[r].engine = "jest" THEN lines <= f.stmts
                             ELSE f.stmts = lines + Cardinality(both)
    BY DEF LinesAreDecided
  <2> QED
    BY FilesAreKept DEF Kept
<1> QED
  BY <1>1, AlwaysIInv, PTL

\* A line that some record of the payload shows as hit is executed in the
\* facts, in whatever order its records come (cobertura_parser.py:250-263),
\* if the payload is not several Cobertura documents, which overwrite one
\* another; the blocks of one LCOV path are taken together.
THEOREM NoLostHitHolds == Spec => []NoLostHit
PROOF
<1>1. IInv => NoLostHit
  <2> SUFFICES ASSUME IInv, NEW r \in DOMAIN facts, Has(facts[r]),
                      facts[r].engine = "xunit" => Len(runs[r].docs) = 1,
                      NEW f \in Range(facts[r].files)
               PROVE  HitLines(runs[r], f.path) \subseteq Executed(facts[r], f)
    BY DEF NoLostHit
  <2>1. PICK i \in DOMAIN facts[r].files : f = facts[r].files[i]
    BY DEF Range
  <2>2. /\ facts[r].engine = runs[r].engine /\ Kept(runs[r], f)
        /\ r \in DOMAIN runs /\ Sound(runs[r], facts[r])
    BY <2>1, FilesAreKept DEF IInv
  <2>3. CASE facts[r].engine = "cargo-test"
    BY <2>2, <2>3 DEF Sound, BlocksKept, Executed
  <2>4. CASE facts[r].engine # "cargo-test"
    BY <2>2, <2>4 DEF Kept, Executed
  <2> QED
    BY <2>3, <2>4
<1> QED
  BY <1>1, AlwaysIInv, PTL

\* An LCOV file that gives facts is well formed: a truncated one, or one that
\* declares other totals than its records have, is refused, those of branches
\* only where a branch record is left (lcov_parser.py:308-316, 392-401, 449-481).
THEOREM TruncatedIsRefusedHolds == Spec => []TruncatedIsRefused
PROOF
<1>1. IInv => TruncatedIsRefused
  <2> SUFFICES ASSUME IInv, NEW r \in DOMAIN facts, Has(facts[r]), facts[r].engine = "cargo-test"
               PROVE  WellFormed(runs[r].docs)
    BY DEF TruncatedIsRefused
  <2>1. r \in DOMAIN runs
    BY ListsAre DEF IInv
  <2> QED
    BY <2>1 DEF IInv, Sound
<1> QED
  BY <1>1, AlwaysIInv, PTL

\* What can be derived, or has been, the probe reports (availability.py:103-147).
THEOREM ProbeMissesNothingHolds == Spec => []ProbeMissesNothing
PROOF
<1>1. IInv => ProbeMissesNothing
  <2> SUFFICES ASSUME IInv, NEW r \in DOMAIN runs, Has(Derived(runs[r])) PROVE Available(r)
    BY DEF ProbeMissesNothing, Available
  <2>1. runs[r] \in AllPayloads
    BY DEF IInv, Range
  <2>2. Readable(runs[r])
    BY <2>1, DerivedIs
  <2>3. runs[r].engine \in Engines
    BY <2>1, CoveragePayloads DEF AllPayloads
  <2>4. KeyOf(runs[r].engine) \in ProbedKeys
    BY <2>2, <2>3 DEF Readable, KeyOf, ProbedKeys, Engines
  <2> QED
    BY <2>2, <2>4 DEF Available, Readable
<1> QED
  BY <1>1, AlwaysIInv, PTL
============================================================================
