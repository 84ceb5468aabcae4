---------------------------- MODULE AnalysisProofs ----------------------------
(***************************************************************************)
(* Proofs about Analysis, and about the comparison and the recommendations *)
(* it rests on: what is told, what stays, who is suspected and in what     *)
(* order.                                                                  *)
(***************************************************************************)
EXTENDS Analysis, SequenceTheorems, FiniteSetTheorems, WellFoundedInduction, TLAPS

(***************************************************************************)
(* What is told of a regression                                            *)
(***************************************************************************)

(* A compound about a test, or the test's own regression, survives both    *)
(* thinning rules (categories.py:517-592), whatever else is proposed.      *)
LEMMA RegressionSaid ==
  ASSUME NEW b, NEW t \in Regressed(b)
  PROVE  \E x \in Synthesized(b) :
           x.test = t /\ x.category \in {"regression_with_localization", "investigate_regression"}
PROOF
<1> DEFINE own == Hit("investigate_regression", <<t>>, NoEntry, t)
           compounds == {h \in Hits(b) : h.category = "regression_with_localization"}
<1>1. own \in Hits(b) /\ own.category = "investigate_regression" /\ own.test = t
  BY DEF Hits, InvestigateRegression, Hit
<1>2. PICK h \in Swallow(b, Hits(b)) :
        h.test = t /\ h.category \in {"regression_with_localization", "investigate_regression"}
  <2>1. CASE \A c \in compounds : c.test # t
    BY <1>1, <2>1 DEF Swallow
  <2>2. CASE \E c \in compounds : c.test = t
    <3>1. PICK c \in compounds : c.test = t
      BY <2>2
    <3>2. c \in Swallow(b, Hits(b))
      BY <3>1 DEF Swallow
    <3> QED
      BY <3>1, <3>2
  <2> QED
    BY <2>1, <2>2
<1>3. h \in Exclusive(Swallow(b, Hits(b)))
  BY <1>2 DEF Exclusive
<1> DEFINE x == [category |-> h.category, slot |-> h.slot, test |-> h.test, cites |-> Citations(b, h)]
<1>4. x \in Synthesized(b)
  BY <1>3 DEF Synthesized
<1> QED
  BY <1>2, <1>4

----------------------------------------------------------------------------
(* What was told of a run is what its bundle synthesizes to.               *)
ToldIsSynthesized ==
  /\ told \in Seq(Range(told))
  /\ \A r \in DOMAIN told : Told(r) => told[r].recommendations = Synthesized(told[r].bundle)

LEMMA OverItsRange ==
  ASSUME NEW S, NEW s \in Seq(S)
  PROVE  s \in Seq(Range(s))
PROOF
<1>1. Len(s) \in Nat /\ s \in [1..Len(s) -> S] /\ DOMAIN s = 1..Len(s)
  OBVIOUS
<1>2. \A i \in 1..Len(s) : s[i] \in Range(s)
  BY <1>1 DEF Range
<1>3. s \in [1..Len(s) -> Range(s)]
  BY <1>1, <1>2
<1> QED
  BY <1>1, <1>3, SeqDef

LEMMA ToldInit == Init => ToldIsSynthesized
  BY DEF Init, ToldIsSynthesized, Told, Range

LEMMA ToldStep == ToldIsSynthesized /\ [Next]_vars => ToldIsSynthesized'
PROOF
<1> SUFFICES ASSUME ToldIsSynthesized, [Next]_vars PROVE ToldIsSynthesized'
  OBVIOUS
<1>1. CASE Execute
  <2>1. told' = Append(told, None)
    BY <1>1 DEF Execute
  <2>2. Len(told) \in Nat /\ DOMAIN told = 1..Len(told)
    BY DEF ToldIsSynthesized
  <2>3. /\ told' \in Seq(Range(told) \cup {None})
        /\ DOMAIN told' = 1..(Len(told) + 1)
        /\ told'[Len(told) + 1] = None
        /\ \A r \in DOMAIN told : told'[r] = told[r]
    BY <2>1, <2>2 DEF ToldIsSynthesized
  <2>4. told' \in Seq(Range(told'))
    BY <2>2, <2>3 DEF Range
  <2> QED
    BY <2>2, <2>3, <2>4 DEF ToldIsSynthesized, Told
<1>2. CASE Recommend
  <2> DEFINE new == [bundle |-> bundle, recommendations |-> Synthesized(bundle)]
  <2>1. told' = [told EXCEPT ![Newest] = new]
    BY <1>2 DEF Recommend
  <2>2. DOMAIN told' = DOMAIN told /\ \A r \in DOMAIN told : told'[r] = IF r = Newest THEN new ELSE told[r]
    BY <2>1 DEF ToldIsSynthesized
  <2>3. told' \in Seq(Range(told'))
    <3>1. told \in Seq(Range(told) \cup {new})
      BY SeqMonotonic DEF ToldIsSynthesized
    <3>2. told' \in Seq(Range(told) \cup {new})
      <4>1. CASE Newest \in DOMAIN told
        BY <2>1, <3>1, <4>1
      <4>2. CASE Newest \notin DOMAIN told
        <5>1. told' = told
          BY <2>1, <4>2, <3>1
        <5> QED
          BY <5>1, <3>1
      <4> QED
        BY <4>1, <4>2
    <3> QED
      BY <3>2, OverItsRange
  <2> QED
    BY <2>2, <2>3 DEF ToldIsSynthesized, Told
<1>3. CASE UNCHANGED told
  BY <1>3 DEF ToldIsSynthesized, Told
<1>4. [Next]_vars => Execute \/ Recommend \/ UNCHANGED told
  BY DEF Next, vars, Derive, Compare, Localize, Rerun, SkipRerun, CompareElsewhere, LocalizeElsewhere
<1> QED
  BY <1>1, <1>2, <1>3, <1>4

(* Every test that regressed is told of, for all histories, coverage,      *)
(* localization findings and replays.                                      *)
THEOREM NoRegressionLostHolds == Spec => []NoRegressionLost
PROOF
<1>1. ToldIsSynthesized => NoRegressionLost
  BY RegressionSaid DEF ToldIsSynthesized, NoRegressionLost
<1> QED
  BY <1>1, ToldInit, ToldStep, PTL DEF Spec

(***************************************************************************)
(* Numbers                                                                 *)
(***************************************************************************)

\* A non-empty set of naturals has a least element.
LEMMA LeastOf ==
  ASSUME NEW S \in SUBSET Nat, S # {}
  PROVE  \E x \in S : \A y \in S : x =< y
PROOF
<1>1. PICK x \in S : \A y \in S : <<y, x>> \notin OpToRel(<, Nat)
  BY WFMin, NatLessThanWellFounded
<1>2. \A y \in S : ~(y < x)
  BY <1>1, Zenon DEF OpToRel
<1> QED
  BY <1>2

\* A bounded, non-empty one has a greatest.
LEMMA GreatestOf ==
  ASSUME NEW n \in Nat, NEW S \in SUBSET (0..n), S # {}
  PROVE  \E x \in S : \A y \in S : y =< x
PROOF
<1> DEFINE T == {n - x : x \in S}
<1>1. T \in SUBSET Nat
  <2>1. \A x \in S : n - x \in Nat
    OBVIOUS
  <2> QED
    BY <2>1
<1>2. T # {}
  OBVIOUS
<1>3. PICK t \in T : \A y \in T : t =< y
  <2> HIDE DEF T
  <2> QED
    BY <1>1, <1>2, LeastOf
<1>4. PICK x \in S : t = n - x
  BY <1>3
<1>5. \A y \in S : y =< x
  <2> TAKE y \in S
  <2>1. n - x =< n - y
    BY <1>3, <1>4
  <2> QED
    BY <2>1
<1> QED
  BY <1>5

(***************************************************************************)
(* The fold that collapses the results under one node id                   *)
(*                                                                         *)
(* The library's theorems on recursive definitions take operators, so the  *)
(* two inductions here are made by hand: the least number of results for   *)
(* which the claim fails is neither 0 nor the successor of another.        *)
(***************************************************************************)

\* One turn of the loop.
Keeps(run, n, kept, i) ==
  IF /\ run.results[i].node = n
     /\ kept = Absent \/ run.results[i].outcome \in FailLike \/ kept.outcome \notin FailLike
  THEN run.results[i] ELSE kept

\* The function a fold is the value of: from sets of places to what is kept.
Folds(run, n, D, f) ==
  f = [S \in SUBSET D |-> IF S = {} THEN Absent ELSE Keeps(run, n, f[S \ {Max(S)}], Max(S))]

LEMMA RepresentativeFolds ==
  ASSUME NEW run, NEW n
  PROVE  Representative(run, n) =
           (CHOOSE f : Folds(run, n, DOMAIN run.results, f))[DOMAIN run.results]
BY DEF Representative, FoldLeft, MapThenFoldSet, Folds, Keeps

LEMMA MaxOfUpTo ==
  ASSUME NEW k \in Nat, NEW S \in SUBSET (1..(k + 1)), S # {}
  PROVE  /\ Max(S) \in S
         /\ k + 1 \in S => Max(S) = k + 1
PROOF
<1>1. S \in SUBSET (0..(k + 1)) /\ k + 1 \in Nat
  OBVIOUS
<1>2. PICK x \in S : \A y \in S : y =< x
  BY <1>1, GreatestOf
<1>3. \A y \in S : x >= y
  BY <1>1, <1>2
<1>4. Max(S) \in S /\ \A y \in S : Max(S) >= y
  BY <1>3 DEF Max
<1>5. Max(S) \in 1..(k + 1) /\ (k + 1 \in S => Max(S) >= k + 1)
  BY <1>4
<1> QED
  BY <1>4, <1>5

\* There is such a function, however many results there are.
LEMMA FoldExists ==
  ASSUME NEW run, NEW n, NEW m \in Nat
  PROVE  \E f : Folds(run, n, 1..m, f)
PROOF
<1> DEFINE Bad == {k \in Nat : ~\E f : Folds(run, n, 1..k, f)}
<1> SUFFICES ASSUME Bad # {} PROVE FALSE
  OBVIOUS
<1>1. PICK k \in Bad : \A y \in Bad : k =< y
  BY LeastOf
<1>2. k # 0
  <2> DEFINE f == [S \in SUBSET (1..0) |-> Absent]
  <2>1. \A S \in SUBSET (1..0) : S = {}
    OBVIOUS
  <2>2. Folds(run, n, 1..0, f)
    BY <2>1 DEF Folds
  <2> QED
    BY <1>1, <2>2
<1> DEFINE j == k - 1
<1>3. j \in Nat /\ k = j + 1 /\ j \notin Bad
  BY <1>1, <1>2
<1>4. PICK g : Folds(run, n, 1..j, g)
  BY <1>3
<1> HIDE DEF j
<1> DEFINE f == [S \in SUBSET (1..(j + 1)) |->
                   IF j + 1 \in S THEN Keeps(run, n, g[S \ {j + 1}], j + 1) ELSE g[S]]
<1>5. \A S \in SUBSET (1..(j + 1)) : j + 1 \notin S => S \in SUBSET (1..j) /\ f[S] = g[S]
  BY <1>3
<1>6. \A S \in SUBSET (1..(j + 1)) :
        f[S] = IF S = {} THEN Absent ELSE Keeps(run, n, f[S \ {Max(S)}], Max(S))
  <2> TAKE S \in SUBSET (1..(j + 1))
  <2>1. CASE S = {}
    <3>1. f[S] = g[S] /\ S \in SUBSET (1..j)
      BY <2>1, <1>5
    <3> QED
      BY <2>1, <3>1, <1>4 DEF Folds
  <2>2. CASE S # {} /\ j + 1 \in S
    <3>1. Max(S) = j + 1
      BY <2>2, <1>3, MaxOfUpTo
    <3>2. S \ {j + 1} \in SUBSET (1..(j + 1)) /\ j + 1 \notin S \ {j + 1}
      OBVIOUS
    <3>3. f[S \ {j + 1}] = g[S \ {j + 1}]
      BY <3>2, <1>5
    <3>4. f[S] = Keeps(run, n, g[S \ {j + 1}], j + 1)
      BY <2>2
    <3> QED
      BY <2>2, <3>1, <3>3, <3>4
  <2>3. CASE S # {} /\ j + 1 \notin S
    <3>1. S \in SUBSET (1..j) /\ f[S] = g[S]
      BY <2>3, <1>5
    <3>2. S \ {Max(S)} \in SUBSET (1..(j + 1)) /\ j + 1 \notin S \ {Max(S)}
      BY <2>3
    <3>3. f[S \ {Max(S)}] = g[S \ {Max(S)}]
      BY <3>2, <1>5
    <3>4. g[S] = IF S = {} THEN Absent ELSE Keeps(run, n, g[S \ {Max(S)}], Max(S))
      BY <3>1, <1>4 DEF Folds
    <3> HIDE DEF f
    <3> QED
      BY <2>3, <3>1, <3>3, <3>4
  <2> QED
    BY <2>1, <2>2, <2>3
<1>7. Folds(run, n, 1..(j + 1), f)
  <2>1. f = [S \in SUBSET (1..(j + 1)) |-> f[S]]
    OBVIOUS
  <2> HIDE DEF f
  <2> QED
    BY <1>6, <2>1 DEF Folds
<1> QED
  BY <1>1, <1>3, <1>7

\* What is kept of the first k results: one of those under the node id or
\* nothing, and a failing one if one of them failed.
KeptWell(run, n, kept, k) ==
  /\ kept = Absent \/ \E i \in 1..k : run.results[i].node = n /\ kept = run.results[i]
  /\ (\E i \in 1..k : run.results[i].node = n /\ run.results[i].outcome \in FailLike) =>
       kept.outcome \in FailLike

LEMMA KeepsWell ==
  ASSUME NEW run, NEW n, NEW k \in Nat, NEW kept, KeptWell(run, n, kept, k)
  PROVE  KeptWell(run, n, Keeps(run, n, kept, k + 1), k + 1)
PROOF
<1>1. 1..(k + 1) = (1..k) \cup {k + 1} /\ k + 1 \in 1..(k + 1)
  OBVIOUS
<1>2. Absent.outcome \notin FailLike
  BY DEF Absent, FailLike
<1>3. CASE Keeps(run, n, kept, k + 1) = run.results[k + 1] /\ run.results[k + 1].node = n
  <2>1. CASE run.results[k + 1].outcome \in FailLike
    BY <1>1, <1>3, <2>1 DEF KeptWell
  <2>2. CASE run.results[k + 1].outcome \notin FailLike /\ Keeps(run, n, kept, k + 1) = kept
    BY <1>1, <1>3, <2>2 DEF KeptWell
  <2>3. CASE run.results[k + 1].outcome \notin FailLike /\ Keeps(run, n, kept, k + 1) # kept
    <3>1. kept.outcome \notin FailLike
      BY <1>2, <2>3 DEF Keeps
    <3> QED
      BY <1>1, <1>3, <2>3, <3>1 DEF KeptWell
  <2> QED
    BY <2>1, <2>2, <2>3
<1>4. CASE ~(Keeps(run, n, kept, k + 1) = run.results[k + 1] /\ run.results[k + 1].node = n)
  <2>1. Keeps(run, n, kept, k + 1) = kept
    BY <1>4 DEF Keeps
  <2>2. ~(run.results[k + 1].node = n /\ run.results[k + 1].outcome \in FailLike)
    BY <1>4 DEF Keeps
  <2> QED
    BY <1>1, <2>1, <2>2 DEF KeptWell
<1> QED
  BY <1>3, <1>4

LEMMA FoldKeepsWell ==
  ASSUME NEW run, NEW n, NEW m \in Nat, NEW f, Folds(run, n, 1..m, f)
  PROVE  KeptWell(run, n, f[1..m], m)
PROOF
<1> DEFINE Bad == {k \in 0..m : ~KeptWell(run, n, f[1..k], k)}
<1> SUFFICES ASSUME Bad # {} PROVE FALSE
  OBVIOUS
<1>1. PICK k \in Bad : \A y \in Bad : k =< y
  <2>1. Bad \in SUBSET Nat
    OBVIOUS
  <2> HIDE DEF Bad
  <2> QED
    BY <2>1, LeastOf
<1>2. k # 0
  <2>1. 1..0 = {} /\ {} \in SUBSET (1..m)
    OBVIOUS
  <2>2. f[1..0] = Absent
    BY <2>1 DEF Folds
  <2>3. KeptWell(run, n, f[1..0], 0)
    BY <2>1, <2>2 DEF KeptWell
  <2> QED
    BY <1>1, <2>3
<1> DEFINE j == k - 1
<1>3. j \in Nat /\ k = j + 1 /\ j \notin Bad /\ j \in 0..m /\ j + 1 =< m
  BY <1>1, <1>2
<1>4. KeptWell(run, n, f[1..j], j)
  BY <1>3
<1> HIDE DEF j
<1>5. 1..(j + 1) \in SUBSET (1..m) /\ j + 1 \in 1..(j + 1) /\ (1..(j + 1)) \ {j + 1} = 1..j
  BY <1>3
<1>6. Max(1..(j + 1)) = j + 1
  BY <1>3, <1>5, MaxOfUpTo
<1>7. f[1..(j + 1)] = Keeps(run, n, f[1..j], j + 1)
  BY <1>5, <1>6 DEF Folds
<1>8. KeptWell(run, n, f[1..(j + 1)], j + 1)
  BY <1>3, <1>4, <1>7, KeepsWell
<1> QED
  BY <1>1, <1>3, <1>8

\* A node id is represented by one of its results, and by a failing one if
\* there is one.
LEMMA RepresentativeIsWell ==
  ASSUME NEW run, NEW R, run.results \in Seq(R), NEW n
  PROVE  KeptWell(run, n, Representative(run, n), Len(run.results))
PROOF
<1>1. Len(run.results) \in Nat /\ DOMAIN run.results = 1..Len(run.results)
  OBVIOUS
<1> DEFINE f == CHOOSE g : Folds(run, n, 1..Len(run.results), g)
<1>2. Folds(run, n, 1..Len(run.results), f)
  BY <1>1, FoldExists
<1>3. Representative(run, n) = f[1..Len(run.results)]
  BY <1>1, RepresentativeFolds
<1> HIDE DEF f
<1> QED
  BY <1>1, <1>2, <1>3, FoldKeepsWell

LEMMA FailedIsRepresented ==
  ASSUME NEW run, NEW R, run.results \in Seq(R), NEW n \in FailedTests(run)
  PROVE  /\ n \in Nodes(run)
         /\ Representative(run, n) # Absent
         /\ Bucket(Representative(run, n).outcome) = "fail"
PROOF
<1>1. DOMAIN run.results = 1..Len(run.results)
  OBVIOUS
<1>2. PICK i \in DOMAIN run.results : run.results[i].node = n /\ run.results[i].outcome \in FailLike
  BY DEF FailedTests
<1>3. Representative(run, n).outcome \in FailLike
  BY <1>1, <1>2, RepresentativeIsWell DEF KeptWell
<1>4. n \in Nodes(run)
  BY <1>2 DEF Nodes
<1>5. Absent.outcome \notin FailLike
  BY DEF Absent, FailLike
<1>6. Bucket(Representative(run, n).outcome) = "fail"
  BY <1>3 DEF Bucket, PassLike, FailLike, SkipLike, Known
<1> QED
  BY <1>3, <1>4, <1>5, <1>6

LEMMA BucketIsOneOfThree ==
  ASSUME NEW outcome
  PROVE  Bucket(outcome) \in {"pass", "fail", "skip"}
BY DEF Bucket, BucketDefensively, Known

LEMMA FailureIsSeen ==
  ASSUME NEW base, NEW target, NEW R, base.results \in Seq(R), NEW Q, target.results \in Seq(Q)
  PROVE  /\ \A n \in FailedTests(target) : Transitions(base, target)[n] \notin
              {"fixed", "still_passing", "still_skipped", "newly_skipped", "removed"}
         /\ \A n \in FailedTests(base) : Transitions(base, target)[n] \notin {"regressed", "still_passing"}
PROOF
<1>1. ASSUME NEW n \in FailedTests(target)
      PROVE  Transitions(base, target)[n] \notin
               {"fixed", "still_passing", "still_skipped", "newly_skipped", "removed"}
  <2>1. /\ n \in Nodes(target) /\ Representative(target, n) # Absent
        /\ Bucket(Representative(target, n).outcome) = "fail"
    BY FailedIsRepresented
  <2> DEFINE old == Representative(base, n)
             new == Representative(target, n)
  <2>2. Transitions(base, target)[n] = Category(old, new)
    BY <2>1 DEF Transitions
  <2>3. Category(old, new) = IF old = Absent THEN "added" ELSE Classify(Bucket(old.outcome), "fail")
    BY <2>1 DEF Category
  <2>4. Bucket(old.outcome) \in {"pass", "fail", "skip"}
    BY BucketIsOneOfThree
  <2> HIDE DEF old, new
  <2>5. Classify(Bucket(old.outcome), "fail") \in {"regressed", "still_failing", "newly_active"}
    BY <2>4 DEF Classify
  <2> QED
    BY <2>2, <2>3, <2>5
<1>2. ASSUME NEW n \in FailedTests(base)
      PROVE  Transitions(base, target)[n] \notin {"regressed", "still_passing"}
  <2>1. /\ n \in Nodes(base) /\ Representative(base, n) # Absent
        /\ Bucket(Representative(base, n).outcome) = "fail"
    BY FailedIsRepresented
  <2> DEFINE old == Representative(base, n)
             new == Representative(target, n)
  <2>2. Transitions(base, target)[n] = Category(old, new)
    BY <2>1 DEF Transitions
  <2>3. Category(old, new) = IF new = Absent THEN "removed" ELSE Classify("fail", Bucket(new.outcome))
    BY <2>1 DEF Category
  <2>4. Bucket(new.outcome) \in {"pass", "fail", "skip"}
    BY BucketIsOneOfThree
  <2> HIDE DEF old, new
  <2>5. Classify("fail", Bucket(new.outcome)) \in {"fixed", "still_failing", "newly_skipped"}
    BY <2>4 DEF Classify
  <2> QED
    BY <2>2, <2>3, <2>5
<1> QED
  BY <1>1, <1>2

(***************************************************************************)
(* What is stored                                                          *)
(***************************************************************************)

\* One slot per run everywhere; a run's results are a list.
SlotsInv ==
  /\ runs \in Seq(Range(runs)) /\ \A r \in DOMAIN runs : runs[r].results \in Seq(Range(runs[r].results))
  /\ cov \in Seq(Range(cov)) /\ loc \in Seq(Range(loc))
  /\ replayed \in Seq(Range(replayed)) /\ told \in Seq(Range(told))
  /\ Len(cov) = Len(runs) /\ Len(loc) = Len(runs) /\ Len(replayed) = Len(runs) /\ Len(told) = Len(runs)

LEMMA AppendOverRange ==
  ASSUME NEW s, s \in Seq(Range(s)), NEW x
  PROVE  /\ Append(s, x) \in Seq(Range(Append(s, x)))
         /\ Len(Append(s, x)) = Len(s) + 1
         /\ DOMAIN Append(s, x) = 1..(Len(s) + 1)
         /\ Append(s, x)[Len(s) + 1] = x
         /\ \A i \in DOMAIN s : Append(s, x)[i] = s[i]
PROOF
<1>1. Len(s) \in Nat /\ DOMAIN s = 1..Len(s) /\ s \in Seq(Range(s) \cup {x})
  BY SeqMonotonic
<1>2. /\ Append(s, x) \in Seq(Range(s) \cup {x})
      /\ Len(Append(s, x)) = Len(s) + 1
      /\ DOMAIN Append(s, x) = 1..(Len(s) + 1)
      /\ Append(s, x)[Len(s) + 1] = x
      /\ \A i \in DOMAIN s : Append(s, x)[i] = s[i]
  BY <1>1
<1>3. Append(s, x) \in Seq(Range(Append(s, x)))
  BY <1>2, OverItsRange
<1> QED
  BY <1>2, <1>3

LEMMA ExceptOverRange ==
  ASSUME NEW s, s \in Seq(Range(s)), NEW i, NEW x, NEW t, t = [s EXCEPT ![i] = x]
  PROVE  /\ t \in Seq(Range(t))
         /\ Len(t) = Len(s)
         /\ DOMAIN t = DOMAIN s
         /\ \A j \in DOMAIN s : t[j] = IF j = i THEN x ELSE s[j]
PROOF
<1>1. Len(s) \in Nat /\ DOMAIN s = 1..Len(s) /\ s \in Seq(Range(s) \cup {x})
  BY SeqMonotonic
<1>2. t \in Seq(Range(s) \cup {x}) /\ Len(t) = Len(s)
  <2>1. CASE i \in DOMAIN s
    BY <1>1, <2>1
  <2>2. CASE i \notin DOMAIN s
    <3>1. t = s
      BY <2>2, <1>1
    <3> QED
      BY <3>1, <1>1
  <2> QED
    BY <2>1, <2>2
<1>3. t \in Seq(Range(t))
  BY <1>2, OverItsRange
<1>4. DOMAIN t = DOMAIN s /\ \A j \in DOMAIN s : t[j] = IF j = i THEN x ELSE s[j]
  BY <1>1
<1> QED
  BY <1>2, <1>3, <1>4

LEMMA SlotsInit == Init => SlotsInv
  BY DEF Init, SlotsInv, Range

LEMMA SlotsStep == SlotsInv /\ [Next]_vars => SlotsInv'
PROOF
<1> SUFFICES ASSUME SlotsInv, [Next]_vars PROVE SlotsInv'
  OBVIOUS
<1>0. /\ runs \in Seq(Range(runs)) /\ \A r \in DOMAIN runs : runs[r].results \in Seq(Range(runs[r].results))
      /\ cov \in Seq(Range(cov)) /\ loc \in Seq(Range(loc))
      /\ replayed \in Seq(Range(replayed)) /\ told \in Seq(Range(told))
      /\ Len(cov) = Len(runs) /\ Len(loc) = Len(runs) /\ Len(replayed) = Len(runs) /\ Len(told) = Len(runs)
  BY DEF SlotsInv
<1>1. CASE Execute
  <2>1. PICK h \in Histories : Len(h) > Newest /\ runs' = Append(runs, h[Newest + 1])
    BY <1>1 DEF Execute, NextRuns
  <2>2. h \in Seq(Range(h)) /\ \A i \in DOMAIN h : h[i].results \in Seq(Range(h[i].results))
    BY AnalysisConstants DEF RunIsTyped
  <2>3. Newest \in Nat /\ Len(h) \in Nat /\ Newest + 1 \in DOMAIN h
    BY <1>0, <2>1, <2>2 DEF Newest
  <2> DEFINE new == h[Newest + 1]
  <2>4. new.results \in Seq(Range(new.results))
    BY <2>2, <2>3
  <2> HIDE DEF new
  <2>5. runs' = Append(runs, new)
    BY <2>1 DEF new
  <2>6. /\ cov' = Append(cov, None) /\ loc' = Append(loc, None)
        /\ replayed' = Append(replayed, None) /\ told' = Append(told, None)
    BY <1>1 DEF Execute
  <2>7. /\ runs' \in Seq(Range(runs')) /\ Len(runs') = Len(runs) + 1 /\ DOMAIN runs' = 1..(Len(runs) + 1)
        /\ runs'[Len(runs) + 1] = new /\ \A i \in DOMAIN runs : runs'[i] = runs[i]
    BY <1>0, <2>5, AppendOverRange
  <2>8. DOMAIN runs = 1..Len(runs) /\ Len(runs) \in Nat
    BY <1>0
  <2>9. \A r \in DOMAIN runs' : runs'[r].results \in Seq(Range(runs'[r].results))
    <3> TAKE r \in DOMAIN runs'
    <3>1. CASE r = Len(runs) + 1
      BY <2>4, <2>7, <3>1
    <3>2. CASE r # Len(runs) + 1
      <4>1. r \in DOMAIN runs
        BY <2>7, <2>8, <3>2
      <4>2. runs'[r] = runs[r]
        BY <2>7, <4>1
      <4> QED
        BY <1>0, <4>1, <4>2
    <3> QED
      BY <3>1, <3>2
  <2>10. /\ cov' \in Seq(Range(cov')) /\ loc' \in Seq(Range(loc'))
         /\ replayed' \in Seq(Range(replayed')) /\ told' \in Seq(Range(told'))
         /\ Len(cov') = Len(cov) + 1 /\ Len(loc') = Len(loc) + 1
         /\ Len(replayed') = Len(replayed) + 1 /\ Len(told') = Len(told) + 1
    BY <1>0, <2>6, AppendOverRange
  <2> QED
    BY <1>0, <2>7, <2>9, <2>10 DEF SlotsInv
<1>2. CASE Derive
  <2>1. PICK x : cov' = [cov EXCEPT ![Newest] = x]
    BY <1>2 DEF Derive
  <2>2. cov' \in Seq(Range(cov'))
    BY <1>0, <2>1, ExceptOverRange
  <2>3. Len(cov') = Len(cov)
    BY <1>0, <2>1, ExceptOverRange
  <2> QED
    BY <1>0, <1>2, <2>2, <2>3 DEF Derive, SlotsInv
<1>3. CASE Localize \/ \E r \in DOMAIN runs, f \in ElsewhereFormulas : LocalizeElsewhere(r, f)
  <2>0. UNCHANGED <<runs, cov, replayed, told>>
    BY <1>3 DEF Localize, LocalizeElsewhere
  <2>1. PICK i, x : loc' = [loc EXCEPT ![i] = x]
    BY <1>3 DEF Localize, LocalizeElsewhere
  <2>2. loc' \in Seq(Range(loc'))
    BY <1>0, <2>1, ExceptOverRange
  <2>3. Len(loc') = Len(loc)
    BY <1>0, <2>1, ExceptOverRange
  <2> QED
    BY <1>0, <2>0, <2>2, <2>3 DEF SlotsInv
<1>4. CASE Rerun
  <2>0. UNCHANGED <<runs, cov, loc, told>>
    BY <1>4 DEF Rerun
  <2>1. PICK x : replayed' = [replayed EXCEPT ![Newest] = x] \/ UNCHANGED replayed
    BY <1>4 DEF Rerun
  <2>2. replayed' \in Seq(Range(replayed'))
    BY <1>0, <2>1, ExceptOverRange
  <2>3. Len(replayed') = Len(replayed)
    BY <1>0, <2>1, ExceptOverRange
  <2> QED
    BY <1>0, <2>0, <2>2, <2>3 DEF SlotsInv
<1>5. CASE Recommend
  <2>0. UNCHANGED <<runs, cov, loc, replayed>>
    BY <1>5 DEF Recommend, facts
  <2>1. PICK x : told' = [told EXCEPT ![Newest] = x]
    BY <1>5 DEF Recommend
  <2>2. told' \in Seq(Range(told'))
    BY <1>0, <2>1, ExceptOverRange
  <2>3. Len(told') = Len(told)
    BY <1>0, <2>1, ExceptOverRange
  <2> QED
    BY <1>0, <2>0, <2>2, <2>3 DEF SlotsInv
<1>6. CASE Compare \/ SkipRerun \/ UNCHANGED vars \/ \E b, t \in DOMAIN runs : CompareElsewhere(b, t)
  BY <1>0, <1>6 DEF SlotsInv, Compare, SkipRerun, CompareElsewhere, vars, facts
<1> QED
  BY <1>1, <1>2, <1>3, <1>4, <1>5, <1>6 DEF Next

\* Facts of a pair are about two runs there are, and are what a comparison
\* of these two says.
RegInv ==
  \A p \in DOMAIN reg :
    /\ p \in (DOMAIN runs) \X (DOMAIN runs)
    /\ reg[p].state = "facts"
    /\ reg[p].transitions = Transitions(runs[p[1]], runs[p[2]])

\* Nothing failed, or every test's own coverage is of no line: there is
\* nothing to localize, whatever the formula and the change.
Unlocalizable(run, c) ==
  \/ FailedTests(run) = {}
  \/ c.state = "facts" /\ c.granularity = "per-test" /\ Places(c.files) = {}

\* What a bundle for run r got from each stage, and what is stored.
Began(b, r) ==
  /\ b = [run |-> runs[r], coverage |-> runs[r].coverage, regression |-> b.regression,
          localization |-> b.localization, replay |-> b.replay, replays |-> b.replays]
  /\ cov[r] = IF Found(runs[r].coverage) THEN runs[r].coverage ELSE None
HasCompared(b, r) ==
  LET q == BaselineFor(runs, DOMAIN runs, r)
  IN  IF q = 0 THEN ~Found(b.regression) ELSE <<q, r>> \in DOMAIN reg /\ b.regression = reg[<<q, r>>]
HasLocalized(b, r) == ~Found(b.localization) => Unlocalizable(runs[r], cov[r]) /\ ~Found(loc[r])
Unreplayed(b, r) == b.replays = {} /\ replayed[r] = None
HasReplayed(b, r) ==
  \/ b.replay \in {"not_run", "unavailable"} /\ Unreplayed(b, r)
  \/ b.replay = "available" /\ Found(replayed[r]) /\ b.replays = {replayed[r]}
WholeBundle(b, r) == Began(b, r) /\ HasCompared(b, r) /\ HasLocalized(b, r) /\ HasReplayed(b, r)

\* The bundle of the `test` under way is that of the newest run, as far as
\* the stages have come.
GatherInv ==
  /\ stage \in Stages
  /\ stage # "idle" => Newest >= 1 /\ told[Newest] = None
  /\ stage = "coverage" => cov[Newest] = None
  /\ stage = "coverage" => replayed[Newest] = None
  /\ stage \in {"regression", "localization", "replay", "recommend"} => Began(bundle, Newest)
  /\ stage \in {"regression", "localization", "replay"} => bundle.replay = "not_run" /\ Unreplayed(bundle, Newest)
  /\ stage \in {"localization", "replay", "recommend"} => HasCompared(bundle, Newest)
  /\ stage \in {"replay", "recommend"} => HasLocalized(bundle, Newest)
  /\ stage = "recommend" => HasReplayed(bundle, Newest)

\* A replay blames a test of the run it is of, or none.
BlameInv == \A r \in DOMAIN replayed : Found(replayed[r]) => replayed[r].test \in {NoTest} \cup Nodes(runs[r])

\* A bundle that was told of is still what is stored of its run.
ToldInv == \A r \in DOMAIN told : Told(r) => WholeBundle(told[r].bundle, r)

(***************************************************************************)
(* Pairs of runs, and the facts about them                                 *)
(***************************************************************************)

Older(r) == {q \in DOMAIN runs : q < r /\ runs[q].target = runs[r].target /\ runs[q].engine = runs[r].engine}

LEMMA GreatestRun ==
  ASSUME SlotsInv, NEW S \in SUBSET DOMAIN runs, S # {}
  PROVE  /\ (CHOOSE q \in S : \A p \in S : p <= q) \in S
         /\ \A p \in S : p <= (CHOOSE q \in S : \A x \in S : x <= q)
PROOF
<1>1. S \in SUBSET (0..Len(runs)) /\ Len(runs) \in Nat
  <2>1. runs \in Seq(Range(runs))
    BY DEF SlotsInv
  <2>2. DOMAIN runs = 1..Len(runs) /\ Len(runs) \in Nat
    BY <2>1
  <2> QED
    BY <2>2
<1>2. \E q \in S : \A p \in S : p <= q
  BY <1>1, GreatestOf
<1> QED
  BY <1>2

LEMMA BaselineIsOlder ==
  ASSUME SlotsInv, NEW r
  PROVE  IF Older(r) = {} THEN BaselineFor(runs, DOMAIN runs, r) = 0
         ELSE /\ BaselineFor(runs, DOMAIN runs, r) \in Older(r)
              /\ BaselineFor(runs, DOMAIN runs, r) # 0
PROOF
<1>1. CASE Older(r) = {}
  BY <1>1 DEF BaselineFor, Older
<1>2. CASE Older(r) # {}
  <2>1. Older(r) \in SUBSET DOMAIN runs
    BY DEF Older
  <2>2. BaselineFor(runs, DOMAIN runs, r) = CHOOSE q \in Older(r) : \A p \in Older(r) : p <= q
    BY <1>2 DEF BaselineFor, Older
  <2>3. BaselineFor(runs, DOMAIN runs, r) \in Older(r)
    BY <1>2, <2>1, <2>2, GreatestRun
  <2>4. runs \in Seq(Range(runs))
    BY DEF SlotsInv
  <2>5. 0 \notin DOMAIN runs
    BY <2>4
  <2> QED
    BY <1>2, <2>1, <2>3, <2>5
<1> QED
  BY <1>1, <1>2

LEMMA LatestPairIs ==
  ASSUME SlotsInv, NEW target, NEW pair, pair = LatestPair(runs, DOMAIN runs, target)
  PROVE  pair[1] # 0 => pair \in (DOMAIN runs) \X (DOMAIN runs)
PROOF
<1> DEFINE of == {q \in DOMAIN runs : runs[q].target = target}
           newest == CHOOSE q \in of : \A p \in of : p <= q
<1>1. CASE Cardinality(of) < 2
  <2>1. pair = <<0, 0>>
    BY <1>1 DEF LatestPair
  <2> QED
    BY <2>1
<1>2. CASE ~(Cardinality(of) < 2)
  <2>1. pair = <<BaselineFor(runs, DOMAIN runs, newest), newest>>
    BY <1>2 DEF LatestPair
  <2>2. of # {}
    BY <1>2, FS_EmptySet
  <2>3. newest \in DOMAIN runs
    BY <2>2, GreatestRun
  <2> HIDE DEF newest
  <2>4. BaselineFor(runs, DOMAIN runs, newest) # 0 => BaselineFor(runs, DOMAIN runs, newest) \in DOMAIN runs
    BY BaselineIsOlder DEF Older
  <2> QED
    BY <2>1, <2>3, <2>4
<1> QED
  BY <1>1, <1>2

\* The newest run of its own target is the newest run.
LEMMA LatestPairOfNewest ==
  ASSUME SlotsInv, Newest \in DOMAIN runs, NEW pair, pair = LatestPair(runs, DOMAIN runs, runs[Newest].target)
  PROVE  IF pair[1] = 0 THEN BaselineFor(runs, DOMAIN runs, Newest) = 0
         ELSE pair = <<BaselineFor(runs, DOMAIN runs, Newest), Newest>>
PROOF
<1> DEFINE of == {q \in DOMAIN runs : runs[q].target = runs[Newest].target}
           newest == CHOOSE q \in of : \A p \in of : p <= q
<1>0. runs \in Seq(Range(runs))
  BY DEF SlotsInv
<1>1. Newest \in of /\ DOMAIN runs = 1..Newest /\ Newest \in Nat
  BY <1>0 DEF Newest
<1>2. CASE Cardinality(of) < 2
  <2>1. Older(Newest) = {}
    <3> SUFFICES ASSUME NEW q \in Older(Newest) PROVE FALSE
      OBVIOUS
    <3>1. q \in of /\ q # Newest
      BY <1>1 DEF Older
    <3>2. IsFiniteSet(of) /\ Cardinality({q, Newest}) = 2 /\ {q, Newest} \subseteq of
      <4>1. IsFiniteSet(1..Newest)
        BY <1>1, FS_Interval
      <4>2. IsFiniteSet(of)
        BY <1>1, <4>1, FS_Subset
      <4>3. IsFiniteSet({Newest}) /\ Cardinality({Newest}) = 1
        BY FS_Singleton
      <4>4. {Newest} \cup {q} = {q, Newest} /\ q \notin {Newest}
        BY <3>1
      <4>5. Cardinality({Newest} \cup {q}) = Cardinality({Newest}) + 1
        BY <4>3, <4>4, FS_AddElement
      <4>6. Cardinality({q, Newest}) = 2
        BY <4>3, <4>4, <4>5
      <4> QED
        BY <1>1, <3>1, <4>2, <4>6
    <3>3. 2 <= Cardinality(of) /\ Cardinality(of) \in Nat
      BY <3>2, FS_Subset, FS_CardinalityType
    <3> QED
      BY <1>2, <3>3
  <2>2. pair = <<0, 0>>
    BY <1>2 DEF LatestPair
  <2> QED
    BY <2>1, <2>2, BaselineIsOlder
<1>3. CASE ~(Cardinality(of) < 2)
  <2>1. pair = <<BaselineFor(runs, DOMAIN runs, newest), newest>>
    BY <1>3 DEF LatestPair
  <2>2. newest \in of /\ \A p \in of : p <= newest
    BY <1>1, GreatestRun
  <2>3. newest = Newest
    <3> HIDE DEF newest
    <3>1. newest \in 1..Newest /\ Newest <= newest
      BY <1>1, <2>2
    <3> QED
      BY <1>1, <3>1
  <2> HIDE DEF newest
  <2> QED
    BY <2>1, <2>3
<1> QED
  BY <1>2, <1>3

\* What a comparison says of two runs, served or made.
LEMMA ComparedIs ==
  ASSUME RegInv, NEW b, NEW t, Found(Compared(b, t))
  PROVE  /\ Compared(b, t).state = "facts"
         /\ Compared(b, t).transitions = Transitions(runs[b], runs[t])
         /\ <<b, t>> \in DOMAIN reg => Compared(b, t) = reg[<<b, t>>]
PROOF
<1>1. CASE <<b, t>> \in DOMAIN reg
  <2>1. reg[<<b, t>>].state = "facts" /\ reg[<<b, t>>].transitions = Transitions(runs[b], runs[t])
    BY <1>1 DEF RegInv
  <2>2. Compared(b, t) = reg[<<b, t>>]
    BY <1>1, <2>1 DEF Compared, Pair, Found
  <2> QED
    BY <2>1, <2>2
<1>2. CASE <<b, t>> \notin DOMAIN reg
  <2>1. ~Found(Pair(b, t))
    BY <1>2 DEF Pair, Found, None
  <2> DEFINE made == Comparison(runs[b], runs[t], FilesOf(cov[b]), FilesOf(cov[t]), CoverageComparable(b, t))
  <2>2. Compared(b, t) = made
    BY <2>1 DEF Compared
  <2>3. CASE runs[b].engine # runs[t].engine
    <3>1. made = Refused("engine-mismatch")
      BY <2>3 DEF Comparison
    <3>2. ~Found(Refused("engine-mismatch"))
      BY DEF Found, Refused
    <3> QED
      BY <2>2, <3>1, <3>2
  <2>4. CASE runs[b].engine = runs[t].engine /\ runs[b].target # runs[t].target
    <3>1. made = Refused("target-mismatch")
      BY <2>4 DEF Comparison
    <3>2. ~Found(Refused("target-mismatch"))
      BY DEF Found, Refused
    <3> QED
      BY <2>2, <3>1, <3>2
  <2>5. CASE runs[b].engine = runs[t].engine /\ runs[b].target = runs[t].target
    <3>1. made.state = "facts" /\ made.transitions = Transitions(runs[b], runs[t])
      BY <2>5 DEF Comparison
    <3> QED
      BY <1>2, <2>2, <3>1
  <2> QED
    BY <2>3, <2>4, <2>5
<1> QED
  BY <1>1, <1>2

\* Two runs of one target and one engine can be compared.
LEMMA ComparableIsCompared ==
  ASSUME NEW b, NEW t, runs[b].engine = runs[t].engine, runs[b].target = runs[t].target
  PROVE  Found(Compared(b, t))
PROOF
<1>1. Comparison(runs[b], runs[t], FilesOf(cov[b]), FilesOf(cov[t]), CoverageComparable(b, t)).state = "facts"
  BY DEF Comparison
<1> QED
  BY <1>1 DEF Compared, Found

\* A comparison adds the facts of its pair and leaves the others.
LEMMA RegWithIs ==
  ASSUME NEW b, NEW t, NEW outcome, Found(outcome), reg' = RegWith(b, t, outcome)
  PROVE  /\ DOMAIN reg' = DOMAIN reg \cup {<<b, t>>}
         /\ reg'[<<b, t>>] = outcome
         /\ \A p \in DOMAIN reg : p # <<b, t>> => reg'[p] = reg[p]
BY DEF RegWith

RegGrows == \A p \in DOMAIN reg : p \in DOMAIN reg' /\ reg'[p] = reg[p]

\* The steps that compare: what may become of the facts of pairs.
LEMMA ComparingGrows ==
  ASSUME RegInv, NEW b \in DOMAIN runs, NEW t \in DOMAIN runs, reg' = RegWith(b, t, Compared(b, t)), runs' = runs
  PROVE  RegInv' /\ RegGrows
PROOF
<1>1. CASE ~Found(Compared(b, t))
  <2>1. reg' = reg
    BY <1>1 DEF RegWith
  <2> QED
    BY <2>1 DEF RegInv, RegGrows
<1>2. CASE Found(Compared(b, t))
  <2> DEFINE outcome == Compared(b, t)
  <2>1. /\ outcome.state = "facts" /\ outcome.transitions = Transitions(runs[b], runs[t])
        /\ <<b, t>> \in DOMAIN reg => outcome = reg[<<b, t>>]
    BY <1>2, ComparedIs
  <2>2. /\ DOMAIN reg' = DOMAIN reg \cup {<<b, t>>}
        /\ reg'[<<b, t>>] = outcome
        /\ \A p \in DOMAIN reg : p # <<b, t>> => reg'[p] = reg[p]
    BY <1>2, RegWithIs
  <2> HIDE DEF outcome
  <2>3. RegGrows
    BY <2>1, <2>2 DEF RegGrows
  <2>4. RegInv'
    <3> SUFFICES ASSUME NEW p \in DOMAIN reg'
                 PROVE  /\ p \in (DOMAIN runs) \X (DOMAIN runs)
                        /\ reg'[p].state = "facts"
                        /\ reg'[p].transitions = Transitions(runs[p[1]], runs[p[2]])
      BY DEF RegInv
    <3>1. CASE p = <<b, t>>
      BY <2>1, <2>2, <3>1
    <3>2. CASE p # <<b, t>>
      BY <2>2, <3>2 DEF RegInv
    <3> QED
      BY <3>1, <3>2
  <2> QED
    BY <2>3, <2>4
<1> QED
  BY <1>1, <1>2

LEMMA RunsGrow ==
  ASSUME SlotsInv, Execute
  PROVE  /\ DOMAIN runs = 1..Newest /\ DOMAIN runs' = 1..(Newest + 1) /\ Newest \in Nat /\ Newest' = Newest + 1
         /\ \A r \in DOMAIN runs : runs'[r] = runs[r]
         /\ \E new : /\ runs' = Append(runs, new) /\ runs'[Newest + 1] = new
PROOF
<1>0. runs \in Seq(Range(runs))
  BY DEF SlotsInv
<1>1. PICK new : runs' = Append(runs, new)
  BY DEF Execute
<1>2. /\ Len(runs') = Len(runs) + 1 /\ DOMAIN runs' = 1..(Len(runs) + 1)
      /\ runs'[Len(runs) + 1] = new /\ \A i \in DOMAIN runs : runs'[i] = runs[i]
  BY <1>0, <1>1, AppendOverRange
<1>3. DOMAIN runs = 1..Len(runs) /\ Len(runs) \in Nat
  BY <1>0
<1> QED
  BY <1>1, <1>2, <1>3 DEF Newest

LEMMA RegStep == SlotsInv /\ RegInv /\ [Next]_vars => RegInv' /\ RegGrows
PROOF
<1> SUFFICES ASSUME SlotsInv, RegInv, [Next]_vars PROVE RegInv' /\ RegGrows
  OBVIOUS
<1>1. CASE Execute
  <2>1. reg' = reg
    BY <1>1 DEF Execute
  <2>2. DOMAIN runs \subseteq DOMAIN runs' /\ \A r \in DOMAIN runs : runs'[r] = runs[r]
    BY <1>1, RunsGrow
  <2>3. ASSUME NEW p \in DOMAIN reg
        PROVE  /\ p \in (DOMAIN runs') \X (DOMAIN runs') /\ reg[p].state = "facts"
               /\ reg[p].transitions = Transitions(runs'[p[1]], runs'[p[2]])
    <3>1. /\ p \in (DOMAIN runs) \X (DOMAIN runs) /\ reg[p].state = "facts"
          /\ reg[p].transitions = Transitions(runs[p[1]], runs[p[2]])
      BY DEF RegInv
    <3>2. p[1] \in DOMAIN runs /\ p[2] \in DOMAIN runs
      BY <3>1
    <3>3. runs'[p[1]] = runs[p[1]] /\ runs'[p[2]] = runs[p[2]]
      BY <2>2, <3>2
    <3>4. p \in (DOMAIN runs') \X (DOMAIN runs')
      BY <2>2, <3>1
    <3> QED
      BY <3>1, <3>3, <3>4
  <2> QED
    BY <2>1, <2>3 DEF RegInv, RegGrows
<1>2. CASE Compare
  <2> DEFINE pair == LatestPair(runs, DOMAIN runs, bundle.run.target)
  <2>1. CASE pair[1] = 0
    <3>1. reg' = RegWith(pair[1], pair[2], Refused("no-comparable-baseline"))
      BY <1>2, <2>1 DEF Compare
    <3>2. ~Found(Refused("no-comparable-baseline"))
      BY DEF Found, Refused
    <3>3. reg' = reg /\ runs' = runs
      BY <1>2, <3>1, <3>2 DEF RegWith, Compare
    <3> QED
      BY <3>3 DEF RegInv, RegGrows
  <2>2. CASE pair[1] # 0
    <3>1. reg' = RegWith(pair[1], pair[2], Compared(pair[1], pair[2])) /\ runs' = runs
      BY <1>2, <2>2 DEF Compare
    <3>2. pair \in (DOMAIN runs) \X (DOMAIN runs)
      BY <2>2, LatestPairIs
    <3>3. pair[1] \in DOMAIN runs /\ pair[2] \in DOMAIN runs
      BY <3>2
    <3> QED
      BY <3>1, <3>3, ComparingGrows
  <2> QED
    BY <2>1, <2>2
<1>3. ASSUME NEW b \in DOMAIN runs, NEW t \in DOMAIN runs, CompareElsewhere(b, t) PROVE RegInv' /\ RegGrows
  BY <1>3, ComparingGrows DEF CompareElsewhere
<1>4. CASE UNCHANGED <<runs, reg>>
  BY <1>4 DEF RegInv, RegGrows
<1>5. [Next]_vars => Execute \/ Compare \/ (\E b, t \in DOMAIN runs : CompareElsewhere(b, t)) \/ UNCHANGED <<runs, reg>>
  BY DEF Next, vars, facts, Derive, Localize, Rerun, SkipRerun, Recommend, LocalizeElsewhere
<1> QED
  BY <1>1, <1>2, <1>3, <1>4, <1>5

\* For every history of runs whatever its engines, targets and outcomes, with
\* any number of results under one node id: a failing test is never called
\* fixed, passing or skipped by facts that are stored of a pair, nor a test
\* that failed before called regressed (compare.py:359).
THEOREM FailureNeverHiddenHolds == Spec => []FailureNeverHidden
PROOF
<1>1. Init => RegInv
  BY DEF Init, RegInv
<1>2. SlotsInv /\ RegInv => FailureNeverHidden
  <2> SUFFICES ASSUME SlotsInv, RegInv, NEW p \in DOMAIN reg
               PROVE  /\ \A n \in FailedTests(runs[p[2]]) : reg[p].transitions[n] \notin
                           {"fixed", "still_passing", "still_skipped", "newly_skipped", "removed"}
                      /\ \A n \in FailedTests(runs[p[1]]) : reg[p].transitions[n] \notin {"regressed", "still_passing"}
    BY DEF FailureNeverHidden
  <2>1. p[1] \in DOMAIN runs /\ p[2] \in DOMAIN runs /\ reg[p].transitions = Transitions(runs[p[1]], runs[p[2]])
    BY DEF RegInv
  <2>2. /\ runs[p[1]].results \in Seq(Range(runs[p[1]].results))
        /\ runs[p[2]].results \in Seq(Range(runs[p[2]].results))
    BY <2>1 DEF SlotsInv
  <2> QED
    BY <2>1, <2>2, FailureIsSeen
<1> QED
  BY <1>1, <1>2, SlotsInit, SlotsStep, RegStep, PTL DEF Spec

(***************************************************************************)
(* Bundles that say the same                                               *)
(***************************************************************************)

SameFacts(x, y) == (Found(x) /\ x = y) \/ (~Found(x) /\ ~Found(y))

Alike(b, c) ==
  /\ b.run = c.run
  /\ SameFacts(b.coverage, c.coverage) /\ SameFacts(b.regression, c.regression)
  /\ SameFacts(b.localization, c.localization)
  /\ b.replay = "unavailable" <=> c.replay = "unavailable"
  /\ b.replays = c.replays

\* What is proposed depends on the reason of no stage, only on its facts.
LEMMA AlikeHits ==
  ASSUME NEW b, NEW c, Alike(b, c)
  PROVE  Hits(b) = Hits(c) /\ Entries(b) = Entries(c)
PROOF
<1>1. Entries(b) = Entries(c)
  BY DEF Alike, SameFacts, Entries
<1>2. Regressed(b) = Regressed(c)
  BY DEF Alike, SameFacts, Regressed
<1>3. ASSUME NEW e PROVE MissingWithin(b, e) = MissingWithin(c, e)
  BY DEF Alike, SameFacts, MissingWithin
<1>4. RegressionWithLocalization(b) = RegressionWithLocalization(c)
  BY <1>1, <1>2 DEF RegressionWithLocalization
<1>5. InvestigateLocation(b) = InvestigateLocation(c)
  <2>1. CASE Found(b.localization)
    BY <1>1, <2>1 DEF Alike, SameFacts, InvestigateLocation
  <2>2. CASE ~Found(b.localization)
    <3>1. DOMAIN Entries(b) = {} /\ DOMAIN Entries(c) = {}
      BY <1>1, <2>2 DEF Entries
    <3> QED
      BY <1>1, <3>1 DEF InvestigateLocation
  <2> QED
    BY <2>1, <2>2
<1>6. InvestigateRegression(b) = InvestigateRegression(c)
  BY <1>2 DEF InvestigateRegression
<1>7. CoverageGap(b) = CoverageGap(c)
  BY <1>1, <1>3 DEF CoverageGap
<1>8. FlakySuspected(b) = FlakySuspected(c)
  BY DEF Alike, FlakySuspected
<1>9. UnavailableAnalysis(b) = UnavailableAnalysis(c)
  <2>1. UnavailableStages(b) = UnavailableStages(c)
    BY DEF Alike, SameFacts, UnavailableStages
  <2> QED
    BY <2>1 DEF Alike, UnavailableAnalysis
<1>10. AllGreen(b) = AllGreen(c)
  BY <1>2 DEF Alike, AllGreen
<1> QED
  BY <1>1, <1>4, <1>5, <1>6, <1>7, <1>8, <1>9, <1>10 DEF Hits

\* A recommendation has the category and the slot of what was proposed.
LEMMA SaidOfHits ==
  ASSUME NEW b
  PROVE  {<<x.category, x.slot>> : x \in Synthesized(b)}
           = {<<h.category, h.slot>> : h \in Exclusive(Swallow(b, Hits(b)))}
PROOF
<1> DEFINE H == Exclusive(Swallow(b, Hits(b)))
           made(h) == [category |-> h.category, slot |-> h.slot, test |-> h.test, cites |-> Citations(b, h)]
<1>1. Synthesized(b) = {made(h) : h \in H}
  BY DEF Synthesized
<1>2. \A h : made(h).category = h.category /\ made(h).slot = h.slot
  OBVIOUS
<1> HIDE DEF H, made
<1>3. \A x \in Synthesized(b) : \E h \in H : x.category = h.category /\ x.slot = h.slot
  BY <1>1, <1>2
<1>4. \A h \in H : \E x \in Synthesized(b) : x.category = h.category /\ x.slot = h.slot
  BY <1>1, <1>2
<1>5. {<<x.category, x.slot>> : x \in Synthesized(b)} = {<<h.category, h.slot>> : h \in H}
  BY <1>3, <1>4
<1> QED
  BY <1>5 DEF H

LEMMA AlikeIsTold ==
  ASSUME NEW b, NEW c, Alike(b, c)
  PROVE  {<<x.category, x.slot>> : x \in Synthesized(b)} = {<<x.category, x.slot>> : x \in Synthesized(c)}
PROOF
<1>1. Hits(b) = Hits(c) /\ Entries(b) = Entries(c)
  BY AlikeHits
<1>2. \A h : \A x \in {b, c} : Place(x, h) = <<Entries(x)[h.entry].path, Entries(x)[h.entry].primary>>
  BY DEF Place
<1>3. \A h : Place(b, h) = Place(c, h)
  BY <1>1, <1>2
<1>4. Swallow(b, Hits(b)) = Swallow(c, Hits(c))
  BY <1>1, <1>3 DEF Swallow
<1> QED
  BY <1>4, SaidOfHits

LEMMA LocalizedIs ==
  ASSUME NEW run, NEW c, NEW changed, NEW formula, NEW top
  PROVE  Found(Localized(run, c, changed, formula, top)) <=> ~Unlocalizable(run, c)
PROOF
<1>1. CASE FailedTests(run) = {}
  <2>1. Localized(run, c, changed, formula, top) = Refused("no-failed-tests")
    BY <1>1 DEF Localized
  <2> QED
    BY <1>1, <2>1 DEF Refused, Found, Unlocalizable
<1>2. CASE FailedTests(run) # {} /\ c.state # "facts"
  <2>1. Localized(run, c, changed, formula, top) = FailureProximity(run, changed, top)
    BY <1>2 DEF Localized
  <2>2. FailureProximity(run, changed, top).state = "failure_proximity"
    BY DEF FailureProximity, Finding
  <2> QED
    BY <1>2, <2>1, <2>2 DEF Found, Unlocalizable
<1>3. CASE FailedTests(run) # {} /\ c.state = "facts" /\ c.granularity = "per-test"
  <2>1. Localized(run, c, changed, formula, top) =
          IF Places(c.files) = {} THEN Refused("no-coverage") ELSE PerTest(run, c.files, formula, top)
    BY <1>3 DEF Localized
  <2>2. PerTest(run, c.files, formula, top).state = "sbfl_per_test"
    BY DEF PerTest, Finding
  <2>3. ~Found(Refused("no-coverage"))
    BY DEF Refused, Found
  <2> QED
    BY <1>3, <2>1, <2>2, <2>3 DEF Found, Unlocalizable
<1>4. CASE FailedTests(run) # {} /\ c.state = "facts" /\ c.granularity # "per-test"
  <2>1. Localized(run, c, changed, formula, top) = Aggregate(run, c.files, changed, formula, top)
    BY <1>4 DEF Localized
  <2>2. Aggregate(run, c.files, changed, formula, top).state = "sbfl_aggregate"
    BY DEF Aggregate, Finding
  <2> QED
    BY <1>4, <2>1, <2>2 DEF Found, Unlocalizable
<1> QED
  BY <1>1, <1>2, <1>3, <1>4

LEMMA LocalizedRunIs ==
  ASSUME NEW r, NEW formula
  PROVE  Found(LocalizedRun(r, formula)) <=> Found(loc[r]) \/ ~Unlocalizable(runs[r], cov[r])
BY LocalizedIs DEF LocalizedRun

(***************************************************************************)
(* What was told stays what is stored                                      *)
(***************************************************************************)

\* A step that leaves alone what is stored of run r, and makes no finding
\* where there is nothing to localize.
Untouched(r) ==
  /\ DOMAIN runs \subseteq DOMAIN runs' /\ \A q \in DOMAIN runs : runs'[q] = runs[q]
  /\ \A q \in DOMAIN runs' : q < r => q \in DOMAIN runs
  /\ cov'[r] = cov[r] /\ replayed'[r] = replayed[r]
  /\ Unlocalizable(runs[r], cov[r]) /\ ~Found(loc[r]) => ~Found(loc'[r])

LEMMA BaselineKept ==
  ASSUME SlotsInv, NEW r \in DOMAIN runs, Untouched(r)
  PROVE  BaselineFor(runs', DOMAIN runs', r) = BaselineFor(runs, DOMAIN runs, r)
PROOF
<1> DEFINE new == {q \in DOMAIN runs' : q < r /\ runs'[q].target = runs'[r].target /\ runs'[q].engine = runs'[r].engine}
<1>1. runs \in Seq(Range(runs))
  BY DEF SlotsInv
<1>2. DOMAIN runs = 1..Len(runs) /\ Len(runs) \in Nat
  BY <1>1
<1>3. \A q \in DOMAIN runs' : q < r => q \in DOMAIN runs
  BY DEF Untouched
<1>4. new = Older(r)
  BY <1>3 DEF Untouched, Older
<1>5. BaselineFor(runs', DOMAIN runs', r) = IF new = {} THEN 0 ELSE CHOOSE q \in new : \A p \in new : p <= q
  BY DEF BaselineFor
<1>6. BaselineFor(runs, DOMAIN runs, r) =
        IF Older(r) = {} THEN 0 ELSE CHOOSE q \in Older(r) : \A p \in Older(r) : p <= q
  BY DEF BaselineFor, Older
<1> HIDE DEF new
<1> QED
  BY <1>4, <1>5, <1>6

LEMMA BeganKept ==
  ASSUME NEW b, NEW r \in DOMAIN runs, Untouched(r), Began(b, r)
  PROVE  /\ cov'[r] = IF Found(runs'[r].coverage) THEN runs'[r].coverage ELSE None
         /\ b = [run |-> runs'[r], coverage |-> runs'[r].coverage, regression |-> b.regression,
                 localization |-> b.localization, replay |-> b.replay, replays |-> b.replays]
BY DEF Untouched, Began

LEMMA WholeKept ==
  ASSUME SlotsInv, RegGrows, NEW b, NEW r \in DOMAIN runs, Untouched(r)
  PROVE  /\ Began(b, r) => Began(b, r)'
         /\ HasCompared(b, r) => HasCompared(b, r)'
         /\ HasLocalized(b, r) => HasLocalized(b, r)'
         /\ Unreplayed(b, r) => Unreplayed(b, r)'
         /\ HasReplayed(b, r) => HasReplayed(b, r)'
PROOF
<1>1. runs'[r] = runs[r] /\ cov'[r] = cov[r] /\ replayed'[r] = replayed[r]
  BY DEF Untouched
<1>2. Began(b, r) => Began(b, r)'
  BY BeganKept DEF Began
<1>3. HasCompared(b, r) => HasCompared(b, r)'
  <2>1. BaselineFor(runs, DOMAIN runs, r)' = BaselineFor(runs, DOMAIN runs, r)
    BY BaselineKept
  <2> QED
    BY <2>1 DEF HasCompared, RegGrows
<1>4. HasLocalized(b, r) => HasLocalized(b, r)'
  BY <1>1 DEF HasLocalized, Untouched
<1>5. Unreplayed(b, r) => Unreplayed(b, r)'
  BY <1>1 DEF Unreplayed
<1>6. HasReplayed(b, r) => HasReplayed(b, r)'
  BY <1>1, <1>5 DEF HasReplayed
<1> QED
  BY <1>2, <1>3, <1>4, <1>5, <1>6

LEMMA ElsewhereUntouched ==
  ASSUME SlotsInv, NEW r \in DOMAIN runs, NEW s \in DOMAIN runs, NEW f, LocalizeElsewhere(s, f)
  PROVE  Untouched(r)
PROOF
<1>1. UNCHANGED <<runs, cov, replayed>>
  BY DEF LocalizeElsewhere
<1> DEFINE served == LocalizedRun(s, f)
           anew == Localized(runs[s], cov[s], ChangedSince(s), f, TopN)
<1>2. PICK outcome : /\ outcome = served \/ outcome = anew
                     /\ loc' = [loc EXCEPT ![s] = IF Found(outcome) THEN outcome ELSE None]
  BY DEF LocalizeElsewhere
<1>3. Unlocalizable(runs[s], cov[s]) /\ ~Found(loc[s]) => ~Found(outcome)
  BY <1>2, LocalizedRunIs, LocalizedIs
<1>4. loc'[r] = IF r = s THEN (IF Found(outcome) THEN outcome ELSE None) ELSE loc[r]
  <2>1. loc \in Seq(Range(loc)) /\ Len(loc) = Len(runs) /\ runs \in Seq(Range(runs))
    BY DEF SlotsInv
  <2>2. r \in DOMAIN loc
    BY <2>1
  <2> QED
    BY <1>2, <2>2
<1>5. ~Found(None)
  BY DEF Found, None
<1> QED
  BY <1>1, <1>3, <1>4, <1>5 DEF Untouched

\* Once told, runs are touched by no step; those of the `test` under way only
\* by its own stages.
LEMMA OthersUntouched ==
  ASSUME SlotsInv, [Next]_vars, NEW r \in DOMAIN runs,
         r = Newest => ~Derive /\ ~Localize /\ ~Rerun
  PROVE  Untouched(r)
PROOF
<1>0. /\ DOMAIN runs = 1..Newest /\ Newest \in Nat /\ DOMAIN cov = 1..Newest /\ DOMAIN loc = 1..Newest
      /\ DOMAIN replayed = 1..Newest
  <2>1. /\ runs \in Seq(Range(runs)) /\ cov \in Seq(Range(cov)) /\ loc \in Seq(Range(loc))
        /\ replayed \in Seq(Range(replayed))
        /\ Len(cov) = Len(runs) /\ Len(loc) = Len(runs) /\ Len(replayed) = Len(runs)
    BY DEF SlotsInv
  <2> QED
    BY <2>1 DEF Newest
<1>1. CASE Execute
  <2>1. /\ DOMAIN runs' = 1..(Newest + 1) /\ \A q \in DOMAIN runs : runs'[q] = runs[q]
    BY <1>1, RunsGrow
  <2>2. cov' = Append(cov, None) /\ loc' = Append(loc, None) /\ replayed' = Append(replayed, None)
    BY <1>1 DEF Execute
  <2>3. cov \in Seq(Range(cov)) /\ loc \in Seq(Range(loc)) /\ replayed \in Seq(Range(replayed))
    BY DEF SlotsInv
  <2>4. cov'[r] = cov[r] /\ loc'[r] = loc[r] /\ replayed'[r] = replayed[r]
    BY <1>0, <2>2, <2>3, AppendOverRange
  <2> QED
    BY <1>0, <2>1, <2>4 DEF Untouched
<1>2. CASE UNCHANGED runs /\ cov'[r] = cov[r] /\ loc'[r] = loc[r] /\ replayed'[r] = replayed[r]
  BY <1>2 DEF Untouched
<1>3. CASE Derive
  BY <1>0, <1>2, <1>3 DEF Derive
<1>4. CASE Localize
  BY <1>0, <1>2, <1>4 DEF Localize
<1>5. CASE Rerun
  BY <1>0, <1>2, <1>5 DEF Rerun
<1>6. CASE Compare \/ SkipRerun \/ Recommend \/ UNCHANGED vars \/ \E b, t \in DOMAIN runs : CompareElsewhere(b, t)
  BY <1>2, <1>6 DEF Compare, SkipRerun, Recommend, CompareElsewhere, vars, facts
<1>7. ASSUME NEW s \in DOMAIN runs, NEW f \in ElsewhereFormulas, LocalizeElsewhere(s, f) PROVE Untouched(r)
  BY <1>7, ElsewhereUntouched
<1> QED
  BY <1>1, <1>3, <1>4, <1>5, <1>6, <1>7 DEF Next

(***************************************************************************)
(* The stages of one `test`                                                *)
(***************************************************************************)

\* A bundle is a record of six.
Record(run, coverage, regression, localization, replay, replays) ==
  [run |-> run, coverage |-> coverage, regression |-> regression,
   localization |-> localization, replay |-> replay, replays |-> replays]

LEMMA BundleFields ==
  ASSUME NEW b, NEW r, Began(b, r), NEW x
  PROVE  /\ [b EXCEPT !.regression = x] =
              Record(runs[r], runs[r].coverage, x, b.localization, b.replay, b.replays)
         /\ [b EXCEPT !.localization = x] =
              Record(runs[r], runs[r].coverage, b.regression, x, b.replay, b.replays)
         /\ [b EXCEPT !.replay = x] =
              Record(runs[r], runs[r].coverage, b.regression, b.localization, x, b.replays)
PROOF
<1>1. b = Record(runs[r], runs[r].coverage, b.regression, b.localization, b.replay, b.replays)
  BY DEF Began, Record
<1>2. PICK a, c, d, e, f, g :
        /\ a = runs[r] /\ c = runs[r].coverage /\ d = b.regression /\ e = b.localization
        /\ f = b.replay /\ g = b.replays
  OBVIOUS
<1>3. b = Record(a, c, d, e, f, g)
  BY <1>1, <1>2
<1>4. /\ [Record(a, c, d, e, f, g) EXCEPT !.regression = x] = Record(a, c, x, e, f, g)
      /\ [Record(a, c, d, e, f, g) EXCEPT !.localization = x] = Record(a, c, d, x, f, g)
      /\ [Record(a, c, d, e, f, g) EXCEPT !.replay = x] = Record(a, c, d, e, x, g)
  <2>1. [Record(a, c, d, e, f, g) EXCEPT !.regression = x] = Record(a, c, x, e, f, g)
    BY DEF Record
  <2>2. [Record(a, c, d, e, f, g) EXCEPT !.localization = x] = Record(a, c, d, x, f, g)
    BY DEF Record
  <2>3. [Record(a, c, d, e, f, g) EXCEPT !.replay = x] = Record(a, c, d, e, x, g)
    BY DEF Record
  <2> QED
    BY <2>1, <2>2, <2>3, Zenon
<1>5. /\ [b EXCEPT !.regression = x] = Record(a, c, x, e, f, g)
      /\ [b EXCEPT !.localization = x] = Record(a, c, d, x, f, g)
      /\ [b EXCEPT !.replay = x] = Record(a, c, d, e, x, g)
  BY <1>3, <1>4, Zenon
<1> QED
  BY <1>2, <1>5, Zenon

LEMMA NewestIsRun ==
  ASSUME SlotsInv
  PROVE  /\ Newest \in Nat /\ DOMAIN runs = 1..Newest
         /\ Newest >= 1 => Newest \in DOMAIN runs
         /\ DOMAIN cov = 1..Newest /\ DOMAIN loc = 1..Newest /\ DOMAIN replayed = 1..Newest /\ DOMAIN told = 1..Newest
PROOF
<1>1. /\ runs \in Seq(Range(runs)) /\ cov \in Seq(Range(cov)) /\ loc \in Seq(Range(loc))
      /\ replayed \in Seq(Range(replayed)) /\ told \in Seq(Range(told))
      /\ Len(cov) = Len(runs) /\ Len(loc) = Len(runs) /\ Len(replayed) = Len(runs) /\ Len(told) = Len(runs)
  BY DEF SlotsInv
<1> QED
  BY <1>1 DEF Newest

LEMMA GatherExecute == SlotsInv /\ GatherInv /\ Execute => GatherInv'
PROOF
<1> SUFFICES ASSUME SlotsInv, GatherInv, Execute PROVE GatherInv'
  OBVIOUS
<1>1. stage' = "coverage" /\ Newest' = Newest + 1 /\ Newest \in Nat
  BY RunsGrow DEF Execute
<1>2. cov' = Append(cov, None) /\ replayed' = Append(replayed, None) /\ told' = Append(told, None)
  BY DEF Execute
<1>3. /\ cov \in Seq(Range(cov)) /\ replayed \in Seq(Range(replayed)) /\ told \in Seq(Range(told))
      /\ Len(cov) = Newest /\ Len(replayed) = Newest /\ Len(told) = Newest
  BY DEF SlotsInv, Newest
<1>4. cov'[Newest + 1] = None /\ replayed'[Newest + 1] = None /\ told'[Newest + 1] = None
  BY <1>2, <1>3, AppendOverRange
<1>5. cov'[Newest'] = None /\ replayed'[Newest'] = None /\ told'[Newest'] = None
  BY <1>1, <1>4
<1> QED
  BY <1>1, <1>5 DEF GatherInv, Stages

LEMMA GatherDerive == SlotsInv /\ GatherInv /\ Derive => GatherInv'
PROOF
<1> SUFFICES ASSUME SlotsInv, GatherInv, Derive PROVE GatherInv'
  OBVIOUS
<1>1. /\ stage = "coverage" /\ stage' = "regression" /\ UNCHANGED <<runs, loc, reg, replayed, told>>
      /\ Newest >= 1 /\ told[Newest] = None /\ cov[Newest] = None /\ replayed[Newest] = None
  BY DEF Derive, GatherInv
<1>2. Newest' = Newest
  BY <1>1 DEF Newest
<1>3. bundle' = [run |-> runs[Newest], coverage |-> runs[Newest].coverage, regression |-> None,
                 localization |-> None, replay |-> "not_run", replays |-> {}]
  BY DEF Derive
<1>4. cov'[Newest] = IF Found(runs[Newest].coverage) THEN runs[Newest].coverage ELSE None
  <2>1. Newest \in DOMAIN cov
    BY <1>1, NewestIsRun
  <2> QED
    BY <1>1, <2>1 DEF Derive
<1>5. Began(bundle, Newest)'
  BY <1>1, <1>2, <1>3, <1>4 DEF Began
<1>6. bundle'.replay = "not_run" /\ Unreplayed(bundle, Newest)'
  BY <1>1, <1>2, <1>3 DEF Unreplayed
<1> QED
  BY <1>1, <1>2, <1>5, <1>6 DEF GatherInv, Stages

LEMMA GatherCompare == SlotsInv /\ RegInv /\ GatherInv /\ Compare => GatherInv'
PROOF
<1> SUFFICES ASSUME SlotsInv, RegInv, GatherInv, Compare PROVE GatherInv'
  OBVIOUS
<1>1. /\ stage = "regression" /\ stage' = "localization" /\ UNCHANGED <<runs, cov, loc, replayed, told>>
      /\ Newest >= 1 /\ told[Newest] = None
      /\ Began(bundle, Newest) /\ bundle.replay = "not_run" /\ Unreplayed(bundle, Newest)
  BY DEF Compare, GatherInv
<1>2. Newest' = Newest /\ Newest \in DOMAIN runs
  BY <1>1, NewestIsRun DEF Newest
<1> DEFINE pair == LatestPair(runs, DOMAIN runs, bundle.run.target)
           outcome == IF pair[1] = 0 THEN Refused("no-comparable-baseline") ELSE Compared(pair[1], pair[2])
           q == BaselineFor(runs, DOMAIN runs, Newest)
<1>3. bundle' = [bundle EXCEPT !.regression = outcome] /\ reg' = RegWith(pair[1], pair[2], outcome)
  BY DEF Compare
<1>4. bundle' = [run |-> runs[Newest], coverage |-> runs[Newest].coverage, regression |-> outcome,
                 localization |-> bundle.localization, replay |-> bundle.replay, replays |-> bundle.replays]
  BY <1>1, <1>3, BundleFields DEF Record
<1>5. bundle.run = runs[Newest]
  BY <1>1 DEF Began
<1>6. IF pair[1] = 0 THEN q = 0 ELSE pair = <<q, Newest>>
  BY <1>2, <1>5, LatestPairOfNewest
<1>7. Began(bundle, Newest)'
  BY <1>1, <1>2, <1>4 DEF Began
<1>8. bundle'.replay = "not_run" /\ Unreplayed(bundle, Newest)'
  BY <1>1, <1>2, <1>4 DEF Unreplayed
<1>9. HasCompared(bundle, Newest)'
  <2>1. BaselineFor(runs, DOMAIN runs, Newest)' = q
    BY <1>1, <1>2
  <2>2. bundle'.regression = outcome
    BY <1>4
  <2>3. CASE q = 0
    <3>1. pair[1] = 0
      BY <1>6, <2>3
    <3>2. ~Found(outcome)
      BY <3>1 DEF Refused, Found
    <3> QED
      BY <2>1, <2>2, <2>3, <3>2 DEF HasCompared
  <2>4. CASE q # 0
    <3>1. q \in Older(Newest)
      BY <2>4, BaselineIsOlder
    <3>2. q \in DOMAIN runs /\ runs[q].engine = runs[Newest].engine /\ runs[q].target = runs[Newest].target
      BY <3>1 DEF Older
    <3>3. pair[1] # 0 /\ pair = <<q, Newest>>
      <4>1. CASE pair[1] = 0
        BY <1>6, <2>4, <4>1
      <4>2. CASE pair[1] # 0
        BY <1>6, <4>2
      <4> QED
        BY <4>1, <4>2
    <3>4. outcome = Compared(q, Newest)
      BY <3>3
    <3>5. Found(outcome)
      BY <3>2, <3>4, ComparableIsCompared
    <3> HIDE DEF outcome, q, pair
    <3>6. reg' = RegWith(q, Newest, outcome)
      BY <1>3, <3>3
    <3>7. <<q, Newest>> \in DOMAIN reg' /\ reg'[<<q, Newest>>] = outcome
      BY <3>5, <3>6, RegWithIs
    <3> QED
      BY <1>2, <2>1, <2>2, <2>4, <3>7 DEF HasCompared
  <2> QED
    BY <2>3, <2>4
<1> QED
  BY <1>1, <1>2, <1>7, <1>8, <1>9 DEF GatherInv, Stages

LEMMA GatherLocalize == SlotsInv /\ GatherInv /\ Localize => GatherInv'
PROOF
<1> SUFFICES ASSUME SlotsInv, GatherInv, Localize PROVE GatherInv'
  OBVIOUS
<1>1. /\ stage = "localization" /\ stage' = "replay" /\ UNCHANGED <<runs, cov, reg, replayed, told>>
      /\ Newest >= 1 /\ told[Newest] = None
      /\ Began(bundle, Newest) /\ bundle.replay = "not_run" /\ Unreplayed(bundle, Newest)
      /\ HasCompared(bundle, Newest)
  BY DEF Localize, GatherInv
<1>2. Newest' = Newest /\ Newest \in DOMAIN runs /\ Newest \in DOMAIN loc
  BY <1>1, NewestIsRun DEF Newest
<1> DEFINE outcome == LocalizedRun(Newest, "ochiai")
<1>3. /\ bundle' = [bundle EXCEPT !.localization = outcome]
      /\ loc' = [loc EXCEPT ![Newest] = IF Found(outcome) THEN outcome ELSE @]
  BY DEF Localize
<1>4. bundle' = [run |-> runs[Newest], coverage |-> runs[Newest].coverage, regression |-> bundle.regression,
                 localization |-> outcome, replay |-> bundle.replay, replays |-> bundle.replays]
  BY <1>1, <1>3, BundleFields DEF Record
<1>5. Found(outcome) <=> Found(loc[Newest]) \/ ~Unlocalizable(runs[Newest], cov[Newest])
  BY LocalizedRunIs
<1> HIDE DEF outcome
<1>6. loc'[Newest] = IF Found(outcome) THEN outcome ELSE loc[Newest]
  BY <1>2, <1>3
<1>7. Began(bundle, Newest)'
  BY <1>1, <1>2, <1>4 DEF Began
<1>8. bundle'.replay = "not_run" /\ Unreplayed(bundle, Newest)'
  BY <1>1, <1>2, <1>4 DEF Unreplayed
<1>9. HasCompared(bundle, Newest)'
  <2>1. BaselineFor(runs, DOMAIN runs, Newest)' = BaselineFor(runs, DOMAIN runs, Newest)
    BY <1>1, <1>2
  <2>2. bundle'.regression = bundle.regression
    BY <1>4
  <2> QED
    BY <1>1, <1>2, <2>1, <2>2 DEF HasCompared
<1>10. HasLocalized(bundle, Newest)'
  <2>1. bundle'.localization = outcome
    BY <1>4
  <2>2. Unlocalizable(runs'[Newest'], cov'[Newest']) <=> Unlocalizable(runs[Newest], cov[Newest])
    BY <1>1, <1>2
  <2> QED
    BY <1>2, <1>5, <1>6, <2>1, <2>2 DEF HasLocalized
<1> QED
  BY <1>1, <1>2, <1>7, <1>8, <1>9, <1>10 DEF GatherInv, Stages

LEMMA GatherRerun == SlotsInv /\ GatherInv /\ (Rerun \/ SkipRerun) => GatherInv'
PROOF
<1> SUFFICES ASSUME SlotsInv, GatherInv, Rerun \/ SkipRerun PROVE GatherInv'
  OBVIOUS
<1>1. /\ stage = "replay" /\ stage' = "recommend" /\ UNCHANGED <<runs, cov, loc, reg, told>>
      /\ Newest >= 1 /\ told[Newest] = None
      /\ Began(bundle, Newest) /\ bundle.replay = "not_run" /\ Unreplayed(bundle, Newest)
      /\ HasCompared(bundle, Newest) /\ HasLocalized(bundle, Newest)
  BY DEF Rerun, SkipRerun, facts, GatherInv
<1>2. Newest' = Newest /\ Newest \in DOMAIN runs /\ Newest \in DOMAIN replayed
  BY <1>1, NewestIsRun DEF Newest
<1>3. \/ bundle' = bundle /\ replayed' = replayed
      \/ bundle' = [bundle EXCEPT !.replay = "unavailable"] /\ replayed' = replayed
      \/ \E result : /\ result.state = "facts" /\ replayed' = [replayed EXCEPT ![Newest] = result]
                     /\ bundle' = [bundle EXCEPT !.replay = "available", !.replays = {result}]
  BY DEF Rerun, SkipRerun, facts
<1>4. bundle' = [run |-> runs[Newest], coverage |-> runs[Newest].coverage, regression |-> bundle.regression,
                 localization |-> bundle.localization, replay |-> bundle'.replay, replays |-> bundle'.replays]
  <2>1. PICK x, y : \/ bundle' = bundle
                    \/ bundle' = [bundle EXCEPT !.replay = x]
                    \/ bundle' = [bundle EXCEPT !.replay = x, !.replays = y]
    BY <1>3
  <2>2. CASE bundle' = bundle
    BY <1>1, <2>2 DEF Began
  <2>3. CASE bundle' = [bundle EXCEPT !.replay = x]
    <3>1. bundle' =
            Record(runs[Newest], runs[Newest].coverage, bundle.regression, bundle.localization, x, bundle.replays)
      BY <1>1, <2>3, BundleFields
    <3> QED
      BY <3>1 DEF Record
  <2>4. CASE bundle' = [bundle EXCEPT !.replay = x, !.replays = y]
    <3>1. bundle' = Record(runs[Newest], runs[Newest].coverage, bundle.regression, bundle.localization, x, y)
      <4>1. [bundle EXCEPT !.replay = x, !.replays = y] =
              Record(runs[Newest], runs[Newest].coverage, bundle.regression, bundle.localization, x, y)
        <5>1. PICK a, c, d, e, f, g :
                /\ a = runs[Newest] /\ c = runs[Newest].coverage /\ d = bundle.regression
                /\ e = bundle.localization /\ f = bundle.replay /\ g = bundle.replays
          OBVIOUS
        <5>2. bundle = Record(a, c, d, e, f, g)
          BY <1>1, <5>1 DEF Began, Record
        <5>3. [Record(a, c, d, e, f, g) EXCEPT !.replay = x] = Record(a, c, d, e, x, g)
          BY DEF Record
        <5>4. [Record(a, c, d, e, x, g) EXCEPT !.replays = y] = Record(a, c, d, e, x, y)
          BY DEF Record
        <5>5. [bundle EXCEPT !.replay = x, !.replays = y] = [[bundle EXCEPT !.replay = x] EXCEPT !.replays = y]
          OBVIOUS
        <5> QED
          BY <5>1, <5>2, <5>3, <5>4, <5>5, Zenon
      <4> QED
        BY <2>4, <4>1, Zenon
    <3> QED
      BY <3>1 DEF Record
  <2> QED
    BY <2>1, <2>2, <2>3, <2>4
<1>5. Began(bundle, Newest)'
  BY <1>1, <1>2, <1>4 DEF Began
<1>6. HasCompared(bundle, Newest)'
  <2>1. BaselineFor(runs, DOMAIN runs, Newest)' = BaselineFor(runs, DOMAIN runs, Newest)
    BY <1>1, <1>2
  <2>2. bundle'.regression = bundle.regression
    BY <1>4
  <2> QED
    BY <1>1, <1>2, <2>1, <2>2 DEF HasCompared
<1>7. HasLocalized(bundle, Newest)'
  <2>1. bundle'.localization = bundle.localization
    BY <1>4
  <2>2. Unlocalizable(runs'[Newest'], cov'[Newest']) <=> Unlocalizable(runs[Newest], cov[Newest])
    BY <1>1, <1>2
  <2> QED
    BY <1>1, <1>2, <2>1, <2>2 DEF HasLocalized
<1>8. HasReplayed(bundle, Newest)'
  <2>0. bundle = [run |-> runs[Newest], coverage |-> runs[Newest].coverage, regression |-> bundle.regression,
                  localization |-> bundle.localization, replay |-> bundle.replay, replays |-> bundle.replays]
    BY <1>1 DEF Began
  <2>1. CASE bundle' = bundle /\ replayed' = replayed
    BY <1>1, <1>2, <2>1 DEF HasReplayed, Unreplayed
  <2>2. CASE bundle' = [bundle EXCEPT !.replay = "unavailable"] /\ replayed' = replayed
    <3>1. bundle'.replay = "unavailable" /\ bundle'.replays = bundle.replays
      BY <2>0, <2>2
    <3> QED
      BY <1>1, <1>2, <2>2, <3>1 DEF HasReplayed, Unreplayed
  <2>3. ASSUME NEW result, result.state = "facts", replayed' = [replayed EXCEPT ![Newest] = result],
               bundle' = [bundle EXCEPT !.replay = "available", !.replays = {result}]
        PROVE  HasReplayed(bundle, Newest)'
    <3>1. bundle'.replay = "available" /\ bundle'.replays = {result}
      BY <2>0, <2>3
    <3>2. replayed'[Newest'] = result
      BY <1>2, <2>3
    <3> QED
      BY <2>3, <3>1, <3>2 DEF HasReplayed, Found
  <2> QED
    BY <1>3, <2>1, <2>2, <2>3
<1> QED
  BY <1>1, <1>2, <1>5, <1>6, <1>7, <1>8 DEF GatherInv, Stages

\* The steps of other clients.
LEMMA GatherElsewhere ==
  ASSUME SlotsInv, RegGrows, GatherInv, [Next]_vars, UNCHANGED <<runs, cov, replayed, stage, bundle, told>>
  PROVE  GatherInv'
PROOF
<1>1. Newest' = Newest
  BY DEF Newest
<1>2. CASE stage = "idle"
  BY <1>2 DEF GatherInv, Stages
<1>3. CASE stage # "idle"
  <2>1. Newest \in DOMAIN runs
    BY <1>3, NewestIsRun DEF GatherInv
  <2>2. ~Derive /\ ~Localize /\ ~Rerun
    BY DEF Derive, Localize, Rerun, GatherInv
  <2>3. Untouched(Newest)
    BY <2>1, <2>2, OthersUntouched
  <2>4. PICK b, r : b = bundle /\ r = Newest
    OBVIOUS
  <2>5. /\ Began(b, r) => Began(b, r)'
        /\ HasCompared(b, r) => HasCompared(b, r)'
        /\ HasLocalized(b, r) => HasLocalized(b, r)'
        /\ Unreplayed(b, r) => Unreplayed(b, r)'
        /\ HasReplayed(b, r) => HasReplayed(b, r)'
    BY <2>1, <2>3, <2>4, WholeKept
  <2>6. bundle' = b /\ Newest' = r
    BY <1>1, <2>4
  <2>7. /\ Began(bundle, Newest) => Began(bundle, Newest)'
        /\ HasCompared(bundle, Newest) => HasCompared(bundle, Newest)'
        /\ HasLocalized(bundle, Newest) => HasLocalized(bundle, Newest)'
        /\ Unreplayed(bundle, Newest) => Unreplayed(bundle, Newest)'
        /\ HasReplayed(bundle, Newest) => HasReplayed(bundle, Newest)'
    BY <2>4, <2>5, <2>6
  <2> QED
    BY <1>1, <2>7 DEF GatherInv
<1> QED
  BY <1>2, <1>3

LEMMA GatherStep == SlotsInv /\ RegInv /\ GatherInv /\ [Next]_vars => GatherInv'
PROOF
<1> SUFFICES ASSUME SlotsInv, RegInv, GatherInv, [Next]_vars PROVE GatherInv'
  OBVIOUS
<1>1. RegGrows
  BY RegStep
<1>2. CASE Recommend
  BY <1>2 DEF Recommend, GatherInv, Stages
<1>3. ASSUME NEW b \in DOMAIN runs, NEW t \in DOMAIN runs, CompareElsewhere(b, t) PROVE GatherInv'
  BY <1>1, <1>3, GatherElsewhere DEF CompareElsewhere
<1>4. ASSUME NEW r \in DOMAIN runs, NEW f \in ElsewhereFormulas, LocalizeElsewhere(r, f) PROVE GatherInv'
  BY <1>1, <1>4, GatherElsewhere DEF LocalizeElsewhere
<1>5. CASE UNCHANGED vars
  BY <1>1, <1>5, GatherElsewhere DEF vars, facts
<1> QED
  BY <1>2, <1>3, <1>4, <1>5, GatherExecute, GatherDerive, GatherCompare, GatherLocalize, GatherRerun DEF Next

LEMMA ToldWholeStep == SlotsInv /\ RegInv /\ GatherInv /\ ToldInv /\ [Next]_vars => ToldInv'
PROOF
<1> SUFFICES ASSUME SlotsInv, RegInv, GatherInv, ToldInv, [Next]_vars PROVE ToldInv'
  OBVIOUS
<1>1. RegGrows
  BY RegStep
<1>2. ASSUME NEW r \in DOMAIN told, Told(r) PROVE \A b : WholeBundle(b, r) => WholeBundle(b, r)'
  <2>1. r \in DOMAIN runs
    BY NewestIsRun
  <2>2. r = Newest => ~Derive /\ ~Localize /\ ~Rerun
    BY <1>2 DEF Told, GatherInv, Derive, Localize, Rerun
  <2>3. Untouched(r)
    BY <2>1, <2>2, OthersUntouched
  <2> TAKE b
  <2>4. /\ Began(b, r) => Began(b, r)'
        /\ HasCompared(b, r) => HasCompared(b, r)'
        /\ HasLocalized(b, r) => HasLocalized(b, r)'
        /\ HasReplayed(b, r) => HasReplayed(b, r)'
    BY <1>1, <2>1, <2>3, WholeKept
  <2> QED
    BY <2>4 DEF WholeBundle
<1>3. SUFFICES ASSUME NEW r \in DOMAIN told', Told(r)' PROVE WholeBundle(told[r].bundle, r)'
  BY DEF ToldInv
<1>4. PICK b : b = told'[r].bundle
  OBVIOUS
<1>5. WholeBundle(b, r)'
  <2>1. CASE r \in DOMAIN told /\ told'[r] = told[r]
    <3>1. Told(r) /\ b = told[r].bundle
      BY <1>3, <1>4, <2>1 DEF Told
    <3>2. WholeBundle(b, r)
      BY <2>1, <3>1 DEF ToldInv
    <3> QED
      BY <1>2, <2>1, <3>1, <3>2
  <2>2. CASE Execute
    <3>1. told \in Seq(Range(told)) /\ told' = Append(told, None)
      BY <2>2 DEF Execute, SlotsInv
    <3>2. /\ DOMAIN told' = 1..(Len(told) + 1) /\ told'[Len(told) + 1] = None
          /\ \A i \in DOMAIN told : told'[i] = told[i]
      BY <3>1, AppendOverRange
    <3>3. r # Len(told) + 1
      BY <1>3, <3>2 DEF Told
    <3>4. DOMAIN told = 1..Len(told) /\ Len(told) \in Nat
      BY <3>1
    <3>5. r \in DOMAIN told
      BY <3>2, <3>3, <3>4
    <3> QED
      BY <2>1, <3>2, <3>5
  <2>3. CASE Recommend
    <3>1. /\ told' = [told EXCEPT ![Newest] = [bundle |-> bundle, recommendations |-> Synthesized(bundle)]]
          /\ UNCHANGED <<runs, cov, loc, reg, replayed>> /\ stage = "recommend"
      BY <2>3 DEF Recommend, facts
    <3>2. DOMAIN told' = DOMAIN told
      BY <3>1
    <3>3. CASE r = Newest
      <4>1. told'[r] = [bundle |-> bundle, recommendations |-> Synthesized(bundle)]
        BY <3>1, <3>2, <3>3
      <4>2. b = bundle
        BY <1>4, <4>1
      <4>3. WholeBundle(bundle, Newest)
        BY <3>1 DEF GatherInv, WholeBundle
      <4>4. WholeBundle(b, r)
        BY <3>3, <4>2, <4>3
      <4>5. WholeBundle(b, r)' <=> WholeBundle(b, r)
        BY <3>1 DEF WholeBundle, Began, HasCompared, HasLocalized, HasReplayed, Unreplayed
      <4> QED
        BY <4>4, <4>5
    <3>4. CASE r # Newest
      <4>1. told'[r] = told[r]
        BY <3>1, <3>2, <3>4
      <4> QED
        BY <2>1, <3>2, <4>1
    <3> QED
      BY <3>3, <3>4
  <2>4. CASE UNCHANGED told
    BY <2>1, <2>4
  <2>5. Execute \/ Recommend \/ UNCHANGED told
    BY DEF Next, vars, Derive, Compare, Localize, Rerun, SkipRerun, CompareElsewhere, LocalizeElsewhere
  <2> QED
    BY <2>2, <2>3, <2>4, <2>5
<1> QED
  BY <1>4, <1>5

\* A bundle put together again from what is stored.
LEMMA RebuiltIsAlike ==
  ASSUME NEW b, NEW r, WholeBundle(b, r), b.replay # "unavailable",
         Found(b.localization) => loc[r] = b.localization
  PROVE  Alike(b, Rebuilt(r))
PROOF
<1> DEFINE q == BaselineFor(runs, DOMAIN runs, r)
           again == Rebuilt(r)
<1>0. /\ again.run = runs[r] /\ again.coverage = cov[r]
      /\ again.regression = (IF q = 0 THEN None ELSE Pair(q, r))
      /\ again.localization = loc[r]
      /\ again.replay = (IF Found(replayed[r]) THEN "available" ELSE "not_run")
      /\ again.replays = {x \in {replayed[r]} : Found(x)}
  BY DEF Rebuilt
<1>1. ~Found(None)
  BY DEF Found, None
<1>2. b.run = runs[r] /\ b.coverage = runs[r].coverage
  BY DEF WholeBundle, Began
<1> HIDE DEF again
<1>3. SameFacts(b.coverage, again.coverage)
  <2>1. again.coverage = IF Found(b.coverage) THEN b.coverage ELSE None
    BY <1>0, <1>2 DEF WholeBundle, Began
  <2> QED
    BY <1>1, <2>1 DEF SameFacts
<1>4. SameFacts(b.regression, again.regression)
  <2>1. CASE q = 0
    <3>1. ~Found(b.regression) /\ again.regression = None
      BY <1>0, <2>1 DEF WholeBundle, HasCompared
    <3> QED
      BY <1>1, <3>1 DEF SameFacts
  <2>2. CASE q # 0
    <3>1. again.regression = b.regression
      BY <1>0, <2>2 DEF WholeBundle, HasCompared, Pair
    <3> QED
      BY <3>1, Zenon DEF SameFacts
  <2> QED
    BY <2>1, <2>2
<1>5. SameFacts(b.localization, again.localization)
  <2>1. again.localization = loc[r] /\ (~Found(b.localization) => ~Found(loc[r]))
    BY <1>0 DEF WholeBundle, HasLocalized
  <2> QED
    BY <2>1 DEF SameFacts
<1>6. again.replay # "unavailable" /\ again.replays = b.replays
  BY <1>0, <1>1 DEF WholeBundle, HasReplayed, Unreplayed
<1> QED
  BY <1>0, <1>2, <1>3, <1>4, <1>5, <1>6 DEF Alike, again

\* For every history, whatever other clients compare and localize meanwhile
\* and whatever is executed after it: a run asked about again gets what it was
\* told of then, by category and slot (build_test_outcome_from_run_id).
THEOREM AskedAgainHolds == Spec => []AskedAgain
PROOF
<1>1. Init => RegInv /\ GatherInv /\ ToldInv
  BY DEF Init, RegInv, GatherInv, ToldInv, Stages
<1>2. ToldIsSynthesized /\ ToldInv => AskedAgain
  <2> SUFFICES ASSUME ToldIsSynthesized, ToldInv, NEW r \in DOMAIN told,
                      Told(r), told[r].bundle.replay # "unavailable",
                      Found(told[r].bundle.localization) => loc[r] = told[r].bundle.localization
               PROVE  {<<x.category, x.slot>> : x \in Synthesized(Rebuilt(r))}
                        = {<<x.category, x.slot>> : x \in told[r].recommendations}
    BY DEF AskedAgain
  <2>1. told[r].recommendations = Synthesized(told[r].bundle)
    BY DEF ToldIsSynthesized
  <2>2. WholeBundle(told[r].bundle, r)
    BY DEF ToldInv
  <2>3. Alike(told[r].bundle, Rebuilt(r))
    BY <2>2, RebuiltIsAlike
  <2> QED
    BY <2>1, <2>3, AlikeIsTold
<1> QED
  BY <1>1, <1>2, SlotsInit, SlotsStep, RegStep, GatherStep, ToldWholeStep, ToldInit, ToldStep, PTL DEF Spec

LEMMA BundleStep ==
  SlotsInv /\ GatherInv /\ (stage \in {"idle", "coverage"} => bundle = None) /\ [Next]_vars
    => (stage \in {"idle", "coverage"} => bundle = None)'
PROOF
<1> SUFFICES ASSUME SlotsInv, GatherInv, stage \in {"idle", "coverage"} => bundle = None, [Next]_vars,
                    stage' \in {"idle", "coverage"}
             PROVE  bundle' = None
  OBVIOUS
<1>1. Execute \/ Recommend \/ UNCHANGED <<stage, bundle>>
  BY DEF Next, vars, facts, Derive, Compare, Localize, Rerun, SkipRerun, CompareElsewhere, LocalizeElsewhere
<1> QED
  BY <1>1 DEF Execute, Recommend

\* Every list has one slot per run, facts are about pairs of runs there are,
\* and there is a bundle exactly while one is gathered.
THEOREM AnalysisTypeOKHolds == Spec => []AnalysisTypeOK
PROOF
<1> DEFINE Cleared == stage \in {"idle", "coverage"} => bundle = None
<1>1. Init => RegInv /\ GatherInv /\ Cleared
  BY DEF Init, RegInv, GatherInv, Stages
<1>2. SlotsInv /\ RegInv /\ GatherInv /\ Cleared => AnalysisTypeOK
  <2> SUFFICES ASSUME SlotsInv, RegInv, GatherInv, Cleared PROVE AnalysisTypeOK
    OBVIOUS
  <2>1. \A f \in {cov, loc, replayed, told} : Len(f) = Len(runs)
    BY DEF SlotsInv
  <2>2. DOMAIN reg \subseteq (DOMAIN runs) \X (DOMAIN runs)
    BY DEF RegInv
  <2>3. stage \in Stages
    BY DEF GatherInv
  <2>4. stage \notin {"idle", "coverage"} => bundle # None
    <3> SUFFICES ASSUME stage \notin {"idle", "coverage"} PROVE bundle # None
      OBVIOUS
    <3>1. Began(bundle, Newest)
      BY <2>3 DEF GatherInv, Stages
    <3>2. "run" \in DOMAIN bundle
      BY <3>1 DEF Began
    <3>3. "run" \notin DOMAIN None
      BY DEF None
    <3> QED
      BY <3>2, <3>3
  <2> QED
    BY <2>1, <2>2, <2>3, <2>4 DEF AnalysisTypeOK
<1>3. SlotsInv /\ GatherInv /\ Cleared /\ [Next]_vars => Cleared'
  BY BundleStep
<1> QED
  BY <1>1, <1>2, <1>3, SlotsInit, SlotsStep, RegStep, GatherStep, PTL DEF Spec

(***************************************************************************)
(* Scores                                                                  *)
(***************************************************************************)

\* A fraction whose denominator is positive.
IsScore(a) == a[1] \in Int /\ a[2] \in Nat \ {0}

\* a is no more than b.
NoMore(a, b) == a[1] * b[2] =< b[1] * a[2]

LEMMA ProductOfPositives ==
  ASSUME NEW x \in Int, NEW y \in Int
  PROVE  /\ x * y \in Int
         /\ x >= 0 /\ y >= 0 => x * y >= 0
         /\ x > 0 /\ y > 0 => x * y > 0
OBVIOUS

\* A positive factor on both sides keeps an order, and its absence does.
LEMMA Cancelled ==
  ASSUME NEW x \in Int, NEW y \in Int, NEW k \in Nat \ {0}
  PROVE  /\ x < y <=> x * k < y * k
         /\ x =< y <=> x * k =< y * k
PROOF
<1>1. x < y => x * k < y * k
  <2>1. (y - x) * k = y * k - x * k
    OBVIOUS
  <2>2. y - x > 0 => (y - x) * k > 0
    BY ProductOfPositives
  <2> QED
    BY <2>1, <2>2
<1>2. y < x => y * k < x * k
  <2>1. (x - y) * k = x * k - y * k
    OBVIOUS
  <2>2. x - y > 0 => (x - y) * k > 0
    BY ProductOfPositives
  <2> QED
    BY <2>1, <2>2
<1>3. x = y => x * k = y * k
  OBVIOUS
<1>4. x * k \in Int /\ y * k \in Int
  OBVIOUS
<1> QED
  BY <1>1, <1>2, <1>3, <1>4

LEMMA ScoresCompare ==
  ASSUME NEW a, NEW b, IsScore(a), IsScore(b)
  PROVE  /\ Less(a, b) <=> ~NoMore(b, a)
         /\ Same(a, b) <=> NoMore(a, b) /\ NoMore(b, a)
PROOF
<1>1. PICK x, y : x = a[1] * b[2] /\ y = b[1] * a[2]
  OBVIOUS
<1>2. x \in Int /\ y \in Int
  BY <1>1 DEF IsScore
<1>3. /\ Less(a, b) <=> x < y
      /\ Same(a, b) <=> x = y
      /\ NoMore(a, b) <=> x =< y
      /\ NoMore(b, a) <=> y =< x
  BY <1>1, Zenon DEF Less, Same, NoMore
<1> QED
  BY <1>2, <1>3

\* Fractions are ordered.
LEMMA ScoresAreOrdered ==
  ASSUME NEW a, NEW b, NEW c, IsScore(a), IsScore(b), IsScore(c)
  PROVE  /\ NoMore(a, b) /\ NoMore(b, c) => NoMore(a, c)
         /\ NoMore(a, b) /\ Less(b, c) => Less(a, c)
         /\ Less(a, b) /\ NoMore(b, c) => Less(a, c)
         /\ Less(a, b) => NoMore(a, b)
PROOF
<1>1. PICK a1 \in Int, a2 \in Nat \ {0}, b1 \in Int, b2 \in Nat \ {0}, c1 \in Int, c2 \in Nat \ {0} :
        a1 = a[1] /\ a2 = a[2] /\ b1 = b[1] /\ b2 = b[2] /\ c1 = c[1] /\ c2 = c[2]
  BY DEF IsScore
<1>2. /\ a1 * b2 \in Int /\ b1 * a2 \in Int /\ b1 * c2 \in Int /\ c1 * b2 \in Int /\ a1 * c2 \in Int /\ c1 * a2 \in Int
  OBVIOUS
<1>3. /\ (a1 * b2) * c2 = (a1 * c2) * b2
      /\ (b1 * a2) * c2 = (b1 * c2) * a2
      /\ (c1 * b2) * a2 = (c1 * a2) * b2
  OBVIOUS
<1>4. /\ (a1 * b2) * c2 \in Int /\ (b1 * a2) * c2 \in Int /\ (c1 * b2) * a2 \in Int
  BY <1>2
<1>5. /\ a1 * b2 =< b1 * a2 <=> (a1 * b2) * c2 =< (b1 * a2) * c2
      /\ a1 * b2 < b1 * a2 <=> (a1 * b2) * c2 < (b1 * a2) * c2
      /\ b1 * c2 =< c1 * b2 <=> (b1 * c2) * a2 =< (c1 * b2) * a2
      /\ b1 * c2 < c1 * b2 <=> (b1 * c2) * a2 < (c1 * b2) * a2
      /\ a1 * c2 =< c1 * a2 <=> (a1 * c2) * b2 =< (c1 * a2) * b2
      /\ a1 * c2 < c1 * a2 <=> (a1 * c2) * b2 < (c1 * a2) * b2
  BY <1>2, Cancelled
<1> DEFINE x == (a1 * b2) * c2
           y == (b1 * a2) * c2
           z == (c1 * b2) * a2
<1>6. /\ NoMore(a, b) <=> x =< y
      /\ Less(a, b) <=> x < y
      /\ NoMore(b, c) <=> y =< z
      /\ Less(b, c) <=> y < z
      /\ NoMore(a, c) <=> x =< z
      /\ Less(a, c) <=> x < z
  BY <1>1, <1>3, <1>5, Zenon DEF NoMore, Less
<1>7. x \in Int /\ y \in Int /\ z \in Int
  BY <1>4
<1> HIDE DEF x, y, z
<1> QED
  BY <1>6, <1>7

\* What is no less than a positive score is positive.
LEMMA PositiveRises ==
  ASSUME NEW a, NEW b, IsScore(a), IsScore(b), Positive(a), NoMore(a, b)
  PROVE  Positive(b)
PROOF
<1>1. PICK x \in Int, k \in Nat \ {0}, y \in Int, l \in Nat \ {0} :
        x = a[1] /\ k = a[2] /\ y = b[1] /\ l = b[2]
  BY DEF IsScore
<1>2. x * l =< y * k /\ x > 0
  BY <1>1 DEF NoMore, Positive
<1>3. x * l > 0 /\ x * l \in Int /\ y * k \in Int
  BY <1>2, ProductOfPositives
<1>4. 0 < y * k /\ 0 * k = 0
  BY <1>2, <1>3
<1>5. 0 < y <=> 0 * k < y * k
  BY Cancelled
<1> QED
  BY <1>1, <1>4, <1>5 DEF Positive

\* A finite set has a minimal element in any strict order.
LEMMA MinimalOf ==
  ASSUME NEW S, IsFiniteSet(S), S # {}, NEW R,
         \A a, b, c \in S : <<a, b>> \in R /\ <<b, c>> \in R => <<a, c>> \in R,
         \A a \in S : <<a, a>> \notin R
  PROVE  \E a \in S : \A b \in S : <<b, a>> \notin R
PROOF
<1> DEFINE Least(T) == \E a \in T : \A b \in T : <<b, a>> \notin R
           Bad == {n \in Nat : \E T \in SUBSET S : T # {} /\ Cardinality(T) = n /\ ~Least(T)}
<1> SUFFICES ASSUME ~Least(S) PROVE FALSE
  OBVIOUS
<1>1. Cardinality(S) \in Bad
  BY FS_CardinalityType
<1>2. PICK n \in Bad : \A m \in Bad : n =< m
  <2>1. Bad \in SUBSET Nat
    OBVIOUS
  <2> HIDE DEF Bad
  <2> QED
    BY <1>1, <2>1, LeastOf
<1>3. PICK T \in SUBSET S : T # {} /\ Cardinality(T) = n /\ ~Least(T)
  BY <1>2
<1>4. PICK x : x \in T
  BY <1>3
<1> DEFINE U == T \ {x}
<1>5. IsFiniteSet(T) /\ IsFiniteSet(U) /\ Cardinality(U) = n - 1 /\ U \in SUBSET S
  BY <1>3, <1>4, FS_Subset, FS_RemoveElement
<1>6. CASE U = {}
  <2>1. T = {x}
    BY <1>4, <1>6
  <2> QED
    BY <1>3, <1>4, <2>1
<1>7. CASE U # {}
  <2>1. n - 1 \in Nat /\ n - 1 \notin Bad
    <3>1. n - 1 \in Nat
      BY <1>5, FS_CardinalityType
    <3>2. n \in Nat
      BY <1>2
    <3>3. \A m \in Bad : n =< m
      BY <1>2
    <3> HIDE DEF Bad
    <3> QED
      BY <3>1, <3>2, <3>3
  <2>2. Least(U)
    BY <1>5, <1>7, <2>1
  <2>3. PICK m \in U : \A b \in U : <<b, m>> \notin R
    BY <2>2
  <2>4. CASE <<x, m>> \in R
    <3>1. \A b \in T : <<b, x>> \notin R
      <4> TAKE b \in T
      <4>1. CASE b = x
        BY <1>3, <1>4, <4>1
      <4>2. CASE b # x
        <5>1. b \in U /\ <<b, m>> \notin R /\ b \in S /\ x \in S /\ m \in S
          BY <1>3, <1>4, <2>3, <4>2
        <5> QED
          BY <2>4, <5>1
      <4> QED
        BY <4>1, <4>2
    <3> QED
      BY <1>3, <1>4, <3>1
  <2>5. CASE <<x, m>> \notin R
    BY <1>3, <1>4, <2>3, <2>5
  <2> QED
    BY <2>4, <2>5
<1> QED
  BY <1>6, <1>7

LEMMA MaxScoreIs ==
  ASSUME NEW S, IsFiniteSet(S), S # {}, \A a \in S : IsScore(a)
  PROVE  MaxScore(S) \in S /\ \A b \in S : NoMore(b, MaxScore(S))
PROOF
<1> DEFINE R == {p \in S \X S : Less(p[2], p[1])}
<1>1. \A a, b, c \in S : <<a, b>> \in R /\ <<b, c>> \in R => <<a, c>> \in R
  BY ScoresAreOrdered
<1>2. \A a \in S : <<a, a>> \notin R
  BY DEF IsScore, Less
<1>3. \E a \in S : \A b \in S : <<b, a>> \notin R
  <2> HIDE DEF R
  <2> QED
    BY <1>1, <1>2, MinimalOf
<1>4. \E a \in S : \A b \in S : ~Less(a, b)
  BY <1>3
<1>5. MaxScore(S) \in S /\ \A b \in S : ~Less(MaxScore(S), b)
  BY <1>4 DEF MaxScore
<1> QED
  BY <1>5, ScoresCompare

(***************************************************************************)
(* The order of suspects, and the list it makes of them                    *)
(***************************************************************************)

Rankable(c) == IsScore(c.score) /\ c.primary \in Int /\ Alphabetical(c.path) \in Int

LEMMA BeforeIsStrict ==
  ASSUME NEW a, NEW b, NEW c, Rankable(a), Rankable(b), Rankable(c)
  PROVE  /\ Before(a, b) /\ Before(b, c) => Before(a, c)
         /\ ~Before(a, a)
PROOF
<1> DEFINE Tie(x, y) == \/ Alphabetical(x.path) < Alphabetical(y.path)
                        \/ x.path = y.path /\ x.primary < y.primary
<1>1. /\ IsScore(a.score) /\ IsScore(b.score) /\ IsScore(c.score)
      /\ a.primary \in Int /\ b.primary \in Int /\ c.primary \in Int
      /\ Alphabetical(a.path) \in Int /\ Alphabetical(b.path) \in Int /\ Alphabetical(c.path) \in Int
  BY DEF Rankable
<1>2. Tie(a, b) /\ Tie(b, c) => Tie(a, c)
  BY <1>1
<1>3. ~Tie(a, a)
  BY <1>1
<1>4. \A x, y \in {a, b, c} : Before(x, y) <=> Less(y.score, x.score) \/ (Same(x.score, y.score) /\ Tie(x, y))
  BY Zenon DEF Before
<1> HIDE DEF Tie
<1>5. Before(a, b) /\ Before(b, c) => Less(c.score, a.score) \/ (Same(a.score, c.score) /\ Tie(a, c))
  <2> SUFFICES ASSUME Before(a, b), Before(b, c)
               PROVE  Less(c.score, a.score) \/ (Same(a.score, c.score) /\ Tie(a, c))
    OBVIOUS
  <2>1. NoMore(b.score, a.score) /\ NoMore(c.score, b.score)
    BY <1>1, <1>4, ScoresAreOrdered, ScoresCompare
  <2>2. CASE Less(b.score, a.score) \/ Less(c.score, b.score)
    BY <1>1, <2>1, <2>2, ScoresAreOrdered
  <2>3. CASE ~(Less(b.score, a.score) \/ Less(c.score, b.score))
    <3>1. Same(a.score, b.score) /\ Tie(a, b) /\ Same(b.score, c.score) /\ Tie(b, c)
      BY <1>4, <2>3
    <3>2. Same(a.score, c.score)
      BY <1>1, <3>1, ScoresAreOrdered, ScoresCompare
    <3> QED
      BY <1>2, <3>1, <3>2
  <2> QED
    BY <2>2, <2>3
<1>6. ~Less(a.score, a.score)
  BY <1>1 DEF IsScore, Less
<1> QED
  BY <1>3, <1>4, <1>5, <1>6

LEMMA ForemostIs ==
  ASSUME NEW C, IsFiniteSet(C), C # {}, \A c \in C : Rankable(c)
  PROVE  Foremost(C) \in C /\ \A b \in C : ~Before(b, Foremost(C))
PROOF
<1> DEFINE R == {p \in C \X C : Before(p[1], p[2])}
<1>1. \A a, b, c \in C : <<a, b>> \in R /\ <<b, c>> \in R => <<a, c>> \in R
  BY BeforeIsStrict
<1>2. \A a \in C : <<a, a>> \notin R
  BY BeforeIsStrict
<1>3. \E a \in C : \A b \in C : <<b, a>> \notin R
  <2> HIDE DEF R
  <2> QED
    BY <1>1, <1>2, MinimalOf
<1>4. \E a \in C : \A b \in C : ~Before(b, a)
  BY <1>3
<1> QED
  BY <1>4 DEF Foremost

\* What is left of the suspects when the first have been taken.
Leaves(C, n, f) == f = [i \in 0..n |-> IF i = 0 THEN C ELSE f[i - 1] \ {Foremost(f[i - 1])}]

LEMMA LeavesExists ==
  ASSUME NEW C, NEW n \in Nat
  PROVE  \E f : Leaves(C, n, f)
PROOF
<1> DEFINE Bad == {k \in Nat : ~\E f : Leaves(C, k, f)}
<1> SUFFICES ASSUME Bad # {} PROVE FALSE
  OBVIOUS
<1>1. PICK k \in Bad : \A y \in Bad : k =< y
  BY LeastOf
<1>2. k # 0
  <2> DEFINE f == [i \in 0..0 |-> C]
  <2>1. Leaves(C, 0, f)
    BY DEF Leaves
  <2> QED
    BY <1>1, <2>1
<1> DEFINE j == k - 1
<1>3. j \in Nat /\ k = j + 1 /\ j \notin Bad
  BY <1>1, <1>2
<1>4. PICK g : Leaves(C, j, g)
  BY <1>3
<1> HIDE DEF j
<1> DEFINE f == [i \in 0..(j + 1) |-> IF i = j + 1 THEN g[j] \ {Foremost(g[j])} ELSE g[i]]
<1>5. \A i \in 0..(j + 1) : f[i] = IF i = 0 THEN C ELSE f[i - 1] \ {Foremost(f[i - 1])}
  <2> TAKE i \in 0..(j + 1)
  <2>1. CASE i = j + 1
    <3>1. f[i] = g[j] \ {Foremost(g[j])} /\ i # 0 /\ i - 1 = j /\ j \in 0..(j + 1) /\ j # j + 1
      BY <1>3, <2>1
    <3>2. f[j] = g[j]
      BY <3>1
    <3> HIDE DEF f
    <3> QED
      BY <3>1, <3>2
  <2>2. CASE i # j + 1
    <3>1. i \in 0..j /\ f[i] = g[i]
      BY <1>3, <2>2
    <3>2. i # 0 => i - 1 \in 0..(j + 1) /\ i - 1 # j + 1
      BY <1>3, <2>2
    <3>3. i # 0 => f[i - 1] = g[i - 1]
      BY <3>2
    <3>4. g[i] = IF i = 0 THEN C ELSE g[i - 1] \ {Foremost(g[i - 1])}
      BY <1>4, <3>1 DEF Leaves
    <3> HIDE DEF f
    <3> QED
      BY <3>1, <3>3, <3>4
  <2> QED
    BY <2>1, <2>2
<1>6. Leaves(C, j + 1, f)
  <2>1. f = [i \in 0..(j + 1) |-> f[i]]
    OBVIOUS
  <2> HIDE DEF f
  <2> QED
    BY <1>5, <2>1 DEF Leaves
<1> QED
  BY <1>1, <1>3, <1>6

\* They become one less with each that is taken.
LEMMA LeavesAre ==
  ASSUME NEW C, IsFiniteSet(C), \A c \in C : Rankable(c), NEW f, Leaves(C, Cardinality(C), f)
  PROVE  \A i \in 0..Cardinality(C) : f[i] \in SUBSET C /\ Cardinality(f[i]) = Cardinality(C) - i
PROOF
<1> DEFINE n == Cardinality(C)
           Well(i) == f[i] \in SUBSET C /\ Cardinality(f[i]) = n - i
           Bad == {i \in 0..n : ~Well(i)}
<1>0. n \in Nat
  BY FS_CardinalityType
<1> HIDE DEF n
<1> SUFFICES ASSUME Bad # {} PROVE FALSE
  BY DEF n
<1>1. PICK k \in Bad : \A y \in Bad : k =< y
  <2>1. Bad \in SUBSET Nat
    BY <1>0
  <2> HIDE DEF Bad
  <2> QED
    BY <2>1, LeastOf
<1>2. \A i \in 0..n : f[i] = IF i = 0 THEN C ELSE f[i - 1] \ {Foremost(f[i - 1])}
  BY DEF Leaves, n
<1>3. k # 0
  <2>0. 0 \in 0..n
    BY <1>0
  <2>1. f[0] = C
    BY <1>2, <2>0, Zenon
  <2> QED
    BY <1>0, <1>1, <2>1 DEF n
<1> DEFINE j == k - 1
<1>4. j \in 0..n /\ k \in 0..n /\ j < n /\ k = j + 1 /\ j \notin Bad
  BY <1>0, <1>1, <1>3
<1>5. f[j] \in SUBSET C /\ Cardinality(f[j]) = n - j
  BY <1>4
<1> HIDE DEF j
<1>6. IsFiniteSet(f[j]) /\ f[j] # {}
  BY <1>0, <1>4, <1>5, FS_Subset, FS_EmptySet
<1>7. Foremost(f[j]) \in f[j]
  BY <1>5, <1>6, ForemostIs
<1>8. f[k] = f[j] \ {Foremost(f[j])}
  <2>1. k - 1 = j
    BY <1>0, <1>4
  <2> QED
    BY <1>2, <1>3, <1>4, <2>1, Zenon
<1>9. Cardinality(f[k]) = n - j - 1
  BY <1>5, <1>6, <1>7, <1>8, FS_RemoveElement
<1>10. Well(k)
  BY <1>0, <1>4, <1>5, <1>8, <1>9
<1> QED
  BY <1>1, <1>10

\* The list has every suspect once, and none before one that goes before it.
SortedWell(C, s) ==
  /\ Cardinality(C) \in Nat /\ s \in [1..Cardinality(C) -> C]
  /\ \A c \in C : \E i \in 1..Cardinality(C) : s[i] = c
  /\ \A i, j \in 1..Cardinality(C) : i < j => s[i] # s[j] /\ ~Before(s[j], s[i])

LEMMA SortedIs ==
  ASSUME NEW C, IsFiniteSet(C), \A c \in C : Rankable(c)
  PROVE  SortedWell(C, Sorted(C))
PROOF
<1> DEFINE n == Cardinality(C)
           f == CHOOSE g : Leaves(C, n, g)
           s == Sorted(C)
<1>0. n \in Nat
  BY FS_CardinalityType
<1>1. Leaves(C, n, f)
  BY <1>0, LeavesExists
<1>2. s = [i \in 1..n |-> Foremost(f[i - 1])]
  BY DEF Sorted, Leaves
<1> HIDE DEF f, s
<1>3. \A i \in 0..n : f[i] \in SUBSET C /\ Cardinality(f[i]) = n - i
  BY <1>1, LeavesAre
<1>4. \A i \in 0..n : f[i] = IF i = 0 THEN C ELSE f[i - 1] \ {Foremost(f[i - 1])}
  BY <1>1 DEF Leaves
<1> HIDE DEF n
<1>5. ASSUME NEW i \in 1..n
      PROVE  /\ i - 1 \in 0..n /\ i \in 0..n /\ s[i] \in f[i - 1] /\ f[i] = f[i - 1] \ {s[i]}
             /\ \A b \in f[i - 1] : ~Before(b, s[i])
  <2>1. i - 1 \in 0..n /\ i \in 0..n /\ i # 0 /\ n - (i - 1) > 0
    BY <1>0
  <2>2. f[i - 1] \in SUBSET C /\ Cardinality(f[i - 1]) = n - (i - 1)
    BY <1>3, <2>1
  <2>3. IsFiniteSet(f[i - 1]) /\ f[i - 1] # {}
    BY <2>1, <2>2, FS_Subset, FS_EmptySet
  <2>4. Foremost(f[i - 1]) \in f[i - 1] /\ \A b \in f[i - 1] : ~Before(b, Foremost(f[i - 1]))
    BY <2>2, <2>3, ForemostIs
  <2>5. s[i] = Foremost(f[i - 1])
    BY <1>2
  <2>6. f[i] = f[i - 1] \ {s[i]}
    BY <1>4, <2>1, <2>5, Zenon
  <2> QED
    BY <2>1, <2>4, <2>5, <2>6, Zenon
<1>6. s \in [1..n -> C]
  <2>1. \A i \in 1..n : s[i] \in C
    BY <1>3, <1>5
  <2> QED
    BY <1>2, <2>1
<1>7. ASSUME NEW i \in 0..n, NEW j \in 0..n, i =< j PROVE f[j] \subseteq f[i]
  <2> DEFINE Bad == {k \in i..n : ~(f[k] \subseteq f[i])}
  <2> SUFFICES ASSUME Bad # {} PROVE FALSE
    BY <1>0, <1>7
  <2>1. PICK k \in Bad : \A y \in Bad : k =< y
    <3>1. Bad \in SUBSET Nat
      BY <1>0
    <3> HIDE DEF Bad
    <3> QED
      BY <3>1, LeastOf
  <2>2. k # i /\ k \in 1..n /\ k - 1 \in i..n /\ k - 1 < k
    BY <1>0, <2>1
  <2>3. k - 1 \notin Bad
    <3>1. \A y \in Bad : k =< y
      BY <2>1
    <3> HIDE DEF Bad
    <3> QED
      BY <1>0, <2>2, <3>1
  <2>4. f[k - 1] \subseteq f[i]
    BY <2>2, <2>3
  <2>5. f[k] = f[k - 1] \ {s[k]}
    BY <1>5, <2>2
  <2> QED
    BY <2>1, <2>4, <2>5
<1>8. \A i, j \in 1..n : i < j => s[i] # s[j] /\ ~Before(s[j], s[i])
  <2> SUFFICES ASSUME NEW i \in 1..n, NEW j \in 1..n, i < j
               PROVE  s[i] # s[j] /\ ~Before(s[j], s[i])
    OBVIOUS
  <2>1. i \in 0..n /\ j - 1 \in 0..n /\ i =< j - 1
    BY <1>0
  <2>2. s[j] \in f[i]
    BY <1>5, <1>7, <2>1
  <2>3. s[j] \in f[i - 1] /\ s[j] # s[i]
    BY <1>5, <2>2
  <2> QED
    BY <1>5, <2>3
<1>9. ASSUME NEW c \in C PROVE \E i \in 1..n : s[i] = c
  <2> DEFINE Gone == {i \in 0..n : c \notin f[i]}
  <2>1. n \in Gone
    <3>1. n \in 0..n /\ n - n = 0
      BY <1>0
    <3>2. f[n] \in SUBSET C /\ Cardinality(f[n]) = 0
      BY <1>3, <3>1
    <3>3. f[n] = {}
      BY <3>2, FS_Subset, FS_EmptySet
    <3> QED
      BY <3>1, <3>3
  <2>2. PICK k \in Gone : \A y \in Gone : k =< y
    <3>1. Gone \in SUBSET Nat
      BY <1>0
    <3> HIDE DEF Gone
    <3> QED
      BY <2>1, <3>1, LeastOf
  <2>3. k # 0
    <3>1. 0 \in 0..n
      BY <1>0
    <3>2. f[0] = C
      BY <1>4, <3>1, Zenon
    <3> QED
      BY <2>2, <3>2
  <2>4. k \in 1..n /\ k - 1 \in 0..n /\ k - 1 < k
    BY <1>0, <2>2, <2>3
  <2>5. k - 1 \notin Gone
    <3>1. \A y \in Gone : k =< y
      BY <2>2
    <3> HIDE DEF Gone
    <3> QED
      BY <1>0, <2>4, <3>1
  <2>6. c \in f[k - 1] /\ c \notin f[k] /\ f[k] = f[k - 1] \ {s[k]}
    BY <1>5, <2>2, <2>4, <2>5
  <2> QED
    BY <2>4, <2>6
<1> QED
  BY <1>0, <1>6, <1>8, <1>9 DEF SortedWell, n, s

\* The ranks of a list of n suspects.
RankedBy(s, n, f) ==
  f = [i \in 1..n |-> IF i = 1 THEN 1
                      ELSE IF Same(s[i].score, s[i - 1].score) THEN f[i - 1] ELSE f[i - 1] + 1]

LEMMA RanksExist ==
  ASSUME NEW s, NEW n \in Nat
  PROVE  \E f : RankedBy(s, n, f)
PROOF
<1> DEFINE Bad == {k \in Nat : ~\E f : RankedBy(s, k, f)}
<1> SUFFICES ASSUME Bad # {} PROVE FALSE
  OBVIOUS
<1>1. PICK k \in Bad : \A y \in Bad : k =< y
  BY LeastOf
<1>2. k # 0
  <2> DEFINE f == [i \in 1..0 |-> 1]
  <2>1. RankedBy(s, 0, f)
    BY DEF RankedBy
  <2> QED
    BY <1>1, <2>1
<1> DEFINE j == k - 1
<1>3. j \in Nat /\ k = j + 1 /\ j \notin Bad
  BY <1>1, <1>2
<1>4. PICK g : RankedBy(s, j, g)
  BY <1>3
<1> HIDE DEF j
<1> DEFINE turn(h, i) == IF i = 1 THEN 1
                         ELSE IF Same(s[i].score, s[i - 1].score) THEN h[i - 1] ELSE h[i - 1] + 1
           f == [i \in 1..(j + 1) |-> IF i = j + 1 THEN turn(g, i) ELSE g[i]]
<1>5. \A i \in 1..(j + 1) : f[i] = turn(f, i)
  <2> TAKE i \in 1..(j + 1)
  <2>1. i # 1 => i - 1 \in 1..j /\ i - 1 # j + 1
    BY <1>3
  <2>2. i # 1 => f[i - 1] = g[i - 1]
    BY <1>3, <2>1
  <2>3. turn(f, i) = turn(g, i)
    <3> HIDE DEF f
    <3> QED
      BY <2>2
  <2>4. f[i] = turn(g, i)
    <3>1. CASE i = j + 1
      BY <3>1
    <3>2. CASE i # j + 1
      <4>1. i \in 1..j /\ f[i] = g[i]
        BY <1>3, <3>2
      <4> HIDE DEF f
      <4> QED
        BY <1>4, <4>1 DEF RankedBy
    <3> QED
      BY <3>1, <3>2
  <2> QED
    BY <2>3, <2>4
<1>6. RankedBy(s, j + 1, f)
  <2>1. f = [i \in 1..(j + 1) |-> f[i]]
    OBVIOUS
  <2> HIDE DEF f
  <2> QED
    BY <1>5, <2>1 DEF RankedBy
<1> QED
  BY <1>1, <1>3, <1>6

\* Of sorted suspects none scores more than one before it.
LEMMA SortedFalls ==
  ASSUME NEW C, \A c \in C : Rankable(c), NEW s, SortedWell(C, s),
         NEW i \in 1..Cardinality(C), NEW j \in 1..Cardinality(C), i =< j
  PROVE  NoMore(s[j].score, s[i].score)
PROOF
<1>1. s[i] \in C /\ s[j] \in C
  BY DEF SortedWell
<1>2. CASE i = j
  BY <1>1, <1>2 DEF NoMore, Rankable, IsScore
<1>3. CASE i # j
  <2>1. ~Before(s[j], s[i])
    BY <1>3 DEF SortedWell
  <2>2. ~Less(s[i].score, s[j].score)
    BY <2>1 DEF Before
  <2> QED
    BY <1>1, <2>2, ScoresCompare DEF Rankable
<1> QED
  BY <1>2, <1>3

\* Whoever scores as much as anyone is in the first rank.
LEMMA FirstRankIs ==
  ASSUME NEW C, \A c \in C : Rankable(c), NEW s, SortedWell(C, s),
         NEW k \in 1..Cardinality(C), \A c \in C : NoMore(c.score, s[k].score)
  PROVE  DenseRanks(s)[k] = 1
PROOF
<1> DEFINE n == Cardinality(C)
           f == CHOOSE g : RankedBy(s, n, g)
<1>0. n \in Nat /\ DOMAIN s = 1..n
  BY DEF SortedWell
<1>1. RankedBy(s, n, f)
  BY <1>0, RanksExist
<1>2. DenseRanks(s) = f
  BY <1>0 DEF DenseRanks, RankedBy
<1> HIDE DEF f
<1>3. \A i \in 1..n : f[i] = IF i = 1 THEN 1
                              ELSE IF Same(s[i].score, s[i - 1].score) THEN f[i - 1] ELSE f[i - 1] + 1
  BY <1>1 DEF RankedBy
<1> DEFINE Bad == {i \in 1..k : f[i] # 1}
<1> SUFFICES ASSUME Bad # {} PROVE FALSE
  BY <1>2
<1>4. PICK i \in Bad : \A y \in Bad : i =< y
  <2>1. Bad \in SUBSET Nat
    OBVIOUS
  <2> HIDE DEF Bad
  <2> QED
    BY <2>1, LeastOf
<1>5. i \in 1..n /\ i =< k
  BY <1>0, <1>4
<1>6. CASE i = 1
  BY <1>3, <1>4, <1>5, <1>6, Zenon
<1>7. CASE i # 1
  <2>1. i - 1 \in 1..n /\ i - 1 \in 1..k /\ i - 1 < i
    BY <1>0, <1>5, <1>7
  <2>2. i - 1 \notin Bad
    <3>1. \A y \in Bad : i =< y
      BY <1>4
    <3> HIDE DEF Bad
    <3> QED
      BY <1>5, <2>1, <3>1
  <2>3. f[i - 1] = 1
    BY <2>1, <2>2
  <2>4. /\ s[i] \in C /\ s[i - 1] \in C /\ s[k] \in C
    BY <1>5, <2>1 DEF SortedWell
  <2>5. NoMore(s[k].score, s[i].score) /\ NoMore(s[i - 1].score, s[k].score) /\ NoMore(s[i].score, s[i - 1].score)
    BY <1>5, <2>1, <2>4, SortedFalls
  <2>6. Same(s[i].score, s[i - 1].score)
    BY <2>4, <2>5, ScoresAreOrdered, ScoresCompare DEF Rankable
  <2>7. f[i] = 1
    BY <1>3, <1>5, <1>7, <2>3, <2>6, Zenon
  <2> QED
    BY <1>4, <2>7
<1> QED
  BY <1>6, <1>7

\* The suspects are the first of the list.
LEMMA SuspectedFirst ==
  ASSUME NEW C, IsFiniteSet(C), \A c \in C : Rankable(c), NEW s, SortedWell(C, s)
  PROVE  /\ IsFiniteSet(Suspected(C)) /\ Cardinality(Suspected(C)) \in 0..Cardinality(C)
         /\ \A i \in 1..Cardinality(C) : Positive(s[i].score) <=> i =< Cardinality(Suspected(C))
PROOF
<1> DEFINE n == Cardinality(C)
           P == {i \in 1..n : Positive(s[i].score)}
<1>0. n \in Nat /\ s \in [1..n -> C]
  BY DEF SortedWell
<1>1. ASSUME NEW i \in 1..n, NEW j \in P, i =< j PROVE i \in P
  <2>1. NoMore(s[j].score, s[i].score)
    BY <1>1, SortedFalls
  <2>2. IsScore(s[i].score) /\ IsScore(s[j].score) /\ s[j].score[1] > 0
    BY <1>0 DEF Rankable, Positive
  <2> QED
    BY <2>1, <2>2, PositiveRises DEF Positive
<1>2. PICK q \in 0..n : P = 1..q
  <2>1. CASE P = {}
    <3>1. P = 1..0 /\ 0 \in 0..n
      BY <1>0, <2>1
    <3> QED
      BY <3>1
  <2>2. CASE P # {}
    <3> DEFINE T == {n - i : i \in P}
    <3>1. T \in SUBSET Nat /\ T # {}
      BY <1>0, <2>2
    <3>2. PICK t \in T : \A y \in T : t =< y
      <4> HIDE DEF T
      <4> QED
        BY <3>1, LeastOf
    <3>3. PICK q \in P : t = n - q
      BY <3>2
    <3>4. \A i \in P : i =< q
      <4> TAKE i \in P
      <4>1. t =< n - i
        BY <3>2
      <4> QED
        BY <1>0, <3>3, <4>1
    <3>5. q \in 0..n /\ P \in SUBSET (1..n)
      BY <1>0
    <3> HIDE DEF P
    <3>6. P \subseteq 1..q
      BY <1>0, <3>4, <3>5
    <3>7. 1..q \subseteq P
      <4> SUFFICES ASSUME NEW i \in 1..q PROVE i \in P
        OBVIOUS
      <4>1. i \in 1..n /\ i =< q
        BY <1>0, <3>5
      <4> QED
        BY <1>1, <3>3, <4>1
    <3> QED
      BY <3>5, <3>6, <3>7
  <2> QED
    BY <2>1, <2>2
<1>3. \A i \in 1..n : Positive(s[i].score) <=> i =< q
  BY <1>0, <1>2
<1> DEFINE h == [i \in 1..q |-> s[i]]
<1>4. h \in Bijection(1..q, Suspected(C))
  <2>1. \A i \in 1..q : i \in 1..n
    BY <1>0
  <2>2. h \in [1..q -> Suspected(C)]
    BY <1>0, <1>3, <2>1 DEF Suspected
  <2>3. \A i, j \in 1..q : h[i] = h[j] => i = j
    <3> SUFFICES ASSUME NEW i \in 1..q, NEW j \in 1..q, i # j PROVE h[i] # h[j]
      OBVIOUS
    <3>1. i < j \/ j < i
      BY <1>0
    <3> QED
      BY <2>1, <3>1 DEF SortedWell
  <2>4. \A c \in Suspected(C) : \E i \in 1..q : h[i] = c
    <3> TAKE c \in Suspected(C)
    <3>1. c \in C /\ Positive(c.score)
      BY DEF Suspected
    <3>2. PICK i \in 1..n : s[i] = c
      BY <3>1 DEF SortedWell
    <3>3. i \in 1..q
      BY <1>0, <1>3, <3>1, <3>2
    <3> QED
      BY <3>2, <3>3
  <2> QED
    BY <2>2, <2>3, <2>4 DEF Bijection, Injection, Surjection, IsInjective
<1>5. Cardinality(Suspected(C)) = q
  <2>1. IsFiniteSet(1..q) /\ Cardinality(1..q) = q
    BY <1>0, FS_Interval
  <2> QED
    BY <1>4, <2>1, FS_Bijection DEF ExistsBijection
<1>6. IsFiniteSet(Suspected(C))
  BY FS_Subset DEF Suspected
<1> QED
  BY <1>2, <1>3, <1>5, <1>6

\* An entry of a finding says of a suspect what is known of it.
From(e, c) ==
  /\ e.path = c.path /\ e.symbol = c.symbol /\ e.primary = c.primary
  /\ e.related = c.related /\ e.score = c.score

\* The entries E are of the candidates that come first, as many as asked for.
Shows(E, C, top) ==
  /\ E \in Seq(Range(E))
  /\ \A e \in Range(E) : \E c \in C : From(e, c)
  /\ top =< Cardinality(Suspected(C)) => \A e \in Range(E) : \E c \in Suspected(C) : From(e, c)
  /\ Cardinality(Suspected(C)) =< top =>
       \A c \in Suspected(C) : \E e \in Range(E) :
         From(e, c) /\ ((\A d \in C : NoMore(d.score, c.score)) => e.rank = 1)
  /\ top > 0 /\ C # {} => Range(E) # {}

LEMMA RankedIs ==
  ASSUME NEW C, IsFiniteSet(C), \A c \in C : Rankable(c), NEW top \in Nat
  PROVE  Shows(Ranked(C, top), C, top)
PROOF
<1> DEFINE n == Cardinality(C)
           q == Cardinality(Suspected(C))
           s == Sorted(C)
           m == IF n < top THEN n ELSE top
           E == Ranked(C, top)
<1>1. SortedWell(C, s)
  BY SortedIs
<1>2. n \in Nat /\ s \in [1..n -> C] /\ s \in Seq(C) /\ Len(s) = n
  BY <1>1 DEF SortedWell
<1>3. q \in 0..n /\ \A i \in 1..n : Positive(s[i].score) <=> i =< q
  BY <1>1, SuspectedFirst
<1>4. E = [i \in 1..m |->
             [rank |-> DenseRanks(s)[i], path |-> s[i].path, symbol |-> s[i].symbol,
              primary |-> s[i].primary, related |-> s[i].related, score |-> s[i].score]]
  BY <1>2 DEF Ranked
<1> HIDE DEF s, q, E
<1>5. m \in Nat /\ m =< n /\ m =< top /\ (m < n => m = top)
  BY <1>2
<1> HIDE DEF m, n
<1>6. \A i \in 1..m : i \in 1..n /\ s[i] \in C /\ From(E[i], s[i]) /\ E[i].rank = DenseRanks(s)[i]
  <2> TAKE i \in 1..m
  <2>1. i \in 1..n
    BY <1>2, <1>5
  <2> QED
    BY <1>2, <1>4, <2>1 DEF From
<1>7. E \in Seq(Range(E)) /\ DOMAIN E = 1..m
  <2>1. DOMAIN E = 1..m /\ E \in [1..m -> Range(E)]
    BY <1>4 DEF Range
  <2> QED
    BY <1>5, <2>1, SeqDef
<1>8. \A e \in Range(E) : \E i \in 1..m : e = E[i]
  BY <1>7 DEF Range
<1>9. \A i \in 1..m : E[i] \in Range(E)
  BY <1>7 DEF Range
<1>10. \A e \in Range(E) : \E c \in C : From(e, c)
  BY <1>6, <1>8
<1>11. ASSUME top =< q, NEW e \in Range(E) PROVE \E c \in Suspected(C) : From(e, c)
  <2>1. PICK i \in 1..m : e = E[i]
    BY <1>8
  <2>2. i \in 1..n /\ i =< q
    BY <1>2, <1>3, <1>5, <1>11, <2>1
  <2>3. s[i] \in Suspected(C)
    BY <1>2, <1>3, <2>2 DEF Suspected
  <2> QED
    BY <1>6, <2>1, <2>3
<1>12. ASSUME q =< top, NEW c \in Suspected(C)
       PROVE  \E e \in Range(E) : From(e, c) /\ ((\A d \in C : NoMore(d.score, c.score)) => e.rank = 1)
  <2>1. c \in C /\ Positive(c.score)
    BY DEF Suspected
  <2>2. PICK i \in 1..n : s[i] = c
    BY <1>1, <2>1 DEF SortedWell, n
  <2>3. i =< q
    BY <1>3, <2>1, <2>2
  <2>4. i \in 1..m
    BY <1>2, <1>3, <1>5, <1>12, <2>3
  <2>5. (\A d \in C : NoMore(d.score, c.score)) => DenseRanks(s)[i] = 1
    BY <1>1, <2>2, FirstRankIs DEF n
  <2> QED
    BY <1>6, <1>9, <2>2, <2>4, <2>5
<1>13. ASSUME top > 0, C # {} PROVE Range(E) # {}
  <2>1. n > 0
    BY <1>2, <1>13, FS_EmptySet DEF n
  <2>2. 1 \in 1..m
    BY <1>2, <1>5, <1>13, <2>1
  <2> QED
    BY <1>9, <2>2
<1> QED
  BY <1>7, <1>10, <1>11, <1>12, <1>13 DEF E, q, Shows

(***************************************************************************)
(* The formulas                                                            *)
(***************************************************************************)

\* Four counts of F failed and P passed tests.
Tally(c, F, P) ==
  /\ F \in Nat /\ P \in Nat /\ c.ef \in 0..F /\ c.ep \in 0..P
  /\ c.nf = F - c.ef /\ c.np = P - c.ep

\* Every failed test hit the place and no other.
Guilty(c) == c.ef > 0 /\ c.nf = 0 /\ c.ep = 0

LEMMA GuiltyIs ==
  ASSUME NEW g, NEW F, NEW P, Tally(g, F, P), Guilty(g)
  PROVE  F \in Nat \ {0} /\ g.ef = F /\ g.nf = 0 /\ g.ep = 0 /\ g.np = P
PROOF
<1>1. PICK e, p : e = g.ef /\ p = g.ep
  OBVIOUS
<1>2. F \in Nat /\ P \in Nat /\ e \in 0..F /\ F - e = 0 /\ e > 0 /\ p = 0 /\ g.np = P - p /\ g.nf = 0
  BY <1>1 DEF Tally, Guilty
<1> QED
  BY <1>1, <1>2

LEMMA OverIs ==
  ASSUME NEW a \in Nat, NEW b \in Nat
  PROVE  /\ IsScore(Over(a, b)) /\ Over(a, b)[1] \in Nat
         /\ Positive(Over(a, b)) <=> a > 0 /\ b > 0
PROOF
<1>1. CASE b > 0
  BY <1>1 DEF Over, IsScore, Positive
<1>2. CASE ~(b > 0)
  <2>1. b = 0 /\ Over(a, b) = <<0, 1>>
    BY <1>2 DEF Over, Zero
  <2> QED
    BY <2>1 DEF IsScore, Positive
<1> QED
  BY <1>1, <1>2

LEMMA OchiaiIs ==
  ASSUME NEW c, NEW F, NEW P, Tally(c, F, P)
  PROVE  /\ IsScore(Ochiai(c)) /\ (Positive(Ochiai(c)) <=> c.ef > 0)
         /\ \A g : Tally(g, F, P) /\ Guilty(g) => NoMore(Ochiai(c), Ochiai(g))
PROOF
<1>1. PICK e \in Nat, p \in Nat : e = c.ef /\ p = c.ep /\ c.ef + c.nf = F /\ e =< F /\ F \in Nat
  BY DEF Tally
<1> DEFINE b == F * (e + p)
<1>2. Ochiai(c) = Over(e * e, b)
  BY <1>1 DEF Ochiai
<1>3. e * e \in Nat /\ b \in Nat /\ (e * e > 0 <=> e > 0) /\ (e > 0 => b > 0)
  <2>1. e * e \in Nat /\ b \in Nat
    BY <1>1, ProductOfPositives
  <2>2. e * e > 0 <=> e > 0
    BY <1>1, ProductOfPositives
  <2>3. e > 0 => b > 0
    BY <1>1, ProductOfPositives
  <2> QED
    BY <2>1, <2>2, <2>3
<1>4. ASSUME NEW g, Tally(g, F, P), Guilty(g) PROVE NoMore(Ochiai(c), Ochiai(g))
  <2>1. g.ef = F /\ g.nf = 0 /\ g.ep = 0 /\ F \in Nat \ {0}
    BY <1>4, GuiltyIs
  <2> DEFINE k == F * F
  <2>2. k \in Nat \ {0}
    BY <2>1, ProductOfPositives
  <2>3. Ochiai(g) = Over(k, (F + 0) * (F + 0))
    BY <2>1 DEF Ochiai
  <2>4. Ochiai(g) = <<k, k>>
    BY <2>1, <2>2, <2>3 DEF Over
  <2>5. e * e =< b
    <3>1. b = F * e + F * p
      BY <1>1
    <3>2. F * p >= 0 /\ F * p \in Int /\ F * e \in Int
      BY <1>1, ProductOfPositives
    <3>3. e * e =< F * e
      <4>1. CASE e = 0
        BY <4>1, <1>1
      <4>2. CASE e # 0
        BY <1>1, <4>2, Cancelled
      <4> QED
        BY <4>1, <4>2
    <3> HIDE DEF b
    <3> QED
      BY <1>3, <3>1, <3>2, <3>3
  <2> HIDE DEF b, k
  <2>6. CASE b > 0
    <3>1. Ochiai(c) = <<e * e, b>>
      BY <1>2, <2>6 DEF Over
    <3>2. (e * e) * k =< b * k /\ b * k = k * b
      BY <1>3, <2>2, <2>5, Cancelled
    <3> QED
      BY <2>4, <3>1, <3>2 DEF NoMore
  <2>7. CASE ~(b > 0)
    <3>1. Ochiai(c) = <<0, 1>>
      BY <1>2, <2>7 DEF Over, Zero
    <3> QED
      BY <2>2, <2>4, <3>1 DEF NoMore
  <2> QED
    BY <2>6, <2>7
<1> HIDE DEF b
<1>5. IsScore(Ochiai(c)) /\ (Positive(Ochiai(c)) <=> c.ef > 0)
  BY <1>1, <1>2, <1>3, OverIs
<1> QED
  BY <1>4, <1>5

LEMMA Op2Is ==
  ASSUME NEW c, NEW F, NEW P, Tally(c, F, P)
  PROVE  /\ IsScore(Op2(c)) /\ (Positive(Op2(c)) <=> c.ef > 0)
         /\ \A g : Tally(g, F, P) /\ Guilty(g) => NoMore(Op2(c), Op2(g))
PROOF
<1>1. PICK e \in Nat, p \in Nat : e = c.ef /\ p = c.ep /\ p =< P /\ e =< F
  BY DEF Tally
<1> DEFINE k == P + 1
<1>2. k \in Nat \ {0} /\ F \in Nat /\ P \in Nat /\ p < k
  BY <1>1 DEF Tally
<1>3. c.ep + c.np + 1 = k
  BY DEF Tally
<1>4. Op2(c) = <<e * k - p, k>>
  BY <1>1, <1>3 DEF Op2
<1>5. e * k \in Nat /\ (e > 0 => e * k >= k) /\ (e = 0 => e * k = 0)
  <2>1. e * k \in Nat
    BY <1>1, <1>2, ProductOfPositives
  <2>2. 1 =< e => 1 * k =< e * k
    BY <1>1, <1>2, Cancelled
  <2>3. 1 * k = k /\ 0 * k = 0
    BY <1>2
  <2>4. e = 0 \/ (e > 0 /\ 1 =< e)
    BY <1>1
  <2>5. CASE e = 0
    BY <2>1, <2>3, <2>5
  <2> DEFINE m == e * k
  <2> HIDE DEF k, m
  <2>6. CASE e > 0 /\ 1 =< e
    <3>1. m >= k
      BY <1>2, <2>1, <2>2, <2>3, <2>6 DEF m
    <3> QED
      BY <2>1, <2>6, <3>1 DEF m
  <2> QED
    BY <2>4, <2>5, <2>6
<1> HIDE DEF k
<1>6. ASSUME NEW g, Tally(g, F, P), Guilty(g) PROVE NoMore(Op2(c), Op2(g))
  <2>1. g.ef = F /\ g.nf = 0 /\ g.ep = 0 /\ g.ep + g.np + 1 = k
    BY <1>6 DEF Tally, Guilty, k
  <2>2. Op2(g) = <<F * k - 0, k>>
    BY <2>1 DEF Op2
  <2>3. F * k \in Nat /\ e * k =< F * k
    BY <1>1, <1>2, Cancelled, ProductOfPositives
  <2>4. e * k - p \in Int /\ e * k - p =< F * k
    BY <1>1, <1>2, <1>5, <2>3
  <2>5. (e * k - p) * k =< (F * k) * k
    BY <1>2, <2>3, <2>4, Cancelled
  <2>6. F * k - 0 = F * k
    BY <2>3
  <2> QED
    BY <1>4, <2>2, <2>5, <2>6 DEF NoMore
<1>7. IsScore(Op2(c)) /\ (Positive(Op2(c)) <=> c.ef > 0)
  <2>1. e * k - p \in Int /\ (e * k - p > 0 <=> e > 0)
    BY <1>1, <1>2, <1>5
  <2> QED
    BY <1>1, <1>2, <1>4, <2>1 DEF IsScore, Positive
<1> QED
  BY <1>6, <1>7

LEMMA TarantulaIs ==
  ASSUME NEW c, NEW F, NEW P, Tally(c, F, P)
  PROVE  /\ IsScore(Tarantula(c)) /\ (Positive(Tarantula(c)) <=> c.ef > 0)
         /\ \A g : Tally(g, F, P) /\ Guilty(g) => NoMore(Tarantula(c), Tarantula(g))
PROOF
<1>1. PICK e \in Nat, p \in Nat : e = c.ef /\ p = c.ep /\ c.ef + c.nf = F /\ c.ep + c.np = P /\ e =< F /\ p =< P
  BY DEF Tally
<1>2. F \in Nat /\ P \in Nat
  BY DEF Tally
<1> DEFINE x == Over(e, F)[1] * Over(p, P)[2]
           y == Over(p, P)[1] * Over(e, F)[2]
<1>3. Tarantula(c) = Over(x, x + y)
  BY <1>1 DEF Tarantula
<1>4. x \in Nat /\ y \in Nat /\ (x > 0 <=> e > 0)
  <2>1. /\ Over(e, F)[1] \in Nat /\ Over(e, F)[2] \in Nat \ {0}
        /\ Over(p, P)[1] \in Nat /\ Over(p, P)[2] \in Nat \ {0}
    BY <1>1, <1>2, OverIs DEF IsScore
  <2>2. Over(e, F)[1] > 0 <=> e > 0
    BY <1>1, <1>2, OverIs DEF Positive
  <2>3. PICK a \in Nat, b \in Nat \ {0}, d \in Nat, f \in Nat \ {0} :
          a = Over(e, F)[1] /\ b = Over(e, F)[2] /\ d = Over(p, P)[1] /\ f = Over(p, P)[2]
    BY <2>1
  <2>4. a * f \in Nat /\ d * b \in Nat /\ (a * f > 0 <=> a > 0)
    <3>1. a * f \in Nat /\ d * b \in Nat
      BY ProductOfPositives
    <3>2. a > 0 => a * f > 0
      BY ProductOfPositives
    <3>3. a = 0 => a * f = 0
      OBVIOUS
    <3> QED
      BY <3>1, <3>2, <3>3
  <2> QED
    BY <2>2, <2>3, <2>4
<1>5. IsScore(Tarantula(c)) /\ (Positive(Tarantula(c)) <=> c.ef > 0)
  <2> HIDE DEF x, y
  <2> QED
    BY <1>1, <1>3, <1>4, OverIs
<1>6. ASSUME NEW g, Tally(g, F, P), Guilty(g) PROVE NoMore(Tarantula(c), Tarantula(g))
  <2>1. F \in Nat \ {0} /\ g.ef = F /\ g.nf = 0 /\ g.ep = 0 /\ g.np = P
    BY <1>6, GuiltyIs
  <2>2. PICK d \in Nat \ {0} : Over(0, P) = <<0, d>>
    BY <1>2 DEF Over, Zero
  <2>3. Over(F, F + 0) = <<F, F>>
    BY <2>1 DEF Over
  <2>4. Over(0, 0 + P) = <<0, d>>
    BY <1>2, <2>2
  <2> DEFINE k == F * d
  <2>5. k \in Nat \ {0}
    BY <2>1, ProductOfPositives
  <2>6. Tarantula(g) = Over(k, k + 0 * F)
    BY <2>1, <2>3, <2>4 DEF Tarantula
  <2>7. Tarantula(g) = <<k, k>>
    BY <2>1, <2>5, <2>6 DEF Over
  <2> HIDE DEF x, y, k
  <2>8. CASE x + y > 0
    <3>1. Tarantula(c) = <<x, x + y>>
      BY <1>3, <2>8 DEF Over
    <3>2. x * k =< (x + y) * k
      BY <1>4, <2>5, Cancelled
    <3>3. (x + y) * k = k * (x + y)
      BY <1>4, <2>5
    <3> QED
      BY <2>7, <3>1, <3>2, <3>3 DEF NoMore
  <2>9. CASE ~(x + y > 0)
    <3>1. Tarantula(c) = <<0, 1>>
      BY <1>3, <2>9 DEF Over, Zero
    <3> QED
      BY <2>5, <2>7, <3>1 DEF NoMore
  <2> QED
    BY <2>8, <2>9
<1> QED
  BY <1>5, <1>6

\* The image of a finite set.
LEMMA ImageIsFinite ==
  ASSUME NEW S, IsFiniteSet(S), NEW f
  PROVE  /\ IsFiniteSet({f[x] : x \in S})
         /\ Cardinality({f[x] : x \in S}) =< Cardinality(S)
PROOF
<1> DEFINE T == {f[x] : x \in S}
           g == [x \in S |-> f[x]]
<1>1. g \in Surjection(S, T)
  BY DEF Surjection
<1> HIDE DEF g, T
<1>2. IsFiniteSet(T) /\ Cardinality(T) =< Cardinality(S)
  BY <1>1, FS_Surjection
<1> QED
  BY <1>2 DEF T

\* The quotient of D*, and the greatest of them.
LEMMA QuotientIs ==
  ASSUME NEW c, NEW F, NEW P, Tally(c, F, P)
  PROVE  /\ IsScore(DStarQuotient(c)) /\ DStarQuotient(c)[1] \in Nat
         /\ ~DStarUnbounded(c) => (Positive(DStarQuotient(c)) <=> c.ef > 0)
PROOF
<1>1. PICK e \in Nat, b \in Nat : e = c.ef /\ b = c.ep + c.nf
  BY DEF Tally
<1>2. e * e \in Nat /\ (e * e > 0 <=> e > 0)
  <2>1. e * e \in Nat /\ (e > 0 => e * e > 0)
    BY ProductOfPositives
  <2> QED
    BY <2>1
<1>3. DStarQuotient(c) = Over(e * e, b)
  BY <1>1 DEF DStarQuotient
<1>4. ~DStarUnbounded(c) => b > 0 \/ e = 0
  BY <1>1 DEF DStarUnbounded
<1> QED
  BY <1>1, <1>2, <1>3, <1>4, OverIs

LEMMA DStarIs ==
  ASSUME NEW counts, IsFiniteSet(DOMAIN counts), NEW F, NEW P,
         \A k \in DOMAIN counts : Tally(counts[k], F, P), NEW l \in DOMAIN counts
  PROVE  /\ IsScore(DStar(counts, l)) /\ (Positive(DStar(counts, l)) <=> counts[l].ef > 0)
         /\ \A k \in DOMAIN counts : Guilty(counts[l]) => NoMore(DStar(counts, k), DStar(counts, l))
PROOF
<1> DEFINE Q == {DStarQuotient(counts[k]) : k \in DOMAIN counts}
           m == MaxScore(Q)
<1>1. IsFiniteSet(Q) /\ Q # {}
  <2> DEFINE f == [k \in DOMAIN counts |-> DStarQuotient(counts[k])]
  <2>1. Q = {f[k] : k \in DOMAIN counts}
    OBVIOUS
  <2>2. IsFiniteSet({f[k] : k \in DOMAIN counts})
    <3> HIDE DEF f
    <3> QED
      BY ImageIsFinite
  <2> QED
    BY <2>1, <2>2
<1>2. \A a \in Q : IsScore(a) /\ a[1] \in Nat
  BY QuotientIs
<1>3. m \in Q /\ \A b \in Q : NoMore(b, m)
  <2> HIDE DEF Q
  <2> QED
    BY <1>1, <1>2, MaxScoreIs
<1>4. PICK m1 \in Nat, m2 \in Nat \ {0} : m1 = m[1] /\ m2 = m[2]
  BY <1>2, <1>3 DEF IsScore
<1>5. \A k \in DOMAIN counts : DStar(counts, k) =
        IF DStarUnbounded(counts[k]) THEN Plus(m, <<counts[k].ef * counts[k].ef, 1>>) ELSE DStarQuotient(counts[k])
  BY DEF DStar
<1>6. \A k \in DOMAIN counts : DStarQuotient(counts[k]) \in Q
  OBVIOUS
<1> HIDE DEF Q, m
\* What stands above every quotient.
<1>7. ASSUME NEW e \in Nat, e > 0, NEW a, a = Plus(m, <<e * e, 1>>)
      PROVE  IsScore(a) /\ Positive(a) /\ NoMore(m, a)
  <2> DEFINE s == m1 * 1 + (e * e) * m2
             t == m2 * 1
  <2>1. e * e > 0 /\ e * e \in Nat
    BY <1>7, ProductOfPositives
  <2>2. (e * e) * m2 > 0 /\ (e * e) * m2 \in Int
    BY <2>1, ProductOfPositives
  <2>3. a = <<s, t>>
    BY <1>4, <1>7 DEF Plus
  <2>4. s \in Nat /\ s > 0 /\ s >= m1 /\ t = m2
    <3> DEFINE k == (e * e) * m2
    <3> HIDE DEF k
    <3>1. k > 0 /\ k \in Int
      BY <2>2 DEF k
    <3>2. m1 * 1 = m1
      OBVIOUS
    <3>3. s = m1 + k
      BY <3>2 DEF k
    <3> QED
      BY <3>1, <3>3
  <2> HIDE DEF s, t
  <2>5. m1 * m2 =< s * m2
    BY <2>4, Cancelled
  <2> QED
    BY <1>4, <2>3, <2>4, <2>5 DEF IsScore, Positive, NoMore
<1>8. \A k \in DOMAIN counts : counts[k].ef \in Nat
  BY DEF Tally
<1>9. ASSUME NEW k \in DOMAIN counts
      PROVE  IsScore(DStar(counts, k)) /\ (Positive(DStar(counts, k)) <=> counts[k].ef > 0)
  <2>1. CASE DStarUnbounded(counts[k])
    <3>1. counts[k].ef > 0
      BY <2>1 DEF DStarUnbounded
    <3>2. DStar(counts, k) = Plus(m, <<counts[k].ef * counts[k].ef, 1>>)
      BY <1>5, <2>1
    <3> QED
      BY <1>7, <1>8, <3>1, <3>2
  <2>2. CASE ~DStarUnbounded(counts[k])
    <3>1. DStar(counts, k) = DStarQuotient(counts[k])
      BY <1>5, <2>2
    <3> QED
      BY <2>2, <3>1, QuotientIs
  <2> QED
    BY <2>1, <2>2
<1>10. ASSUME NEW k \in DOMAIN counts, Guilty(counts[l]) PROVE NoMore(DStar(counts, k), DStar(counts, l))
  <2>1. F \in Nat \ {0} /\ counts[l].ef = F /\ counts[l].nf = 0 /\ counts[l].ep = 0
    BY <1>10, GuiltyIs
  <2>2. DStarUnbounded(counts[l])
    BY <2>1 DEF DStarUnbounded
  <2>3. DStar(counts, l) = Plus(m, <<F * F, 1>>)
    BY <1>5, <2>1, <2>2
  <2>4. IsScore(DStar(counts, l)) /\ NoMore(m, DStar(counts, l))
    BY <1>7, <2>1, <2>3
  <2>5. CASE DStarUnbounded(counts[k])
    <3>1. PICK e \in 0..F, p \in 0..P : e = counts[k].ef /\ p = counts[k].ep /\ counts[k].nf = F - e
      BY DEF Tally
    <3>2. p + (F - e) = 0 /\ F \in Nat /\ P \in Nat
      BY <2>5, <3>1 DEF DStarUnbounded, Tally
    <3>3. counts[k].ef = F
      <4>1. PICK d \in Nat, a \in Nat, q \in Nat : d = F /\ a = e /\ q = p
        BY <3>2
      <4>2. a =< d /\ q + (d - a) = 0
        BY <3>2, <4>1
      <4>3. a = d
        BY <4>2
      <4> QED
        BY <3>1, <4>1, <4>3
    <3>4. DStar(counts, k) = DStar(counts, l)
      BY <1>5, <2>3, <2>5, <3>3
    <3> QED
      BY <2>4, <3>4 DEF NoMore, IsScore
  <2>6. CASE ~DStarUnbounded(counts[k])
    <3>1. DStar(counts, k) = DStarQuotient(counts[k])
      BY <1>5, <2>6
    <3>2. NoMore(DStar(counts, k), m) /\ IsScore(DStar(counts, k)) /\ IsScore(m)
      BY <1>2, <1>3, <1>6, <3>1
    <3> QED
      BY <2>4, <3>2, ScoresAreOrdered
  <2> QED
    BY <2>5, <2>6
<1> QED
  BY <1>9, <1>10

\* Whatever the formula: a place is suspicious exactly when a failed test hit
\* it, and none scores more than one that all of them and no other hit.
LEMMA ScoreIs ==
  ASSUME NEW counts, IsFiniteSet(DOMAIN counts), NEW F, NEW P,
         \A k \in DOMAIN counts : Tally(counts[k], F, P), NEW l \in DOMAIN counts, NEW formula \in Formulas
  PROVE  /\ IsScore(Score(formula, counts, l))
         /\ Positive(Score(formula, counts, l)) <=> counts[l].ef > 0
         /\ \A k \in DOMAIN counts :
              Guilty(counts[l]) => NoMore(Score(formula, counts, k), Score(formula, counts, l))
PROOF
<1>1. CASE formula = "ochiai"
  <2>1. \A k \in DOMAIN counts : Score(formula, counts, k) = Ochiai(counts[k])
    BY <1>1 DEF Score
  <2> QED
    BY <2>1, OchiaiIs
<1>2. CASE formula = "op2"
  <2>1. \A k \in DOMAIN counts : Score(formula, counts, k) = Op2(counts[k])
    BY <1>2 DEF Score
  <2> QED
    BY <2>1, Op2Is
<1>3. CASE formula = "dstar2"
  <2>1. \A k \in DOMAIN counts : Score(formula, counts, k) = DStar(counts, k)
    BY <1>3 DEF Score
  <2> QED
    BY <2>1, DStarIs
<1>4. CASE formula = "tarantula"
  <2>1. \A k \in DOMAIN counts : Score(formula, counts, k) = Tarantula(counts[k])
    BY <1>4 DEF Score
  <2> QED
    BY <2>1, TarantulaIs
<1> QED
  BY <1>1, <1>2, <1>3, <1>4 DEF Formulas

(***************************************************************************)
(* Suspects by the tests that ran their lines                              *)
(***************************************************************************)

ResultsWell(run) == run.results \in Seq(Range(run.results))

FilesWell(files) ==
  /\ files \in Seq(Range(files))
  /\ \A f \in Range(files) :
       /\ Alphabetical(f.path) \in Nat /\ DOMAIN f.tests \subseteq Nat /\ IsFiniteSet(DOMAIN f.tests)
       /\ \A l \in DOMAIN f.tests : IsFiniteSet(f.tests[l])

LEMMA ListIsFinite ==
  ASSUME NEW s, s \in Seq(Range(s))
  PROVE  IsFiniteSet(DOMAIN s) /\ Cardinality(DOMAIN s) = Len(s) /\ Len(s) \in Nat
PROOF
<1>1. DOMAIN s = 1..Len(s) /\ Len(s) \in Nat
  OBVIOUS
<1>2. IsFiniteSet(1..Len(s)) /\ Cardinality(1..Len(s)) = Len(s)
  BY <1>1, FS_Interval
<1> QED
  BY <1>1, <1>2

LEMMA TestsAreFinite ==
  ASSUME NEW run, ResultsWell(run)
  PROVE  IsFiniteSet(FailedTests(run)) /\ IsFiniteSet(PassedTests(run))
PROOF
<1>1. IsFiniteSet(DOMAIN run.results)
  BY ListIsFinite DEF ResultsWell
<1>2. ASSUME NEW D \in SUBSET DOMAIN run.results PROVE IsFiniteSet({run.results[i].node : i \in D})
  <2> DEFINE f == [i \in D |-> run.results[i].node]
  <2>1. {run.results[i].node : i \in D} = {f[i] : i \in D}
    OBVIOUS
  <2>2. IsFiniteSet(D)
    BY <1>1, FS_Subset
  <2> HIDE DEF f
  <2>3. IsFiniteSet({f[i] : i \in D})
    BY <2>2, ImageIsFinite
  <2> QED
    BY <2>1, <2>3
<1> QED
  BY <1>2 DEF FailedTests, PassedTests

LEMMA PlacesAreFinite ==
  ASSUME NEW files, FilesWell(files)
  PROVE  /\ IsFiniteSet(Places(files))
         /\ \A p \in Places(files) : \E i \in DOMAIN files : p[1] = files[i].path /\ p[2] \in DOMAIN files[i].tests
         /\ \A p : IsFiniteSet(TestsOn(files, p))
PROOF
<1>1. IsFiniteSet(DOMAIN files) /\ \A i \in DOMAIN files : files[i] \in Range(files)
  BY ListIsFinite DEF FilesWell, Range
<1> DEFINE of(i) == {<<files[i].path, l>> : l \in DOMAIN files[i].tests}
<1>2. IsFiniteSet(Places(files))
  <2>1. ASSUME NEW i \in DOMAIN files PROVE IsFiniteSet(of(i))
    <3> DEFINE f == [l \in DOMAIN files[i].tests |-> <<files[i].path, l>>]
    <3>1. of(i) = {f[l] : l \in DOMAIN files[i].tests}
      OBVIOUS
    <3>2. IsFiniteSet(DOMAIN files[i].tests)
      BY <1>1 DEF FilesWell
    <3> HIDE DEF f
    <3>3. IsFiniteSet({f[l] : l \in DOMAIN files[i].tests})
      BY <3>2, ImageIsFinite
    <3> QED
      BY <3>1, <3>3
  <2> DEFINE g == [i \in DOMAIN files |-> of(i)]
  <2>2. {of(i) : i \in DOMAIN files} = {g[i] : i \in DOMAIN files}
    OBVIOUS
  <2>3. IsFiniteSet({g[i] : i \in DOMAIN files})
    <3> HIDE DEF g
    <3> QED
      BY <1>1, ImageIsFinite
  <2>4. IsFiniteSet({of(i) : i \in DOMAIN files})
    BY <2>2, <2>3
  <2>5. \A T \in {of(i) : i \in DOMAIN files} : IsFiniteSet(T)
    BY <2>1
  <2>6. IsFiniteSet(UNION {of(i) : i \in DOMAIN files})
    BY <2>4, <2>5, FS_UNION
  <2> QED
    BY <2>6 DEF Places
<1>3. ASSUME NEW p \in Places(files)
      PROVE  \E i \in DOMAIN files : p[1] = files[i].path /\ p[2] \in DOMAIN files[i].tests
  <2>1. PICK i \in DOMAIN files : p \in of(i)
    BY DEF Places
  <2>2. PICK l \in DOMAIN files[i].tests : p = <<files[i].path, l>>
    BY <2>1
  <2> QED
    BY <2>2
<1>4. ASSUME NEW p PROVE IsFiniteSet(TestsOn(files, p))
  <2> DEFINE D == {j \in DOMAIN files : files[j].path = p[1] /\ p[2] \in DOMAIN files[j].tests}
             g == [i \in D |-> files[i].tests[p[2]]]
  <2>1. IsFiniteSet(D)
    BY <1>1, FS_Subset
  <2>2. \A i \in D : IsFiniteSet(g[i])
    BY <1>1 DEF FilesWell
  <2>3. TestsOn(files, p) = UNION {g[i] : i \in D}
    BY DEF TestsOn
  <2> HIDE DEF g, D
  <2>4. IsFiniteSet({g[i] : i \in D})
    BY <2>1, ImageIsFinite
  <2> QED
    BY <2>2, <2>3, <2>4, FS_UNION
<1> QED
  BY <1>2, <1>3, <1>4

\* The passing tests that coverage saw.
Passing(run, files) ==
  ((UNION {TestsOn(files, p) : p \in Places(files)}) \cap PassedTests(run)) \ FailedTests(run)

\* What is subtracted is part of what it is subtracted from.
LEMMA CountsAre ==
  ASSUME NEW run, ResultsWell(run), NEW files, FilesWell(files)
  PROVE  /\ DOMAIN SpectraCounts(run, files) = Places(files)
         /\ \A p \in Places(files) :
              Tally(SpectraCounts(run, files)[p], Cardinality(FailedTests(run)), Cardinality(Passing(run, files)))
PROOF
<1>1. IsFiniteSet(FailedTests(run)) /\ IsFiniteSet(Passing(run, files))
  <2>1. Passing(run, files) \in SUBSET PassedTests(run)
    BY DEF Passing
  <2> QED
    BY <2>1, TestsAreFinite, FS_Subset
<1>2. SpectraCounts(run, files) = [p \in Places(files) |->
        Counts(Cardinality(TestsOn(files, p) \cap FailedTests(run)),
                Cardinality(TestsOn(files, p) \cap Passing(run, files)),
               Cardinality(FailedTests(run)), Cardinality(Passing(run, files)))]
  BY Zenon DEF SpectraCounts, Passing
<1>3. ASSUME NEW p \in Places(files)
      PROVE  Tally(SpectraCounts(run, files)[p], Cardinality(FailedTests(run)), Cardinality(Passing(run, files)))
  <2>1. PICK e, q, F, P :
          /\ e = Cardinality(TestsOn(files, p) \cap FailedTests(run))
          /\ q = Cardinality(TestsOn(files, p) \cap Passing(run, files))
          /\ F = Cardinality(FailedTests(run)) /\ P = Cardinality(Passing(run, files))
    OBVIOUS
  <2>2. F \in Nat /\ P \in Nat
    BY <1>1, <2>1, FS_CardinalityType
  <2>3. e \in Nat /\ e =< F
    BY <1>1, <2>1, FS_CardinalityType, FS_Subset
  <2>4. q \in Nat /\ q =< P
    BY <1>1, <2>1, FS_CardinalityType, FS_Subset
  <2>5. SpectraCounts(run, files)[p] = Counts(e, q, F, P)
    BY <1>2, <2>1
  <2>6. Tally(Counts(e, q, F, P), F, P)
    BY <2>2, <2>3, <2>4 DEF Tally, Counts
  <2> QED
    BY <2>1, <2>5, <2>6
<1> QED
  BY <1>2, <1>3

\* A non-empty set of naturals has its least element in it.
LEMMA MinIs ==
  ASSUME NEW S \in SUBSET Nat, S # {}
  PROVE  Min(S) \in S /\ \A x \in S : Min(S) =< x
PROOF
<1>1. PICK x \in S : \A y \in S : x =< y
  BY LeastOf
<1> QED
  BY <1>1 DEF Min

Key(p) == <<p[1], SymbolAt(p[1], p[2])>>
Lines(counts, k) == {p \in DOMAIN counts : Key(p) = k}

Stands(run, files, formula, k) ==
  LET counts == SpectraCounts(run, files)
  IN  [path |-> k[1], symbol |-> k[2],
       score |-> MaxScore({Score(formula, counts, p) : p \in Lines(counts, k)}),
       primary |-> PrimaryLine(counts, Lines(counts, k)),
       related |-> (UNION {TestsOn(files, p) : p \in Lines(counts, k)}) \cap FailedTests(run)]

LEMMA GroupedStands ==
  ASSUME NEW run, NEW files, NEW formula
  PROVE  Grouped(run, files, formula) =
           {Stands(run, files, formula, k) : k \in {Key(p) : p \in DOMAIN SpectraCounts(run, files)}}
BY DEF Grouped, Stands, Key, Lines

\* The line shown for a group is one of its lines.
LEMMA PrimaryIs ==
  ASSUME NEW counts, NEW F, NEW P, \A p \in DOMAIN counts : Tally(counts[p], F, P),
         IsFiniteSet(DOMAIN counts), \A p \in DOMAIN counts : p[2] \in Nat,
         NEW G \in SUBSET DOMAIN counts, G # {}
  PROVE  PrimaryLine(counts, G) \in Nat
PROOF
<1> DEFINE f == [p \in G |-> Ochiai(counts[p])]
           S == {f[p] : p \in G}
           best == {p \in G : \A q \in G : ~Less(Ochiai(counts[p]), Ochiai(counts[q]))}
<1>1. IsFiniteSet(S)
  <2>1. IsFiniteSet(G)
    BY FS_Subset
  <2> HIDE DEF f
  <2> QED
    BY <2>1, ImageIsFinite
<1>2. S # {} /\ \A a \in S : IsScore(a)
  BY OchiaiIs
<1>3. MaxScore(S) \in S /\ \A a \in S : NoMore(a, MaxScore(S))
  <2> HIDE DEF S
  <2> QED
    BY <1>1, <1>2, MaxScoreIs
<1>4. PICK p \in G : MaxScore(S) = Ochiai(counts[p])
  BY <1>3
<1>5. \A q \in G : Ochiai(counts[q]) \in S
  OBVIOUS
<1>6. \A q \in G : ~Less(Ochiai(counts[p]), Ochiai(counts[q]))
  <2> TAKE q \in G
  <2>1. NoMore(Ochiai(counts[q]), Ochiai(counts[p])) /\ IsScore(Ochiai(counts[q])) /\ IsScore(Ochiai(counts[p]))
    BY <1>2, <1>3, <1>4, <1>5
  <2> QED
    BY <2>1, ScoresCompare
<1> HIDE DEF S, f
<1>7. {q[2] : q \in best} \in SUBSET Nat /\ {q[2] : q \in best} # {}
  BY <1>6
<1>8. PrimaryLine(counts, G) = Min({q[2] : q \in best})
  BY DEF PrimaryLine
<1> HIDE DEF best
<1> QED
  BY <1>7, <1>8, MinIs

\* Of a group: the greatest of its scores, which is positive if one is.
LEMMA StandsIs ==
  ASSUME NEW run, ResultsWell(run), NEW files, FilesWell(files), NEW formula \in Formulas, NEW k,
         Lines(SpectraCounts(run, files), k) # {}
  PROVE  LET counts == SpectraCounts(run, files)
             c == Stands(run, files, formula, k)
         IN  /\ Rankable(c)
             /\ c.path = k[1] /\ c.symbol = k[2] /\ c.related \subseteq FailedTests(run)
             /\ \E p \in Lines(counts, k) : c.score = Score(formula, counts, p)
             /\ \A p \in Lines(counts, k) : NoMore(Score(formula, counts, p), c.score)
             /\ Positive(c.score) <=> \E p \in Lines(counts, k) : counts[p].ef > 0
PROOF
<1> DEFINE counts == SpectraCounts(run, files)
           c == Stands(run, files, formula, k)
           G == Lines(counts, k)
           S == {Score(formula, counts, p) : p \in G}
           F == Cardinality(FailedTests(run))
           P == Cardinality(Passing(run, files))
<1>1. DOMAIN counts = Places(files) /\ IsFiniteSet(DOMAIN counts) /\ \A p \in DOMAIN counts : Tally(counts[p], F, P)
  BY CountsAre, PlacesAreFinite
<1>2. \A p \in DOMAIN counts : p[2] \in Nat /\ Alphabetical(p[1]) \in Nat
  <2>1. ASSUME NEW p \in Places(files) PROVE p[2] \in Nat /\ Alphabetical(p[1]) \in Nat
    <3>1. PICK i \in DOMAIN files : p[1] = files[i].path /\ p[2] \in DOMAIN files[i].tests
      BY PlacesAreFinite
    <3>2. files[i] \in Range(files)
      BY DEF Range
    <3> QED
      BY <3>1, <3>2 DEF FilesWell
  <2> HIDE DEF counts
  <2> QED
    BY <1>1, <2>1
<1>3. c = [path |-> k[1], symbol |-> k[2], score |-> MaxScore(S), primary |-> PrimaryLine(counts, G),
           related |-> (UNION {TestsOn(files, p) : p \in G}) \cap FailedTests(run)]
  BY DEF Stands
<1>4. /\ c.path = k[1] /\ c.symbol = k[2] /\ c.score = MaxScore(S) /\ c.primary = PrimaryLine(counts, G)
      /\ c.related \subseteq FailedTests(run)
  BY <1>3
<1>5. G \in SUBSET DOMAIN counts /\ G # {} /\ \A p \in G : Key(p) = k
  BY DEF Lines
<1> HIDE DEF counts, F, P, c, G
 <1>6. \A p \in DOMAIN counts :
          IsScore(Score(formula, counts, p)) /\ (Positive(Score(formula, counts, p)) <=> counts[p].ef > 0)
  BY <1>1, ScoreIs
<1>7. IsFiniteSet(S)
  <2> DEFINE f == [p \in G |-> Score(formula, counts, p)]
  <2>1. S = {f[p] : p \in G}
    OBVIOUS
  <2>2. IsFiniteSet(G)
    BY <1>1, <1>5, FS_Subset
  <2> HIDE DEF f
  <2>3. IsFiniteSet({f[p] : p \in G})
    BY <2>2, ImageIsFinite
  <2> QED
    BY <2>1, <2>3
<1>8. S # {} /\ \A a \in S : IsScore(a)
  BY <1>5, <1>6
<1>9. MaxScore(S) \in S /\ \A a \in S : NoMore(a, MaxScore(S))
  <2> HIDE DEF S
  <2> QED
    BY <1>7, <1>8, MaxScoreIs
<1>10. \E p \in G : c.score = Score(formula, counts, p)
  BY <1>4, <1>9
<1>11. \A p \in G : NoMore(Score(formula, counts, p), c.score)
  BY <1>4, <1>9
<1>12. IsScore(c.score)
  BY <1>4, <1>8, <1>9
<1>13. Positive(c.score) <=> \E p \in G : counts[p].ef > 0
  <2>1. Positive(c.score) => \E p \in G : counts[p].ef > 0
    BY <1>5, <1>6, <1>10
  <2>2. ASSUME NEW p \in G, counts[p].ef > 0 PROVE Positive(c.score)
     <3>1. /\ IsScore(Score(formula, counts, p)) /\ Positive(Score(formula, counts, p))
           /\ NoMore(Score(formula, counts, p), c.score)
      BY <1>5, <1>6, <1>11, <2>2
    <3> QED
      BY <1>12, <3>1, PositiveRises
  <2> QED
    BY <2>1, <2>2
<1>14. Rankable(c)
  <2>1. PrimaryLine(counts, G) \in Nat
    BY <1>1, <1>2, <1>5, PrimaryIs
  <2>2. PICK p \in G : Key(p) = k
    BY <1>5
  <2>3. k[1] = p[1] /\ Alphabetical(p[1]) \in Nat
    BY <1>2, <1>5, <2>2 DEF Key
  <2> QED
    BY <1>4, <1>12, <2>1, <2>3 DEF Rankable
<1> QED
  BY <1>4, <1>10, <1>11, <1>13, <1>14 DEF counts, c, G

SameKey(c, p) == c.path = p[1] /\ c.symbol = SymbolAt(p[1], p[2])

\* The groups, for any formula.
LEMMA GroupedIs ==
  ASSUME NEW run, ResultsWell(run), NEW files, FilesWell(files), NEW formula \in Formulas,
         NEW C, C = Grouped(run, files, formula), NEW counts, counts = SpectraCounts(run, files)
  PROVE  /\ IsFiniteSet(C) /\ Cardinality(C) =< Cardinality(Places(files)) /\ Cardinality(Places(files)) \in Nat
         /\ \A c \in C : Rankable(c) /\ c.related \subseteq FailedTests(run)
         /\ \A c \in C : \E p \in Places(files) : SameKey(c, p)
         /\ \A p \in Places(files) : \E c \in C : SameKey(c, p)
         /\ \A c \in C : Positive(c.score) <=> \E p \in Places(files) : SameKey(c, p) /\ counts[p].ef > 0
         /\ \A c \in C, p \in Places(files) :
              Guilty(counts[p]) /\ SameKey(c, p) => \A d \in C : NoMore(d.score, c.score)
PROOF
<1> DEFINE F == Cardinality(FailedTests(run))
           P == Cardinality(Passing(run, files))
           keys == {Key(p) : p \in Places(files)}
           made(k) == Stands(run, files, formula, k)
<1>1. DOMAIN counts = Places(files) /\ IsFiniteSet(Places(files)) /\ \A p \in Places(files) : Tally(counts[p], F, P)
  BY CountsAre, PlacesAreFinite
<1>2. C = {made(k) : k \in keys}
  BY <1>1, GroupedStands
<1>3. IsFiniteSet(keys) /\ Cardinality(keys) =< Cardinality(Places(files))
  <2> DEFINE f == [p \in Places(files) |-> Key(p)]
  <2>1. keys = {f[p] : p \in Places(files)}
    OBVIOUS
  <2> HIDE DEF f, keys
  <2> QED
    BY <1>1, <2>1, ImageIsFinite
<1>4. IsFiniteSet(C) /\ Cardinality(C) =< Cardinality(keys)
  <2> DEFINE f == [k \in keys |-> made(k)]
  <2>1. C = {f[k] : k \in keys}
    BY <1>2
  <2> HIDE DEF f, keys
  <2> QED
    BY <1>3, <2>1, ImageIsFinite
<1>5. Cardinality(C) =< Cardinality(Places(files)) /\ Cardinality(Places(files)) \in Nat
  <2>1. Cardinality(C) \in Nat /\ Cardinality(keys) \in Nat /\ Cardinality(Places(files)) \in Nat
    <3> HIDE DEF keys
    <3> QED
      BY <1>1, <1>3, <1>4, FS_CardinalityType
  <2> HIDE DEF keys
  <2> QED
    BY <1>3, <1>4, <2>1
<1>6. \A k \in keys : Lines(counts, k) # {} /\ Lines(counts, k) \subseteq Places(files)
  BY <1>1 DEF Lines
<1>7. ASSUME NEW k \in keys
      PROVE  /\ Rankable(made(k)) /\ made(k).path = k[1] /\ made(k).symbol = k[2]
             /\ made(k).related \subseteq FailedTests(run)
             /\ \E p \in Lines(counts, k) : made(k).score = Score(formula, counts, p)
             /\ \A p \in Lines(counts, k) : NoMore(Score(formula, counts, p), made(k).score)
             /\ Positive(made(k).score) <=> \E p \in Lines(counts, k) : counts[p].ef > 0
  <2>1. Lines(SpectraCounts(run, files), k) # {}
    BY <1>6
  <2> QED
    BY <2>1, StandsIs
<1>8. \A k \in keys : \A p \in Places(files) : SameKey(made(k), p) <=> p \in Lines(counts, k)
  <2> TAKE k \in keys
  <2> TAKE p \in Places(files)
  <2>1. PICK q \in Places(files) : k = Key(q)
    OBVIOUS
  <2>2. k = <<k[1], k[2]>>
    BY <2>1 DEF Key
  <2>3. SameKey(made(k), p) <=> k[1] = p[1] /\ k[2] = SymbolAt(p[1], p[2])
    BY <1>7 DEF SameKey
  <2>4. Key(p) = <<p[1], SymbolAt(p[1], p[2])>>
    BY DEF Key
  <2>5. p \in Lines(counts, k) <=> Key(p) = k
    BY <1>1 DEF Lines
  <2> QED
    BY <2>2, <2>3, <2>4, <2>5
<1>9. \A p \in Places(files) : Key(p) \in keys
  OBVIOUS
<1> HIDE DEF keys, made
<1>10. \A c \in C : Rankable(c) /\ c.related \subseteq FailedTests(run)
  BY <1>2, <1>7
<1>11. \A c \in C : \E p \in Places(files) : SameKey(c, p)
  BY <1>2, <1>6, <1>8
<1>12. \A p \in Places(files) : \E c \in C : SameKey(c, p)
  <2> TAKE p \in Places(files)
  <2>1. p \in Lines(counts, Key(p))
    BY <1>1 DEF Lines
  <2>2. SameKey(made(Key(p)), p)
    BY <1>8, <1>9, <2>1
  <2> QED
    BY <1>2, <1>9, <2>2
<1>13. \A c \in C : Positive(c.score) <=> \E p \in Places(files) : SameKey(c, p) /\ counts[p].ef > 0
  BY <1>2, <1>6, <1>7, <1>8
<1>14. ASSUME NEW c \in C, NEW p \in Places(files), Guilty(counts[p]), SameKey(c, p), NEW d \in C
       PROVE  NoMore(d.score, c.score)
  <2>1. PICK k \in keys, l \in keys : c = made(k) /\ d = made(l)
    BY <1>2
  <2>2. p \in Lines(counts, k)
    BY <1>8, <1>14, <2>1
  <2>3. PICK q \in Lines(counts, l) : d.score = Score(formula, counts, q)
    BY <1>7, <2>1
  <2>4. p \in DOMAIN counts /\ q \in DOMAIN counts
    BY <1>1, <1>6, <2>3
  <2>5. /\ IsScore(Score(formula, counts, p)) /\ IsScore(Score(formula, counts, q))
        /\ NoMore(Score(formula, counts, q), Score(formula, counts, p))
    <3>1. IsFiniteSet(DOMAIN counts) /\ \A k_ \in DOMAIN counts : Tally(counts[k_], F, P)
      BY <1>1
    <3> HIDE DEF F, P
    <3> QED
      BY <1>14, <2>4, <3>1, ScoreIs
  <2>6. NoMore(Score(formula, counts, p), c.score) /\ IsScore(c.score)
    BY <1>7, <2>1, <2>2 DEF Rankable
  <2> QED
    BY <2>3, <2>5, <2>6, ScoresAreOrdered
<1> QED
  BY <1>4, <1>5, <1>10, <1>11, <1>12, <1>13, <1>14

(***************************************************************************)
(* Test code is left out                                                   *)
(***************************************************************************)

Twin(c, d) == c.path = d.path /\ c.symbol = d.symbol

\* Candidates for the same places, suspicious alike.
Agree(C, D) ==
  /\ \A c \in C : \E d \in D : Twin(c, d)
  /\ \A d \in D : \E c \in C : Twin(c, d)
  /\ \A c \in C, d \in D : Twin(c, d) => (Positive(c.score) <=> Positive(d.score))

\* What is test code is a matter of places.
LEMMA ExcludedAlike ==
  ASSUME NEW C, NEW D, Agree(C, D), NEW tests, NEW c \in C, NEW d \in D, Twin(c, d)
  PROVE  c \in Excluded(C, tests) <=> d \in Excluded(D, tests)
PROOF
<1> DEFINE files(S) == {NormalizePath(x.path) : x \in S}
           out(x, nodes) == /\ NormalizePath(x.path) \in DOMAIN nodes
                            /\ IsTestNode(x.symbol.name, nodes[NormalizePath(x.path)])
<1>1. files(C) = files(D)
  <2>1. \A x \in C : NormalizePath(x.path) \in files(D)
    BY DEF Agree, Twin
  <2>2. \A x \in D : NormalizePath(x.path) \in files(C)
    BY DEF Agree, Twin
  <2> QED
    BY <2>1, <2>2
<1>2. c \in Excluded(C, tests) <=> out(c, Reconciled(tests, files(C)))
  BY DEF Excluded
<1>3. d \in Excluded(D, tests) <=> out(d, Reconciled(tests, files(D)))
  BY DEF Excluded
<1>4. \A nodes : out(c, nodes) <=> out(d, nodes)
  BY DEF Twin
<1> HIDE DEF files, out
<1> QED
  BY <1>1, <1>2, <1>3, <1>4

LEMMA ExcludeTestsIs ==
  ASSUME NEW C, NEW tests
  PROVE  /\ ExcludeTests(C, tests) \subseteq C
         /\ Suspected(C) # {} => Suspected(ExcludeTests(C, tests)) # {}
         /\ C \ Excluded(C, tests) \subseteq ExcludeTests(C, tests)
         /\ Suspected(ExcludeTests(C, tests)) \cap Excluded(C, tests) # {} => Suspected(C) \subseteq Excluded(C, tests)
BY DEF ExcludeTests, Suspected

\* Formulas that agree on what is suspicious agree on what is left.
LEMMA KeptAlike ==
  ASSUME NEW C, NEW D, Agree(C, D), NEW tests, NEW c \in Suspected(ExcludeTests(C, tests))
  PROVE  \E d \in Suspected(ExcludeTests(D, tests)) : Twin(c, d)
PROOF
<1>1. c \in C /\ Positive(c.score) /\ c \in ExcludeTests(C, tests)
  BY ExcludeTestsIs DEF Suspected
<1>2. PICK d \in D : Twin(c, d)
  BY <1>1 DEF Agree
<1>3. Positive(d.score)
  BY <1>1, <1>2 DEF Agree
<1>4. CASE d \notin Excluded(D, tests)
  <2>1. d \in ExcludeTests(D, tests)
    BY <1>4, ExcludeTestsIs
  <2> QED
    BY <1>2, <1>3, <2>1 DEF Suspected
<1>5. CASE d \in Excluded(D, tests)
  <2>1. c \in Excluded(C, tests)
    BY <1>1, <1>2, <1>5, ExcludedAlike
  <2>2. Suspected(C) \subseteq Excluded(C, tests)
    BY <2>1, ExcludeTestsIs
  <2>3. Suspected(D) \subseteq Excluded(D, tests)
    <3> SUFFICES ASSUME NEW x \in D, Positive(x.score) PROVE x \in Excluded(D, tests)
      BY DEF Suspected
    <3>1. PICK y \in C : Twin(y, x)
      BY DEF Agree
    <3>2. y \in Excluded(C, tests)
      BY <2>2, <3>1 DEF Agree, Suspected
    <3> QED
      BY <3>1, <3>2, ExcludedAlike
  <2>4. d \in Suspected(D) /\ ExcludeTests(D, tests) = D
    BY <1>3, <2>3 DEF ExcludeTests, Suspected
  <2> QED
    BY <1>2, <2>4
<1> QED
  BY <1>4, <1>5

LEMMA AgreeIsSymmetric ==
  ASSUME NEW C, NEW D, Agree(C, D)
  PROVE  Agree(D, C)
PROOF
<1>1. \A c, d : Twin(c, d) <=> Twin(d, c)
  BY DEF Twin
<1> QED
  BY <1>1, Zenon DEF Agree

LEMMA GroupedAgree ==
  ASSUME NEW run, ResultsWell(run), NEW files, FilesWell(files), NEW f \in Formulas, NEW g \in Formulas
  PROVE  Agree(Grouped(run, files, f), Grouped(run, files, g))
PROOF
<1> DEFINE C == Grouped(run, files, f)
           D == Grouped(run, files, g)
           counts == SpectraCounts(run, files)
<1>1. /\ \A c \in C : \E p \in Places(files) : SameKey(c, p)
      /\ \A p \in Places(files) : \E c \in C : SameKey(c, p)
      /\ \A c \in C : Positive(c.score) <=> \E p \in Places(files) : SameKey(c, p) /\ counts[p].ef > 0
  BY GroupedIs
<1>2. /\ \A c \in D : \E p \in Places(files) : SameKey(c, p)
      /\ \A p \in Places(files) : \E c \in D : SameKey(c, p)
      /\ \A c \in D : Positive(c.score) <=> \E p \in Places(files) : SameKey(c, p) /\ counts[p].ef > 0
  BY GroupedIs
<1> HIDE DEF C, D, counts
<1>3. \A c, d, p : SameKey(c, p) => (SameKey(d, p) <=> Twin(c, d))
  BY DEF SameKey, Twin
<1>4. \A c \in C : \E d \in D : Twin(c, d)
  BY <1>1, <1>2, <1>3
<1>5. \A d \in D : \E c \in C : Twin(c, d)
  BY <1>1, <1>2, <1>3
<1>6. \A c \in C, d \in D : Twin(c, d) => (Positive(c.score) <=> Positive(d.score))
  <2> SUFFICES ASSUME NEW c \in C, NEW d \in D, Twin(c, d) PROVE Positive(c.score) <=> Positive(d.score)
    OBVIOUS
  <2>1. \A p \in Places(files) : SameKey(c, p) <=> SameKey(d, p)
    BY DEF SameKey, Twin
  <2> QED
    BY <1>1, <1>2, <2>1
<1> QED
  BY <1>4, <1>5, <1>6 DEF Agree, C, D

\* The entries of per-test coverage.
LEMMA PerTestIs ==
  ASSUME NEW run, ResultsWell(run), NEW files, FilesWell(files), NEW formula \in Formulas, NEW top \in Nat,
         NEW C, C = Grouped(run, files, formula), NEW K, K = ExcludeTests(C, TestNodes(run)),
         NEW E, E = PerTest(run, files, formula, top).entries
  PROVE  /\ E \in Seq(Range(E))
         /\ \A e \in Range(E) : \E c \in Suspected(K) : From(e, c)
         /\ Cardinality(Suspected(K)) =< top =>
              \A c \in Suspected(K) : \E e \in Range(E) :
                From(e, c) /\ ((\A d \in K : NoMore(d.score, c.score)) => e.rank = 1)
         /\ top > 0 /\ Suspected(C) # {} => Range(E) # {}
         /\ IsFiniteSet(Suspected(K)) /\ Cardinality(Suspected(K)) \in 0..Cardinality(Places(files))
PROOF
<1>1. IsFiniteSet(C) /\ Cardinality(C) =< Cardinality(Places(files)) /\ \A c \in C : Rankable(c)
  BY GroupedIs
<1>2. K \in SUBSET C /\ Suspected(K) \in SUBSET C /\ Suspected(K) \in SUBSET K
  BY ExcludeTestsIs DEF Suspected
<1>3. IsFiniteSet(K) /\ IsFiniteSet(Suspected(K)) /\ \A c \in K : Rankable(c)
  BY <1>1, <1>2, FS_Subset
<1> DEFINE q == Cardinality(Suspected(K))
           t == IF q < top THEN q ELSE top
<1>4. q \in 0..Cardinality(Places(files))
  <2>1. q \in Nat /\ Cardinality(C) \in Nat /\ Cardinality(Places(files)) \in Nat
    BY <1>1, <1>3, FS_CardinalityType, PlacesAreFinite
  <2>2. q =< Cardinality(C)
    BY <1>1, <1>2, FS_Subset
  <2> HIDE DEF q
  <2> QED
    BY <1>1, <2>1, <2>2
<1>5. E = Ranked(K, t)
  BY DEF PerTest, Finding
<1>6. q \in Nat /\ t \in Nat /\ t =< q /\ (q =< top => t = q) /\ (top > 0 /\ q > 0 => t > 0)
  <2>1. q \in Nat
    BY <1>3, FS_CardinalityType
  <2> HIDE DEF q
  <2> QED
    BY <2>1
<1> HIDE DEF t
<1>7. /\ E \in Seq(Range(E))
      /\ t =< q => \A e \in Range(E) : \E c \in Suspected(K) : From(e, c)
      /\ q =< t => \A c \in Suspected(K) : \E e \in Range(E) :
                     From(e, c) /\ ((\A d \in K : NoMore(d.score, c.score)) => e.rank = 1)
      /\ t > 0 /\ K # {} => Range(E) # {}
  <2>1. IsFiniteSet(K) /\ (\A c \in K : Rankable(c)) /\ t \in Nat
    BY <1>3, <1>6
  <2>2. Shows(E, K, t)
    BY <1>5, <2>1, RankedIs
  <2> QED
    BY <2>2 DEF Shows
<1>8. Suspected(C) # {} => K # {} /\ q > 0
  <2>1. Suspected(C) # {} => Suspected(K) # {}
    BY ExcludeTestsIs
  <2> QED
    BY <1>2, <1>3, <1>6, <2>1, FS_EmptySet
<1>9. q =< top => q =< t
  BY <1>6
<1> HIDE DEF q
<1>10. /\ E \in Seq(Range(E))
       /\ \A e \in Range(E) : \E c \in Suspected(K) : From(e, c)
       /\ q =< top =>
            \A c \in Suspected(K) : \E e \in Range(E) :
              From(e, c) /\ ((\A d \in K : NoMore(d.score, c.score)) => e.rank = 1)
       /\ top > 0 /\ Suspected(C) # {} => Range(E) # {}
  BY <1>6, <1>7, <1>8, <1>9
<1> QED
  BY <1>3, <1>4, <1>10 DEF q

(***************************************************************************)
(* Suspects by the frames of the failures                                  *)
(***************************************************************************)

\* The failures of a run and the frames their text holds.
FailuresWell(run) ==
  /\ ResultsWell(run)
  /\ \A x \in Range(run.results) :
       IsFiniteSet(x.frames) /\ \A f \in x.frames : f.line \in Nat /\ Alphabetical(f.path) \in Nat

LEMMA FramesAre ==
  ASSUME NEW engine, NEW x
  PROVE  Frames(engine, x) \in SUBSET x.frames
BY DEF Frames, Text

LEMMA EvidenceIs ==
  ASSUME NEW run, FailuresWell(run)
  PROVE  /\ IsFiniteSet(Evidence(run))
         /\ \A e \in Evidence(run) :
              e[2] \in Nat /\ Alphabetical(e[1].path) \in Nat /\ e[3] \in FailedTests(run)
PROOF
<1> DEFINE D == {j \in DOMAIN run.results : run.results[j].outcome \in FailLike}
           of(i) == {<<[base |-> f.base, path |-> f.path], f.line, run.results[i].node>> :
                       f \in Frames(run.engine, run.results[i])}
<1>1. IsFiniteSet(D) /\ \A i \in D : run.results[i] \in Range(run.results)
  <2>1. IsFiniteSet(DOMAIN run.results)
    BY ListIsFinite DEF FailuresWell, ResultsWell
  <2> QED
    BY <2>1, FS_Subset DEF Range
<1>2. \A i \in D : Frames(run.engine, run.results[i]) \in SUBSET run.results[i].frames
  BY FramesAre DEF FailuresWell
<1>3. Evidence(run) = UNION {of(i) : i \in D}
  BY DEF Evidence
<1>4. IsFiniteSet(Evidence(run))
  <2>1. ASSUME NEW i \in D PROVE IsFiniteSet(of(i))
    <3> DEFINE T == Frames(run.engine, run.results[i])
               h == [f \in T |-> <<[base |-> f.base, path |-> f.path], f.line, run.results[i].node>>]
    <3>1. of(i) = {h[f] : f \in T}
      OBVIOUS
    <3>2. IsFiniteSet(T)
      BY <1>1, <1>2, FS_Subset DEF FailuresWell
    <3> HIDE DEF h, T
    <3>3. IsFiniteSet({h[f] : f \in T})
      BY <3>2, ImageIsFinite
    <3> QED
      BY <3>1, <3>3
  <2> DEFINE g == [i \in D |-> of(i)]
  <2>2. {of(i) : i \in D} = {g[i] : i \in D}
    OBVIOUS
  <2>3. IsFiniteSet({g[i] : i \in D})
    <3> HIDE DEF g, D
    <3> QED
      BY <1>1, ImageIsFinite
  <2>4. IsFiniteSet({of(i) : i \in D})
    BY <2>2, <2>3
  <2>5. \A T \in {of(i) : i \in D} : IsFiniteSet(T)
    BY <2>1
  <2> QED
    BY <1>3, <2>4, <2>5, FS_UNION
<1>5. ASSUME NEW e \in Evidence(run)
      PROVE  e[2] \in Nat /\ Alphabetical(e[1].path) \in Nat /\ e[3] \in FailedTests(run)
  <2>1. PICK i \in D : e \in of(i)
    BY <1>3
  <2>2. PICK f \in Frames(run.engine, run.results[i]) :
          e = <<[base |-> f.base, path |-> f.path], f.line, run.results[i].node>>
    BY <2>1
  <2>3. f.line \in Nat /\ Alphabetical(f.path) \in Nat
    BY <1>1, <1>2, <2>2 DEF FailuresWell
  <2>4. run.results[i].node \in FailedTests(run)
    BY <2>1 DEF FailedTests
  <2> QED
    BY <2>2, <2>3, <2>4
<1> QED
  BY <1>4, <1>5

\* Evidence, as it is or with its files placed in the workspace.
EvidenceWell(run, evidence) ==
  IsFiniteSet(evidence) /\ \A e \in evidence :
                      e[2] \in Nat /\ Alphabetical(e[1].path) \in Nat /\ e[3] \in FailedTests(run)

LEMMA NamingIs ==
  ASSUME NEW run, ResultsWell(run), NEW evidence, EvidenceWell(run, evidence), NEW file
  PROVE  /\ TestsNaming(evidence, file) \subseteq FailedTests(run) /\ IsFiniteSet(TestsNaming(evidence, file))
         /\ Cardinality(TestsNaming(evidence, file)) \in 0..Cardinality(FailedTests(run))
         /\ Cardinality(FailedTests(run)) \in Nat
         /\ FirstLine(LinesNamed(evidence, file)) \in Nat
PROOF
<1>1. TestsNaming(evidence, file) \in SUBSET FailedTests(run)
  BY DEF TestsNaming, EvidenceWell
<1>2. IsFiniteSet(FailedTests(run))
  BY TestsAreFinite
<1>3. /\ IsFiniteSet(TestsNaming(evidence, file))
      /\ Cardinality(TestsNaming(evidence, file)) =< Cardinality(FailedTests(run))
  BY <1>1, <1>2, FS_Subset
<1>4. Cardinality(TestsNaming(evidence, file)) \in Nat /\ Cardinality(FailedTests(run)) \in Nat
  BY <1>2, <1>3, FS_CardinalityType
<1>5. LinesNamed(evidence, file) \in SUBSET Nat
  BY DEF LinesNamed, EvidenceWell
<1>6. FirstLine(LinesNamed(evidence, file)) \in Nat
  BY <1>5, MinIs DEF FirstLine
<1> QED
  BY <1>1, <1>3, <1>4, <1>6

LEMMA BoostIs ==
  ASSUME NEW formula, NEW score, IsScore(score), NEW path, NEW changed
  PROVE  /\ IsScore(Boost(formula, score, path, changed))
         /\ Positive(Boost(formula, score, path, changed)) <=> Positive(score)
PROOF
<1>1. PICK a \in Int, b \in Nat \ {0} : a = score[1] /\ b = score[2]
  BY DEF IsScore
<1>2. \/ Boost(formula, score, path, changed) = score
      \/ Boost(formula, score, path, changed) = <<a * 9, b * 4>>
      \/ Boost(formula, score, path, changed) = <<a * 3, b * 2>>
  BY <1>1 DEF Boost
<1>3. /\ a * 9 \in Int /\ a * 3 \in Int /\ b * 4 \in Nat \ {0} /\ b * 2 \in Nat \ {0}
      /\ (a * 9 > 0 <=> a > 0) /\ (a * 3 > 0 <=> a > 0)
  OBVIOUS
<1> QED
  BY <1>1, <1>2, <1>3 DEF IsScore, Positive

AggregateCounts(run, files) ==
  [p \in Paths(files) |-> Counts(Cardinality(TestsNaming(Evidence(run), Relative(p))), Cardinality(PassedTests(run)),
                                 Cardinality(FailedTests(run)), Cardinality(PassedTests(run)))]

AggregateAt(run, files, changed, formula, p) ==
  [path |-> p, symbol |-> NoSymbol,
   score |-> Boost(formula, Score(formula, AggregateCounts(run, files), p), p, changed),
   primary |-> FirstLine(LinesNamed(Evidence(run), Relative(p))),
   related |-> TestsNaming(Evidence(run), Relative(p))]

\* A covered file is suspicious exactly when a failure names it.
LEMMA AggregateIs ==
  ASSUME NEW run, FailuresWell(run), NEW files, FilesWell(files), NEW changed, NEW formula \in Formulas,
         NEW C, C = AggregateCandidates(run, files, changed, formula)
  PROVE  /\ IsFiniteSet(C) /\ Cardinality(C) \in 0..Len(files)
          /\ \A c \in C : /\ Rankable(c) /\ c.related \subseteq FailedTests(run)
                        /\ c.symbol = NoSymbol /\ c.path \in Paths(files)
         /\ \A p \in Paths(files) : \E c \in C : c.path = p
         /\ \A c \in C : Positive(c.score) <=> TestsNaming(Evidence(run), Relative(c.path)) # {}
PROOF
<1> DEFINE counts == AggregateCounts(run, files)
           made(p) == AggregateAt(run, files, changed, formula, p)
           F == Cardinality(FailedTests(run))
           P == Cardinality(PassedTests(run))
<1>1. C = {made(p) : p \in Paths(files)}
  BY DEF AggregateCandidates, AggregateAt, AggregateCounts
<1>2. EvidenceWell(run, Evidence(run)) /\ ResultsWell(run)
  BY EvidenceIs DEF EvidenceWell, FailuresWell
<1>3. IsFiniteSet(Paths(files)) /\ Cardinality(Paths(files)) =< Len(files) /\ Len(files) \in Nat
  <2> DEFINE f == [i \in DOMAIN files |-> files[i].path]
  <2>1. Paths(files) = {f[i] : i \in DOMAIN files}
    BY DEF Paths
  <2>2. IsFiniteSet(DOMAIN files) /\ Cardinality(DOMAIN files) = Len(files) /\ Len(files) \in Nat
    BY ListIsFinite DEF FilesWell
  <2> HIDE DEF f
  <2> QED
    BY <2>1, <2>2, ImageIsFinite
<1>4. IsFiniteSet(C) /\ Cardinality(C) =< Cardinality(Paths(files))
  <2> DEFINE f == [p \in Paths(files) |-> made(p)]
  <2>1. C = {f[p] : p \in Paths(files)}
    BY <1>1
  <2> HIDE DEF f
  <2> QED
    BY <1>3, <2>1, ImageIsFinite
<1>5. Cardinality(C) \in 0..Len(files)
  <2>1. Cardinality(C) \in Nat /\ Cardinality(Paths(files)) \in Nat
    BY <1>3, <1>4, FS_CardinalityType
  <2> QED
    BY <1>3, <1>4, <2>1
<1>6. DOMAIN counts = Paths(files) /\ \A p \in Paths(files) : Tally(counts[p], F, P)
  <2>1. ASSUME NEW p \in Paths(files) PROVE Tally(counts[p], F, P)
    <3>1. P \in Nat
      BY <1>2, TestsAreFinite, FS_CardinalityType
    <3>2. PICK e, f, q : e = Cardinality(TestsNaming(Evidence(run), Relative(p))) /\ f = F /\ q = P
      OBVIOUS
    <3>3. f \in Nat /\ e \in 0..f /\ q \in Nat
      BY <1>2, <3>1, <3>2, NamingIs
    <3>4. counts[p] = Counts(e, q, f, q)
      BY <3>2 DEF AggregateCounts
    <3>5. Tally(Counts(e, q, f, q), f, q)
      BY <3>3 DEF Tally, Counts
    <3> QED
      BY <3>2, <3>4, <3>5
  <2> QED
    BY <2>1 DEF AggregateCounts
<1>7. ASSUME NEW p \in Paths(files)
      PROVE  /\ made(p).path = p /\ made(p).symbol = NoSymbol /\ made(p).related \subseteq FailedTests(run)
             /\ Rankable(made(p))
             /\ Positive(made(p).score) <=> TestsNaming(Evidence(run), Relative(p)) # {}
  <2> DEFINE s == Score(formula, counts, p)
             named == TestsNaming(Evidence(run), Relative(p))
  <2>1. /\ made(p).path = p /\ made(p).symbol = NoSymbol /\ made(p).related = named
        /\ made(p).score = Boost(formula, s, p, changed)
        /\ made(p).primary = FirstLine(LinesNamed(Evidence(run), Relative(p)))
    BY DEF AggregateAt
  <2>2. IsScore(s) /\ (Positive(s) <=> counts[p].ef > 0)
    <3> HIDE DEF counts, F, P
    <3> QED
      BY <1>3, <1>6, ScoreIs
  <2>3. counts[p].ef = Cardinality(named)
    BY DEF AggregateCounts, Counts
  <2>4. /\ named \subseteq FailedTests(run) /\ IsFiniteSet(named) /\ Cardinality(named) \in Nat
        /\ FirstLine(LinesNamed(Evidence(run), Relative(p))) \in Nat
    BY <1>2, NamingIs, FS_CardinalityType
  <2> HIDE DEF made, s, counts, named
  <2>5. Cardinality(named) > 0 <=> named # {}
    BY <2>4, FS_EmptySet
  <2>6. IsScore(made(p).score) /\ (Positive(made(p).score) <=> named # {})
    BY <2>1, <2>2, <2>3, <2>5, BoostIs
  <2>7. Alphabetical(p) \in Nat
    BY DEF Paths, FilesWell, Range
  <2>8. Rankable(made(p))
    BY <2>1, <2>4, <2>6, <2>7 DEF Rankable
  <2> QED
    BY <2>1, <2>4, <2>6, <2>8 DEF named
<1> HIDE DEF made
<1>8. \A c \in C : Rankable(c) /\ c.related \subseteq FailedTests(run) /\ c.symbol = NoSymbol /\ c.path \in Paths(files)
  BY <1>1, <1>7
<1>9. \A p \in Paths(files) : \E c \in C : c.path = p
  BY <1>1, <1>7
<1>10. \A c \in C : Positive(c.score) <=> TestsNaming(Evidence(run), Relative(c.path)) # {}
  BY <1>1, <1>7
<1> QED
  BY <1>4, <1>5, <1>8, <1>9, <1>10

\* Candidates are the covered files, suspicious when the failures name them.
Covers(C, run, files) ==
  /\ \A c \in C : c.symbol = NoSymbol /\ c.path \in Paths(files)
  /\ \A p \in Paths(files) : \E c \in C : c.path = p
  /\ \A c \in C : Positive(c.score) <=> TestsNaming(Evidence(run), Relative(c.path)) # {}

LEMMA AggregateAgree ==
  ASSUME NEW run, FailuresWell(run), NEW files, FilesWell(files), NEW changed, NEW f \in Formulas, NEW g \in Formulas
  PROVE  Agree(AggregateCandidates(run, files, changed, f), AggregateCandidates(run, files, changed, g))
PROOF
<1>1. ASSUME NEW h \in Formulas PROVE Covers(AggregateCandidates(run, files, changed, h), run, files)
  <2>1. PICK C : C = AggregateCandidates(run, files, changed, h)
    OBVIOUS
  <2>2. Covers(C, run, files)
    BY <2>1, AggregateIs DEF Covers
  <2> QED
    BY <2>1, <2>2
<1>2. PICK C, D : /\ C = AggregateCandidates(run, files, changed, f)
                  /\ D = AggregateCandidates(run, files, changed, g)
  OBVIOUS
<1>3. Covers(C, run, files) /\ Covers(D, run, files)
  BY <1>1, <1>2
<1>4. Agree(C, D)
  BY <1>3 DEF Agree, Twin, Covers
<1> QED
  BY <1>2, <1>4

\* Every file the failures name can be ranked.
LEMMA ProximityIs ==
  ASSUME NEW run, FailuresWell(run), NEW changed, NEW C, C = ProximityCandidates(run, changed)
  PROVE  IsFiniteSet(C) /\ \A c \in C : Rankable(c) /\ c.related \subseteq FailedTests(run)
PROOF
<1> DEFINE place(e) == <<Placed(e[1]), e[2], e[3]>>
           evidence == {place(e) : e \in Evidence(run)}
           tests(f) == TestsNaming(evidence, f)
           made(f) == [path |-> f.path, symbol |-> NoSymbol,
                       score |-> Boost("count", <<Cardinality(tests(f)), 1>>, f.path,
                                       IF f.base = "workspace" THEN changed ELSE {}),
                       primary |-> FirstLine(LinesNamed(evidence, f)), related |-> tests(f)]
           files == {e[1] : e \in evidence}
<1>1. C = {made(f) : f \in files}
  BY DEF ProximityCandidates
<1>2. EvidenceWell(run, evidence) /\ ResultsWell(run)
  <2> DEFINE h == [e \in Evidence(run) |-> place(e)]
  <2>1. evidence = {h[e] : e \in Evidence(run)}
    OBVIOUS
  <2>2. IsFiniteSet(evidence)
    <3> HIDE DEF h
    <3> QED
      BY <2>1, EvidenceIs, ImageIsFinite
  <2>3. ASSUME NEW e \in evidence
        PROVE  e[2] \in Nat /\ Alphabetical(e[1].path) \in Nat /\ e[3] \in FailedTests(run)
    <3>1. PICK x \in Evidence(run) : e = <<Placed(x[1]), x[2], x[3]>>
      OBVIOUS
    <3>2. Placed(x[1]).path = x[1].path
      BY DEF Placed, Relative
    <3> QED
      BY <3>1, <3>2, EvidenceIs
  <2> QED
    BY <2>2, <2>3 DEF EvidenceWell, FailuresWell
<1> HIDE DEF evidence
<1>3. IsFiniteSet(files)
  <2> DEFINE h == [e \in evidence |-> e[1]]
  <2>1. files = {h[e] : e \in evidence}
    OBVIOUS
  <2>2. IsFiniteSet(evidence)
    BY <1>2 DEF EvidenceWell
  <2> HIDE DEF h, files
  <2>3. IsFiniteSet({h[e] : e \in evidence})
    BY <2>2, ImageIsFinite
  <2> QED
    BY <2>1, <2>3
<1>4. IsFiniteSet(C)
  <2> DEFINE h == [f \in files |-> made(f)]
  <2>1. C = {h[f] : f \in files}
    BY <1>1
  <2> HIDE DEF h, files
  <2> QED
    BY <1>3, <2>1, ImageIsFinite
<1>5. ASSUME NEW f \in files PROVE Rankable(made(f)) /\ made(f).related \subseteq FailedTests(run)
  <2> DEFINE s == <<Cardinality(tests(f)), 1>>
             c == IF f.base = "workspace" THEN changed ELSE {}
  <2>1. /\ tests(f) \subseteq FailedTests(run) /\ Cardinality(tests(f)) \in Nat
        /\ FirstLine(LinesNamed(evidence, f)) \in Nat
    BY <1>2, NamingIs, FS_CardinalityType
  <2>2. IsScore(s)
    BY <2>1 DEF IsScore
  <2>3. Alphabetical(f.path) \in Nat
    BY <1>2 DEF EvidenceWell
  <2>4. /\ made(f).path = f.path /\ made(f).score = Boost("count", s, f.path, c)
        /\ made(f).primary = FirstLine(LinesNamed(evidence, f)) /\ made(f).related = tests(f)
    OBVIOUS
  <2> HIDE DEF made, s, c, tests
  <2>5. IsScore(made(f).score)
    BY <2>2, <2>4, BoostIs
  <2> QED
    BY <2>1, <2>3, <2>4, <2>5 DEF Rankable
<1> HIDE DEF made, files
<1> QED
  BY <1>1, <1>4, <1>5

(***************************************************************************)
(* Findings that were made                                                 *)
(***************************************************************************)

\* The entries of a finding are a list, each related to tests that failed.
EntriesWell(run, E) == E \in Seq(Range(E)) /\ \A e \in Range(E) : e.related \subseteq FailedTests(run)

\* The files of coverage facts are a list of what can be ranked.
CoverageWell(c) == c.state = "facts" => FilesWell(c.files)

\* A finding about a run with coverage c: one by tests shows what some
\* formula ranks of c.
Delivered(run, c, f) ==
  Found(f) =>
    /\ EntriesWell(run, f.entries)
    /\ f.state = "sbfl_per_test" =>
         /\ c.state = "facts"
         /\ \E formula \in Formulas : f.entries = PerTest(run, c.files, formula, TopN).entries

LEMMA ShownAreWell ==
  ASSUME NEW run, NEW C, IsFiniteSet(C), \A c \in C : Rankable(c) /\ c.related \subseteq FailedTests(run),
          NEW top \in Nat
  PROVE  EntriesWell(run, Ranked(C, top))
PROOF
<1>1. PICK E : E = Ranked(C, top)
  OBVIOUS
<1>2. Shows(E, C, top)
  BY <1>1, RankedIs
<1>3. \A e \in Range(E) : \E c \in C : e.related = c.related
  BY <1>2 DEF Shows, From
<1>4. EntriesWell(run, E)
  BY <1>2, <1>3 DEF EntriesWell, Shows
<1> QED
  BY <1>1, <1>4

LEMMA PerTestWell ==
  ASSUME NEW run, FailuresWell(run), NEW files, FilesWell(files), NEW formula \in Formulas, NEW top \in Nat
  PROVE  EntriesWell(run, PerTest(run, files, formula, top).entries)
PROOF
<1>1. PICK C, K, E : /\ C = Grouped(run, files, formula) /\ K = ExcludeTests(C, TestNodes(run))
                     /\ E = PerTest(run, files, formula, top).entries
  OBVIOUS
<1>2. ResultsWell(run)
  BY DEF FailuresWell
<1>3. E \in Seq(Range(E)) /\ \A e \in Range(E) : \E c \in Suspected(K) : From(e, c)
  BY <1>1, <1>2, PerTestIs
<1>4. \A c \in Suspected(K) : c.related \subseteq FailedTests(run)
  <2>1. \A c \in C : c.related \subseteq FailedTests(run)
    BY <1>1, <1>2, GroupedIs
  <2> QED
    BY <1>1, <2>1, ExcludeTestsIs DEF Suspected
<1>5. \A e \in Range(E) : e.related \subseteq FailedTests(run)
  BY <1>3, <1>4 DEF From
<1> QED
  BY <1>1, <1>3, <1>5 DEF EntriesWell

LEMMA AggregateWell ==
  ASSUME NEW run, FailuresWell(run), NEW files, FilesWell(files), NEW changed, NEW formula \in Formulas, NEW top \in Nat
  PROVE  EntriesWell(run, Aggregate(run, files, changed, formula, top).entries)
PROOF
<1>1. PICK C, K : /\ C = AggregateCandidates(run, files, changed, formula)
                  /\ K = Suspected(ExcludeTests(C, TestNodes(run)))
  OBVIOUS
<1>2. IsFiniteSet(C) /\ \A c \in C : Rankable(c) /\ c.related \subseteq FailedTests(run)
  BY <1>1, AggregateIs
<1>3. K \in SUBSET C
  BY <1>1, ExcludeTestsIs DEF Suspected
<1>4. IsFiniteSet(K)
  BY <1>2, <1>3, FS_Subset
<1>5. EntriesWell(run, Ranked(K, top))
  BY <1>2, <1>3, <1>4, ShownAreWell
<1> QED
  BY <1>1, <1>5 DEF Aggregate, Finding

LEMMA ProximityWell ==
  ASSUME NEW run, FailuresWell(run), NEW changed, NEW top \in Nat
  PROVE  EntriesWell(run, FailureProximity(run, changed, top).entries)
PROOF
<1>1. PICK C : C = ProximityCandidates(run, changed)
  OBVIOUS
<1>2. IsFiniteSet(C) /\ \A c \in C : Rankable(c) /\ c.related \subseteq FailedTests(run)
  BY <1>1, ProximityIs
<1>3. EntriesWell(run, Ranked(C, top))
  BY <1>2, ShownAreWell
<1> QED
  BY <1>1, <1>3 DEF FailureProximity, Finding

LEMMA LocalizedDelivers ==
  ASSUME NEW run, FailuresWell(run), NEW c, CoverageWell(c), NEW changed, NEW formula \in Formulas
  PROVE  Delivered(run, c, Localized(run, c, changed, formula, TopN))
PROOF
<1>0. TopN \in Nat
  BY AnalysisConstants
<1>1. PICK f : f = Localized(run, c, changed, formula, TopN)
  OBVIOUS
<1>2. CASE FailedTests(run) = {}
  <2>1. f = Refused("no-failed-tests")
    BY <1>1, <1>2 DEF Localized
  <2> QED
    BY <1>1, <2>1 DEF Delivered, Found, Refused
<1>3. CASE FailedTests(run) # {} /\ c.state # "facts"
  <2>1. f = FailureProximity(run, changed, TopN)
    BY <1>1, <1>3 DEF Localized
  <2>2. f.state = "failure_proximity" /\ EntriesWell(run, f.entries)
    BY <1>0, <2>1, ProximityWell DEF FailureProximity, Finding
  <2> QED
    BY <1>1, <2>2 DEF Delivered
<1>4. CASE FailedTests(run) # {} /\ c.state = "facts" /\ c.granularity = "per-test"
  <2>1. f = IF Places(c.files) = {} THEN Refused("no-coverage") ELSE PerTest(run, c.files, formula, TopN)
    BY <1>1, <1>4 DEF Localized
  <2>2. CASE Places(c.files) = {}
    BY <1>1, <2>1, <2>2 DEF Delivered, Found, Refused
  <2>3. CASE Places(c.files) # {}
    <3>1. EntriesWell(run, f.entries) /\ f.entries = PerTest(run, c.files, formula, TopN).entries
      BY <1>0, <1>4, <2>1, <2>3, PerTestWell DEF CoverageWell
    <3> QED
      BY <1>1, <1>4, <3>1 DEF Delivered
  <2> QED
    BY <2>2, <2>3
<1>5. CASE FailedTests(run) # {} /\ c.state = "facts" /\ c.granularity # "per-test"
  <2>1. f = Aggregate(run, c.files, changed, formula, TopN)
    BY <1>1, <1>5 DEF Localized
  <2>2. f.state = "sbfl_aggregate" /\ EntriesWell(run, f.entries)
    BY <1>0, <1>5, <2>1, AggregateWell DEF CoverageWell, Aggregate, Finding
  <2> QED
    BY <1>1, <2>2 DEF Delivered
<1> QED
  BY <1>2, <1>3, <1>4, <1>5

\* A run is as its engine recorded it, and its coverage facts are those.
CovInv ==
  /\ \A r \in DOMAIN runs : RunIsTyped(runs[r])
  /\ \A r \in DOMAIN cov : cov[r] = None \/ (Found(runs[r].coverage) /\ cov[r] = runs[r].coverage)

\* Every finding there is, stored, under way or told of, was made of them.
LocInv ==
  /\ \A r \in DOMAIN loc : Delivered(runs[r], cov[r], loc[r])
  /\ stage \in {"replay", "recommend"} => Delivered(runs[Newest], cov[Newest], bundle.localization)
  /\ \A r \in DOMAIN told : Told(r) => Delivered(runs[r], cov[r], told[r].bundle.localization)

LEMMA TypedIsWell ==
  ASSUME NEW run, RunIsTyped(run)
  PROVE  /\ FailuresWell(run) /\ ResultsWell(run)
         /\ Found(run.coverage) => run.coverage.state = "facts" /\ FilesWell(run.coverage.files)
BY DEF RunIsTyped, FailuresWell, ResultsWell, FilesWell

LEMMA CovStep == SlotsInv /\ CovInv /\ [Next]_vars => CovInv'
PROOF
<1> SUFFICES ASSUME SlotsInv, CovInv, [Next]_vars PROVE CovInv'
  OBVIOUS
<1>0. Newest \in Nat /\ DOMAIN runs = 1..Newest /\ DOMAIN cov = 1..Newest
  BY NewestIsRun
<1>1. CASE Execute
  <2>1. PICK h \in Histories : Len(h) > Newest /\ runs' = Append(runs, h[Newest + 1])
    BY <1>1 DEF Execute, NextRuns
  <2>2. h \in Seq(Range(h)) /\ \A i \in DOMAIN h : RunIsTyped(h[i])
    BY AnalysisConstants
  <2>3. Newest + 1 \in DOMAIN h
    BY <1>0, <2>1, <2>2
  <2>4. PICK new : new = h[Newest + 1]
    OBVIOUS
  <2>5. RunIsTyped(new) /\ runs' = Append(runs, new)
    BY <2>1, <2>2, <2>3, <2>4
  <2>6. runs \in Seq(Range(runs)) /\ cov \in Seq(Range(cov)) /\ Len(runs) = Newest /\ Len(cov) = Newest
    BY DEF SlotsInv, Newest
  <2>7. DOMAIN runs' = 1..(Newest + 1) /\ runs'[Newest + 1] = new /\ \A i \in DOMAIN runs : runs'[i] = runs[i]
    BY <2>5, <2>6, AppendOverRange
  <2>8. cov' = Append(cov, None)
    BY <1>1 DEF Execute
  <2>9. DOMAIN cov' = 1..(Newest + 1) /\ cov'[Newest + 1] = None /\ \A i \in DOMAIN cov : cov'[i] = cov[i]
    BY <2>6, <2>8, AppendOverRange
  <2>10. \A r \in 1..(Newest + 1) : r \in 1..Newest \/ r = Newest + 1
    BY <1>0
  <2> QED
    BY <1>0, <2>5, <2>7, <2>9, <2>10 DEF CovInv
<1>2. CASE Derive
  <2>1. /\ runs' = runs
        /\ cov' = [cov EXCEPT ![Newest] = IF Found(runs[Newest].coverage) THEN runs[Newest].coverage ELSE @]
    BY <1>2 DEF Derive
  <2>2. cov \in Seq(Range(cov))
    BY DEF SlotsInv
  <2>3. DOMAIN cov' = DOMAIN cov /\ \A r \in DOMAIN cov :
          cov'[r] = IF r = Newest /\ Found(runs[r].coverage) THEN runs[r].coverage ELSE cov[r]
    BY <2>1, <2>2
  <2> QED
    BY <2>1, <2>3 DEF CovInv
<1>3. CASE UNCHANGED <<runs, cov>>
  BY <1>3 DEF CovInv
<1>4. Execute \/ Derive \/ UNCHANGED <<runs, cov>>
  BY DEF Next, vars, facts, Compare, Localize, Rerun, SkipRerun, Recommend, CompareElsewhere, LocalizeElsewhere
<1> QED
  BY <1>1, <1>2, <1>3, <1>4

\* Coverage that comes after a finding changes nothing of it.
LEMMA DeliveredKept ==
  ASSUME NEW run, NEW c, NEW f, Delivered(run, c, f), NEW d, c.state = "facts" => d = c
  PROVE  Delivered(run, d, f)
BY DEF Delivered

LEMMA NothingDelivered ==
  ASSUME NEW run, NEW c
  PROVE  Delivered(run, c, None)
BY DEF Delivered, Found, None

\* What a run is localized to is well made, served or anew.
LEMMA LocalizedIsWell ==
  ASSUME SlotsInv, CovInv, LocInv, NEW r \in DOMAIN runs, NEW formula \in Formulas
  PROVE  /\ Delivered(runs[r], cov[r], Localized(runs[r], cov[r], ChangedSince(r), formula, TopN))
         /\ Delivered(runs[r], cov[r], LocalizedRun(r, formula))
PROOF
<1>1. RunIsTyped(runs[r]) /\ r \in DOMAIN cov /\ r \in DOMAIN loc
  BY NewestIsRun DEF CovInv
<1>2. FailuresWell(runs[r])
  BY <1>1, TypedIsWell
<1>3. CoverageWell(cov[r])
  <2>1. CASE cov[r] = None
    BY <2>1 DEF CoverageWell, None
  <2>2. CASE Found(runs[r].coverage) /\ cov[r] = runs[r].coverage
    BY <1>1, <2>2, TypedIsWell DEF CoverageWell
  <2> QED
    BY <1>1, <2>1, <2>2 DEF CovInv
<1>4. Delivered(runs[r], cov[r], Localized(runs[r], cov[r], ChangedSince(r), formula, TopN))
  <2>1. PICK run, c, changed : run = runs[r] /\ c = cov[r] /\ changed = ChangedSince(r)
    OBVIOUS
  <2>2. Delivered(run, c, Localized(run, c, changed, formula, TopN))
    BY <1>2, <1>3, <2>1, LocalizedDelivers
  <2> QED
    BY <2>1, <2>2
<1>5. Delivered(runs[r], cov[r], loc[r])
  BY <1>1 DEF LocInv
<1> QED
  BY <1>4, <1>5 DEF LocalizedRun

\* Nothing that was made is touched, and coverage only where there was none.
LEMMA LocKept ==
  ASSUME SlotsInv, LocInv,
         DOMAIN runs \subseteq DOMAIN runs', \A r \in DOMAIN runs : runs'[r] = runs[r],
         \A r \in DOMAIN runs : cov[r].state = "facts" => cov'[r] = cov[r]
  PROVE  /\ \A r \in DOMAIN loc : Delivered(runs'[r], cov'[r], loc[r])
         /\ \A r \in DOMAIN told : Told(r) => Delivered(runs'[r], cov'[r], told[r].bundle.localization)
         /\ stage \in {"replay", "recommend"} /\ Newest >= 1 =>
              Delivered(runs'[Newest], cov'[Newest], bundle.localization)
PROOF
<1>1. /\ DOMAIN runs = DOMAIN loc /\ DOMAIN runs = DOMAIN told
      /\ Newest >= 1 => Newest \in DOMAIN runs
  BY NewestIsRun
<1>2. ASSUME NEW r \in DOMAIN runs, NEW f, Delivered(runs[r], cov[r], f)
      PROVE  Delivered(runs'[r], cov'[r], f)
  <2>1. PICK run, c, d : run = runs[r] /\ c = cov[r] /\ d = cov'[r]
    OBVIOUS
  <2>2. c.state = "facts" => d = c
    BY <2>1
  <2>3. Delivered(run, d, f)
    BY <1>2, <2>1, <2>2, DeliveredKept
  <2> QED
    BY <2>1, <2>3
<1> QED
  BY <1>1, <1>2 DEF LocInv

LEMMA LocStep == SlotsInv /\ CovInv /\ GatherInv /\ LocInv /\ [Next]_vars => LocInv'
PROOF
<1> SUFFICES ASSUME SlotsInv, CovInv, GatherInv, LocInv, [Next]_vars PROVE LocInv'
  OBVIOUS
<1>0. /\ Newest \in Nat /\ DOMAIN runs = 1..Newest /\ DOMAIN cov = 1..Newest
      /\ DOMAIN loc = 1..Newest /\ DOMAIN told = 1..Newest
  BY NewestIsRun
<1>f. "ochiai" \in Formulas
  BY DEF Formulas
<1>1. CASE Execute
  <2>1. /\ cov' = Append(cov, None) /\ loc' = Append(loc, None) /\ told' = Append(told, None)
        /\ stage' = "coverage" /\ \E new : runs' = Append(runs, new)
    BY <1>1 DEF Execute
  <2>2. /\ runs \in Seq(Range(runs)) /\ cov \in Seq(Range(cov)) /\ loc \in Seq(Range(loc)) /\ told \in Seq(Range(told))
        /\ Len(runs) = Newest /\ Len(cov) = Newest /\ Len(loc) = Newest /\ Len(told) = Newest
    BY DEF SlotsInv, Newest
  <2>3. PICK new : runs' = Append(runs, new)
    BY <2>1
  <2>4. DOMAIN runs' = 1..(Newest + 1) /\ \A i \in DOMAIN runs : runs'[i] = runs[i]
    BY <2>2, <2>3, AppendOverRange
  <2>5. \A i \in DOMAIN cov : cov'[i] = cov[i]
    BY <2>1, <2>2, AppendOverRange
  <2>6. DOMAIN loc' = 1..(Newest + 1) /\ loc'[Newest + 1] = None /\ \A i \in DOMAIN loc : loc'[i] = loc[i]
    BY <2>1, <2>2, AppendOverRange
  <2>7. DOMAIN told' = 1..(Newest + 1) /\ told'[Newest + 1] = None /\ \A i \in DOMAIN told : told'[i] = told[i]
    BY <2>1, <2>2, AppendOverRange
  <2>8. \A r \in 1..(Newest + 1) : r \in 1..Newest \/ r = Newest + 1
    BY <1>0
  <2>9. DOMAIN runs \subseteq DOMAIN runs'
    BY <1>0, <2>4
  <2>10. /\ \A r \in DOMAIN loc : Delivered(runs'[r], cov'[r], loc[r])
         /\ \A r \in DOMAIN told : Told(r) => Delivered(runs'[r], cov'[r], told[r].bundle.localization)
    BY <1>0, <2>4, <2>5, <2>9, LocKept
  <2>11. \A r \in DOMAIN loc' : Delivered(runs'[r], cov'[r], loc'[r])
    BY <1>0, <2>6, <2>8, <2>10, NothingDelivered
  <2>12. \A r \in DOMAIN told' : Told(r)' => Delivered(runs'[r], cov'[r], told'[r].bundle.localization)
    BY <1>0, <2>7, <2>8, <2>10 DEF Told
  <2> QED
    BY <2>1, <2>11, <2>12 DEF LocInv
<1>2. CASE Derive
  <2>1. /\ UNCHANGED <<runs, loc, told>> /\ stage' = "regression" /\ cov[Newest] = None
        /\ cov' = [cov EXCEPT ![Newest] = IF Found(runs[Newest].coverage) THEN runs[Newest].coverage ELSE @]
    BY <1>2 DEF Derive, GatherInv
  <2>2. \A r \in DOMAIN cov : r # Newest => cov'[r] = cov[r]
    BY <2>1
  <2>3. \A r \in DOMAIN runs : cov[r].state = "facts" => cov'[r] = cov[r]
    BY <1>0, <2>1, <2>2 DEF None
  <2>4. /\ \A r \in DOMAIN loc : Delivered(runs'[r], cov'[r], loc[r])
        /\ \A r \in DOMAIN told : Told(r) => Delivered(runs'[r], cov'[r], told[r].bundle.localization)
    BY <2>1, <2>3, LocKept
  <2> QED
    BY <2>1, <2>4 DEF LocInv, Told
<1>3. CASE Localize
  <2> DEFINE outcome == LocalizedRun(Newest, "ochiai")
  <2>1. /\ UNCHANGED <<runs, cov, told>> /\ stage' = "replay" /\ Newest >= 1 /\ Began(bundle, Newest)
        /\ loc' = [loc EXCEPT ![Newest] = IF Found(outcome) THEN outcome ELSE @]
        /\ bundle' = [bundle EXCEPT !.localization = outcome]
    BY <1>3 DEF Localize, GatherInv
  <2>2. Newest \in DOMAIN runs /\ Newest' = Newest
    BY <1>0, <2>1 DEF Newest
  <2>3. Delivered(runs[Newest], cov[Newest], outcome)
    BY <1>f, <2>2, LocalizedIsWell
  <2> HIDE DEF outcome
  <2>4. bundle'.localization = outcome
    <3>1. "localization" \in DOMAIN bundle
      BY <2>1 DEF Began
    <3> QED
      BY <2>1, <3>1
  <2>5. \A r \in DOMAIN loc : loc'[r] = IF r = Newest /\ Found(outcome) THEN outcome ELSE loc[r]
    BY <2>1
  <2>6. DOMAIN loc' = DOMAIN loc
    BY <2>1
  <2> QED
    BY <2>1, <2>2, <2>3, <2>4, <2>5, <2>6 DEF LocInv, Told
<1>4. CASE Rerun \/ SkipRerun
  <2>1. /\ UNCHANGED <<runs, cov, loc, told>> /\ stage = "replay" /\ Began(bundle, Newest)
    BY <1>4 DEF Rerun, SkipRerun, facts, GatherInv
  <2>2. \/ bundle' = bundle
        \/ bundle' = [bundle EXCEPT !.replay = "unavailable"]
        \/ \E result : bundle' = [bundle EXCEPT !.replay = "available", !.replays = {result}]
    BY <1>4 DEF Rerun, SkipRerun
  <2>3. "localization" \in DOMAIN bundle
    BY <2>1 DEF Began
  <2>4. bundle'.localization = bundle.localization
    BY <2>2, <2>3
  <2> QED
    BY <2>1, <2>4 DEF LocInv, Told, Newest
<1>5. CASE Recommend
  <2>1. /\ UNCHANGED <<runs, cov, loc>> /\ stage = "recommend" /\ stage' = "idle"
        /\ told' = [told EXCEPT ![Newest] = [bundle |-> bundle, recommendations |-> Synthesized(bundle)]]
    BY <1>5 DEF Recommend, facts
  <2>2. DOMAIN told' = DOMAIN told
    BY <2>1
  <2>3. \A r \in DOMAIN told : r # Newest => told'[r] = told[r]
    BY <2>1
  <2>4. Newest \in DOMAIN told => told'[Newest].bundle = bundle
    BY <2>1
  <2> QED
    BY <2>1, <2>2, <2>3, <2>4 DEF LocInv, Told
<1>6. ASSUME NEW r \in DOMAIN runs, NEW formula \in ElsewhereFormulas, LocalizeElsewhere(r, formula)
      PROVE  LocInv'
  <2>1. formula \in Formulas
    BY AnalysisConstants
  <2>2. PICK outcome :
          /\ \/ outcome = LocalizedRun(r, formula)
             \/ outcome = Localized(runs[r], cov[r], ChangedSince(r), formula, TopN)
          /\ loc' = [loc EXCEPT ![r] = IF Found(outcome) THEN outcome ELSE None]
    BY <1>6 DEF LocalizeElsewhere
  <2>3. UNCHANGED <<runs, cov, stage, bundle, told>>
    BY <1>6 DEF LocalizeElsewhere
  <2>4. Delivered(runs[r], cov[r], outcome)
    BY <2>1, <2>2, LocalizedIsWell
  <2>5. DOMAIN loc' = DOMAIN loc
    BY <2>2
  <2>6. \A q \in DOMAIN loc : loc'[q] = IF q = r THEN (IF Found(outcome) THEN outcome ELSE None) ELSE loc[q]
    BY <2>2
  <2>7. \A q \in DOMAIN loc : Delivered(runs[q], cov[q], loc'[q])
    BY <2>4, <2>6, NothingDelivered DEF LocInv
  <2> QED
    BY <2>3, <2>5, <2>7 DEF LocInv, Told, Newest
<1>7. CASE Compare
  <2>1. UNCHANGED <<runs, cov, loc, told>> /\ stage' = "localization"
    BY <1>7 DEF Compare
  <2> QED
    BY <2>1 DEF LocInv, Told
<1>8. CASE UNCHANGED <<runs, cov, loc, stage, bundle, told>>
  BY <1>8 DEF LocInv, Told, Newest
<1>9. CASE (\E b, t \in DOMAIN runs : CompareElsewhere(b, t)) \/ UNCHANGED vars
  BY <1>8, <1>9 DEF CompareElsewhere, vars, facts
<1> QED
  BY <1>1, <1>2, <1>3, <1>4, <1>5, <1>6, <1>7, <1>9 DEF Next

(***************************************************************************)
(* What recommendations cite                                               *)
(***************************************************************************)

\* A result under the node id that failed.
SeenToFail(run, n) ==
  \E i \in DOMAIN run.results : run.results[i].node = n /\ Bucket(run.results[i].outcome) = "fail"

LEMMA FailedIsSeen ==
  ASSUME NEW run, NEW n \in FailedTests(run)
  PROVE  SeenToFail(run, n)
PROOF
<1>1. PICK i \in DOMAIN run.results : run.results[i].node = n /\ run.results[i].outcome \in FailLike
  BY DEF FailedTests
<1>2. Bucket(run.results[i].outcome) = "fail"
  BY <1>1 DEF Bucket, PassLike, FailLike, SkipLike, Known
<1> QED
  BY <1>1, <1>2 DEF SeenToFail

\* Whatever counts as a regression is a failure of the later run.
LEMMA RegressedIsSeen ==
  ASSUME NEW base, NEW target, NEW R, target.results \in Seq(R),
         NEW n \in InCategory(Transitions(base, target), "regressed")
  PROVE  SeenToFail(target, n)
PROOF
<1> DEFINE old == Representative(base, n)
           new == Representative(target, n)
<1>1. Category(old, new) = "regressed"
  BY DEF InCategory, Transitions
<1>2. DOMAIN target.results = 1..Len(target.results)
  OBVIOUS
<1>3. new = Absent \/ \E i \in 1..Len(target.results) : target.results[i].node = n /\ new = target.results[i]
  BY RepresentativeIsWell DEF KeptWell
<1> HIDE DEF old, new
<1>4. new # Absent /\ Classify(Bucket(old.outcome), Bucket(new.outcome)) = "regressed"
  BY <1>1 DEF Category
<1>5. Bucket(old.outcome) \in {"pass", "fail", "skip"} /\ Bucket(new.outcome) \in {"pass", "fail", "skip"}
  BY BucketIsOneOfThree
<1>6. Bucket(new.outcome) = "fail"
  BY <1>4, <1>5 DEF Classify
<1> QED
  BY <1>2, <1>3, <1>4, <1>6 DEF SeenToFail

\* A bundle whose entries and regressions are of failures, and whose replay
\* blames a test of its run, or none.
BundleWell(b) ==
  /\ b.run.results \in Seq(Range(b.run.results))
  /\ \A x \in b.replays : x.test \in {NoTest} \cup Nodes(b.run)
  /\ Found(b.localization) => EntriesWell(b.run, b.localization.entries)
  /\ \A t \in Regressed(b) : SeenToFail(b.run, t)

\* A citation names something that is there.
Resolves(b, category, c) ==
  CASE c.kind = "localization_finding" ->
         \E e \in Range(Entries(b)) : e.path = c.path /\ e.rank = c.rank /\ e.primary = c.primary
    [] c.kind = "coverage_fact" -> c.lines # {} /\ c.lines \subseteq FileAt(b.coverage.files, c.path).miss
    [] c.kind = "regression_fact" -> c.test \in Regressed(b)
    [] c.kind = "replay_result" -> Blamed(b, c.test)
    [] c.kind = "test_result" ->
         LET of == {i \in DOMAIN b.run.results : b.run.results[i].node = c.test}
             as(i) == b.run.results[i].outcome
         IN  \/ /\ \E i \in of : as(i) = c.outcome
                /\ (\E i \in of : Bucket(as(i)) = "fail") \/ category = "flaky_suspected"
             \/ category = "flaky_suspected" /\ c.test = NoTest /\ Blamed(b, NoTest)
    [] c.kind = "run_reference" -> TRUE

LEMMA EntriesAre ==
  ASSUME NEW b, BundleWell(b)
  PROVE  /\ Entries(b) \in Seq(Range(Entries(b)))
         /\ \A i \in DOMAIN Entries(b) : Entries(b)[i].related \subseteq FailedTests(b.run)
PROOF
<1>1. CASE Found(b.localization)
  <2>1. Entries(b) = b.localization.entries
    BY <1>1 DEF Entries
  <2>2. EntriesWell(b.run, Entries(b))
    BY <1>1, <2>1 DEF BundleWell
  <2> QED
    BY <2>2 DEF EntriesWell, Range
<1>2. CASE ~Found(b.localization)
  <2>1. Entries(b) = <<>>
    BY <1>2 DEF Entries
  <2> QED
    BY <2>1 DEF Range
<1> QED
  BY <1>1, <1>2

LEMMA CiteEntryResolves ==
  ASSUME NEW b, NEW i \in DOMAIN Entries(b), NEW category
  PROVE  Resolves(b, category, CiteEntry(b, i))
PROOF
<1>1. PICK c : c = CiteEntry(b, i)
  OBVIOUS
<1>2. /\ c.kind = "localization_finding" /\ c.path = Entries(b)[i].path
      /\ c.rank = Entries(b)[i].rank /\ c.primary = Entries(b)[i].primary
  BY <1>1 DEF CiteEntry
<1>3. Entries(b)[i] \in Range(Entries(b))
  BY DEF Range
<1>4. Resolves(b, category, c)
  BY <1>2, <1>3 DEF Resolves
<1> QED
  BY <1>1, <1>4

LEMMA CiteTestResolves ==
  ASSUME NEW b, BundleWell(b), NEW t, NEW category,
         \/ SeenToFail(b.run, t)
         \/ category = "flaky_suspected" /\ t \in Nodes(b.run)
         \/ category = "flaky_suspected" /\ t = NoTest /\ Blamed(b, NoTest)
  PROVE  Resolves(b, category, CiteTest(b, t))
PROOF
<1> DEFINE of == {i \in DOMAIN b.run.results : b.run.results[i].node = t}
<1>1. PICK c : c = CiteTest(b, t)
  OBVIOUS
<1>2. c.kind = "test_result" /\ c.test = t
  BY <1>1 DEF CiteTest
<1>3. ASSUME of # {} PROVE \E i \in of : b.run.results[i].outcome = c.outcome
  <2>1. of \in SUBSET Nat
    BY DEF BundleWell
  <2>2. Min(of) \in of
    <3> HIDE DEF of
    <3> QED
      BY <1>3, <2>1, MinIs
  <2>3. c.outcome = b.run.results[Min(of)].outcome
    BY <1>1, <1>3 DEF CiteTest
  <2> QED
    BY <2>2, <2>3
<1>4. SeenToFail(b.run, t) => \E i \in of : Bucket(b.run.results[i].outcome) = "fail"
  BY DEF SeenToFail
<1>5. t \in Nodes(b.run) => of # {}
  BY DEF Nodes
<1>6. Resolves(b, category, c)
  BY <1>2, <1>3, <1>4, <1>5 DEF Resolves
<1> QED
  BY <1>1, <1>6

LEMMA CiteRegressionResolves ==
  ASSUME NEW b, NEW t \in Regressed(b), NEW category
  PROVE  Resolves(b, category, CiteRegression(b, t))
PROOF
<1>1. PICK c : c = CiteRegression(b, t)
  OBVIOUS
<1>2. c.kind = "regression_fact" /\ c.test = t
  BY <1>1 DEF CiteRegression
<1>3. Resolves(b, category, c)
  BY <1>2 DEF Resolves
<1> QED
  BY <1>1, <1>3

LEMMA CiteCoverageResolves ==
  ASSUME NEW b, NEW i \in DOMAIN Entries(b), MissingWithin(b, Entries(b)[i]) # {}, NEW category
  PROVE  Resolves(b, category, CiteCoverage(b, i))
PROOF
<1>1. PICK c : c = CiteCoverage(b, i)
  OBVIOUS
<1>2. c.kind = "coverage_fact" /\ c.path = Entries(b)[i].path /\ c.lines = MissingWithin(b, Entries(b)[i])
  BY <1>1 DEF CiteCoverage
<1>3. MissingWithin(b, Entries(b)[i]) \subseteq FileAt(b.coverage.files, Entries(b)[i].path).miss
  BY DEF MissingWithin
<1>4. Resolves(b, category, c)
  BY <1>2, <1>3 DEF Resolves
<1> QED
  BY <1>1, <1>4

\* The entry found again by place is one there is.
LEMMA CiteRelatedResolves ==
  ASSUME NEW b, BundleWell(b), NEW i \in DOMAIN Entries(b), NEW c \in CiteRelated(b, i), NEW category
  PROVE  Resolves(b, category, c)
PROOF
 <1> DEFINE same == {j \in DOMAIN Entries(b) :
                       Entries(b)[j].path = Entries(b)[i].path /\ Entries(b)[j].primary = Entries(b)[i].primary}
           related == Entries(b)[EntryOf(b, i)].related
<1>1. DOMAIN Entries(b) = 1..Len(Entries(b)) /\ Len(Entries(b)) \in Nat
  BY EntriesAre
<1>2. same \in SUBSET Nat /\ same # {}
  BY <1>1
<1>3. EntryOf(b, i) \in DOMAIN Entries(b)
  <2>1. EntryOf(b, i) = Min(same)
    BY DEF EntryOf
  <2>2. Min(same) \in same
    <3> HIDE DEF same
    <3> QED
      BY <1>2, MinIs
  <2> QED
    BY <2>1, <2>2
<1>4. related \subseteq FailedTests(b.run)
  BY <1>3, EntriesAre
<1>5. PICK t \in related : c = CiteTest(b, t)
  <2>1. related # {} /\ c = CiteTest(b, CHOOSE t \in related : TRUE)
    BY DEF CiteRelated
  <2>2. (CHOOSE t \in related : TRUE) \in related
    BY <2>1
  <2> QED
    BY <2>1, <2>2
<1>6. SeenToFail(b.run, t)
  BY <1>4, <1>5, FailedIsSeen
<1> QED
  BY <1>5, <1>6, CiteTestResolves

\* What a hit is about, by its category.
HitWell(b, h) ==
  \/ h.category = "regression_with_localization" /\ h.entry \in DOMAIN Entries(b) /\ h.test \in Regressed(b)
  \/ h.category = "investigate_location" /\ h.entry \in DOMAIN Entries(b)
  \/ h.category = "investigate_regression" /\ h.test \in Regressed(b)
  \/ h.category = "coverage_gap" /\ h.entry \in DOMAIN Entries(b) /\ MissingWithin(b, Entries(b)[h.entry]) # {}
  \/ h.category = "flaky_suspected" /\ Blamed(b, h.test)
  \/ h.category \in {"unavailable_analysis", "all_green"}

LEMMA HitsAreWell ==
  ASSUME NEW b, NEW h \in Hits(b)
  PROVE  HitWell(b, h)
PROOF
<1>1. CASE h \in RegressionWithLocalization(b)
  BY <1>1 DEF RegressionWithLocalization, Hit, HitWell
<1>2. CASE h \in InvestigateLocation(b)
  BY <1>2 DEF InvestigateLocation, Hit, HitWell
<1>3. CASE h \in InvestigateRegression(b)
  BY <1>3 DEF InvestigateRegression, Hit, HitWell
<1>4. CASE h \in CoverageGap(b)
  BY <1>4 DEF CoverageGap, Hit, HitWell
<1>5. CASE h \in FlakySuspected(b)
  BY <1>5 DEF FlakySuspected, Hit, HitWell, Blamed
<1>6. CASE h \in UnavailableAnalysis(b) \cup AllGreen(b)
  BY <1>6 DEF UnavailableAnalysis, AllGreen, Hit, HitWell
<1> QED
  BY <1>1, <1>2, <1>3, <1>4, <1>5, <1>6 DEF Hits

LEMMA CitationsAreWell ==
  ASSUME NEW b, BundleWell(b), NEW h, HitWell(b, h), NEW c \in Citations(b, h)
  PROVE  Resolves(b, h.category, c)
PROOF
<1>0. \A t \in Regressed(b) : SeenToFail(b.run, t)
  BY DEF BundleWell
<1>1. CASE h.category = "regression_with_localization"
  <2>1. h.entry \in DOMAIN Entries(b) /\ h.test \in Regressed(b) /\ SeenToFail(b.run, h.test)
    BY <1>0, <1>1 DEF HitWell
  <2>2. c \in {CiteRegression(b, h.test), CiteEntry(b, h.entry), CiteTest(b, h.test)}
    BY <1>1 DEF Citations
  <2> QED
    BY <2>1, <2>2, CiteRegressionResolves, CiteEntryResolves, CiteTestResolves
<1>2. CASE h.category = "investigate_location"
  <2>1. h.entry \in DOMAIN Entries(b)
    BY <1>2 DEF HitWell
  <2>2. c \in {CiteEntry(b, h.entry)} \cup CiteRelated(b, h.entry)
    BY <1>2 DEF Citations
  <2> QED
    BY <2>1, <2>2, CiteEntryResolves, CiteRelatedResolves
<1>3. CASE h.category = "investigate_regression"
  <2>1. h.test \in Regressed(b) /\ SeenToFail(b.run, h.test)
    BY <1>0, <1>3 DEF HitWell
  <2>2. c \in {CiteRegression(b, h.test), CiteTest(b, h.test)}
    BY <1>3 DEF Citations
  <2> QED
    BY <2>1, <2>2, CiteRegressionResolves, CiteTestResolves
<1>4. CASE h.category = "coverage_gap"
  <2>1. h.entry \in DOMAIN Entries(b) /\ MissingWithin(b, Entries(b)[h.entry]) # {}
    BY <1>4 DEF HitWell
  <2>2. c \in {CiteCoverage(b, h.entry), CiteEntry(b, h.entry)}
    BY <1>4 DEF Citations
  <2> QED
    BY <2>1, <2>2, CiteCoverageResolves, CiteEntryResolves
<1>5. CASE h.category = "flaky_suspected"
  <2>1. c = [kind |-> "replay_result", test |-> h.test] \/ c = CiteTest(b, h.test)
    BY <1>5 DEF Citations
  <2>2. Blamed(b, h.test)
    BY <1>5 DEF HitWell
  <2>3. h.test \in Nodes(b.run) \/ (h.test = NoTest /\ Blamed(b, NoTest))
    BY <2>2 DEF Blamed, BundleWell
  <2>4. CASE c = [kind |-> "replay_result", test |-> h.test]
    <3>1. c.kind = "replay_result" /\ c.test = h.test
      BY <2>4
    <3> QED
      BY <2>2, <3>1 DEF Resolves
  <2> QED
    BY <1>5, <2>1, <2>3, <2>4, CiteTestResolves
<1>6. CASE h.category \in {"unavailable_analysis", "all_green"}
  <2>1. c.kind = "run_reference"
    BY <1>6 DEF Citations
  <2> QED
    BY <2>1 DEF Resolves
<1> QED
  BY <1>1, <1>2, <1>3, <1>4, <1>5, <1>6 DEF HitWell

LEMMA SynthesizedIsWell ==
  ASSUME NEW b, BundleWell(b), NEW x \in Synthesized(b), NEW c \in x.cites
  PROVE  Resolves(b, x.category, c)
PROOF
<1>1. PICK h \in Exclusive(Swallow(b, Hits(b))) : x.category = h.category /\ x.cites = Citations(b, h)
  BY DEF Synthesized
<1>2. h \in Hits(b)
  BY <1>1 DEF Exclusive, Swallow
<1> QED
  BY <1>1, <1>2, HitsAreWell, CitationsAreWell

LEMMA ToldIsWell ==
  ASSUME SlotsInv, RegInv, ToldInv, LocInv, BlameInv, NEW r \in DOMAIN told, Told(r)
  PROVE  BundleWell(told[r].bundle)
PROOF
<1>1. PICK b : b = told[r].bundle
  OBVIOUS
<1>2. WholeBundle(b, r) /\ Delivered(runs[r], cov[r], b.localization)
  BY <1>1 DEF ToldInv, LocInv
<1>3. b.run = runs[r]
  BY <1>2 DEF WholeBundle, Began
<1>4. Found(b.localization) => EntriesWell(b.run, b.localization.entries)
  BY <1>2, <1>3 DEF Delivered
<1>5. ASSUME NEW t \in Regressed(b) PROVE SeenToFail(b.run, t)
  <2> DEFINE q == BaselineFor(runs, DOMAIN runs, r)
  <2>1. Found(b.regression) /\ t \in InCategory(b.regression.transitions, "regressed")
    BY <1>5 DEF Regressed
  <2>2. <<q, r>> \in DOMAIN reg /\ b.regression = reg[<<q, r>>]
    BY <1>2, <2>1 DEF WholeBundle, HasCompared
  <2> HIDE DEF q
  <2>3. b.regression.transitions = Transitions(runs[q], runs[r])
    BY <2>2 DEF RegInv
  <2>4. r \in DOMAIN runs
    BY NewestIsRun
  <2>5. runs[r].results \in Seq(Range(runs[r].results))
    BY <2>4 DEF SlotsInv
  <2> QED
    BY <1>3, <2>1, <2>3, <2>5, RegressedIsSeen
<1>6. r \in DOMAIN runs /\ r \in DOMAIN replayed
  BY NewestIsRun
<1>7. b.run.results \in Seq(Range(b.run.results))
  BY <1>3, <1>6 DEF SlotsInv
<1>8. \A x \in b.replays : x.test \in {NoTest} \cup Nodes(b.run)
  BY <1>2, <1>3, <1>6 DEF WholeBundle, HasReplayed, Unreplayed, BlameInv
<1> QED
  BY <1>1, <1>4, <1>5, <1>7, <1>8 DEF BundleWell

LEMMA CovInit == Init => CovInv /\ LocInv /\ BlameInv
  BY DEF Init, CovInv, LocInv, BlameInv

LEMMA BlameStep == SlotsInv /\ GatherInv /\ BlameInv /\ [Next]_vars => BlameInv'
PROOF
<1> SUFFICES ASSUME SlotsInv, GatherInv, BlameInv, [Next]_vars PROVE BlameInv'
  OBVIOUS
<1>0. Newest \in Nat /\ DOMAIN runs = 1..Newest /\ DOMAIN replayed = 1..Newest
  BY NewestIsRun
<1>1. CASE Execute
  <2>1. PICK run : runs' = Append(runs, run)
    BY <1>1 DEF Execute
  <2>2. runs \in Seq(Range(runs)) /\ replayed \in Seq(Range(replayed)) /\ Len(runs) = Newest /\ Len(replayed) = Newest
    BY DEF SlotsInv, Newest
  <2>3. \A i \in DOMAIN runs : runs'[i] = runs[i]
    BY <2>1, <2>2, AppendOverRange
  <2>4. replayed' = Append(replayed, None)
    BY <1>1 DEF Execute
  <2>5. /\ DOMAIN replayed' = 1..(Newest + 1) /\ replayed'[Newest + 1] = None
        /\ \A i \in DOMAIN replayed : replayed'[i] = replayed[i]
    BY <2>2, <2>4, AppendOverRange
  <2>6. \A r \in 1..(Newest + 1) : r \in 1..Newest \/ r = Newest + 1
    BY <1>0
  <2>7. ~Found(None)
    BY DEF Found, None
  <2> QED
    BY <1>0, <2>3, <2>5, <2>6, <2>7 DEF BlameInv
<1>2. CASE Rerun
  <2>1. runs' = runs /\ bundle.run = runs[Newest]
    <3>1. runs' = runs /\ Began(bundle, Newest)
      BY <1>2 DEF Rerun, GatherInv
    <3> QED
      BY <3>1 DEF Began
  <2>2. CASE replayed' = replayed
    BY <2>1, <2>2 DEF BlameInv
  <2>3. ASSUME NEW result, result.test \in {NoTest} \cup Nodes(bundle.run),
               replayed' = [replayed EXCEPT ![Newest] = result]
        PROVE  BlameInv'
    <3>1. DOMAIN replayed' = DOMAIN replayed /\ \A r \in DOMAIN replayed :
            replayed'[r] = IF r = Newest THEN result ELSE replayed[r]
      BY <2>3
    <3> QED
      BY <2>1, <2>3, <3>1 DEF BlameInv
  <2>4. \/ replayed' = replayed
        \/ \E result : result.test \in {NoTest} \cup Nodes(bundle.run) /\ replayed' = [replayed EXCEPT ![Newest] = result]
    BY <1>2 DEF Rerun
  <2> QED
    BY <2>2, <2>3, <2>4
<1>3. CASE UNCHANGED <<runs, replayed>>
  BY <1>3 DEF BlameInv
<1> QED
  BY <1>1, <1>2, <1>3 DEF Next, Derive, Compare, Localize, SkipRerun, Recommend, CompareElsewhere,
     LocalizeElsewhere, vars, facts

\* For every history, coverage, formula and file layout, whatever other
\* clients compare and localize meanwhile: every entry, missing line,
\* regression, replay and test result a recommendation cites, with the rank
\* or outcome it cites, is in the bundle it was made of (citations.py:64-265).
\* Only what is said of an inconsistent replay that blames no test cites a
\* test result that is not there (categories.py:373, citations.py:382-393).
THEOREM CitationsResolveHolds == Spec => []CitationsResolve
PROOF
<1>1. Init => RegInv /\ GatherInv /\ ToldInv
  BY DEF Init, RegInv, GatherInv, ToldInv, Stages
<1>2. SlotsInv /\ RegInv /\ ToldInv /\ LocInv /\ BlameInv /\ ToldIsSynthesized => CitationsResolve
  <2> SUFFICES ASSUME SlotsInv, RegInv, ToldInv, LocInv, BlameInv, ToldIsSynthesized, NEW r \in DOMAIN told, Told(r),
                      NEW x \in told[r].recommendations, NEW c \in x.cites
               PROVE  Resolves(told[r].bundle, x.category, c)
    BY DEF CitationsResolve, Resolves
  <2>1. BundleWell(told[r].bundle)
    BY ToldIsWell
  <2>2. x \in Synthesized(told[r].bundle)
    BY DEF ToldIsSynthesized
  <2> QED
    BY <2>1, <2>2, SynthesizedIsWell
<1> QED
  BY <1>1, <1>2, SlotsInit, SlotsStep, RegStep, GatherStep, ToldWholeStep, ToldInit, ToldStep,
     CovInit, CovStep, LocStep, BlameStep, PTL DEF Spec

(***************************************************************************)
(* Suspects                                                                *)
(***************************************************************************)

\* What the entries E show when test code is left out.
ExclusionShows(run, files, E) ==
  LET all == Grouped(run, files, "ochiai")
      is(c, e) == c.path = e.path /\ c.symbol = e.symbol
      tests == Excluded(all, TestNodes(run))
      shown == {c \in all : \E e \in Range(E) : is(c, e)}
  IN  /\ Suspected(all) # {} => shown # {}
      /\ shown \cap tests # {} => Suspected(all) \subseteq tests

LEMMA ExclusionIs ==
  ASSUME NEW run, ResultsWell(run), NEW files, FilesWell(files), NEW formula \in Formulas, NEW top \in Nat \ {0}
  PROVE  ExclusionShows(run, files, PerTest(run, files, formula, top).entries)
PROOF
<1>0. PICK E, A, T : /\ E = PerTest(run, files, formula, top).entries
                     /\ A = Grouped(run, files, "ochiai") /\ T = Excluded(A, TestNodes(run))
  OBVIOUS
<1> DEFINE shown == {c \in A : \E e \in Range(E) : c.path = e.path /\ c.symbol = e.symbol}
<1>1. PICK C, K : C = Grouped(run, files, formula) /\ K = ExcludeTests(C, TestNodes(run))
  OBVIOUS
<1>2. Agree(C, A)
  <2>1. "ochiai" \in Formulas
    BY DEF Formulas
  <2> QED
    BY <1>0, <1>1, <2>1, GroupedAgree
<1>3. /\ \A e \in Range(E) : \E c \in Suspected(K) : From(e, c)
      /\ Suspected(C) # {} => Range(E) # {}
  <2>1. top \in Nat /\ top > 0
    OBVIOUS
  <2>2. \A e \in Range(E) : \E c \in Suspected(K) : From(e, c)
    BY <1>0, <1>1, <2>1, PerTestIs
  <2>3. top > 0 /\ Suspected(C) # {} => Range(E) # {}
    BY <1>0, <1>1, <2>1, PerTestIs
  <2> QED
    BY <2>1, <2>2, <2>3
<1>4. \A c \in Suspected(K) : c \in C
  BY <1>1, ExcludeTestsIs DEF Suspected
<1>5. Suspected(A) # {} => shown # {}
  <2> SUFFICES ASSUME NEW a \in A, Positive(a.score) PROVE shown # {}
    BY DEF Suspected
  <2>1. PICK c \in C : Twin(c, a)
    BY <1>2 DEF Agree
  <2>2. Suspected(C) # {}
    BY <1>2, <2>1 DEF Agree, Suspected
  <2>3. PICK e \in Range(E), d \in Suspected(K) : From(e, d)
    BY <1>3, <2>2
  <2>4. PICK x \in A : Twin(d, x)
    BY <1>2, <1>4 DEF Agree
  <2> QED
    BY <2>3, <2>4 DEF From, Twin
<1>6. ASSUME NEW x \in shown \cap T PROVE Suspected(A) \subseteq T
  <2>1. PICK e \in Range(E) : x.path = e.path /\ x.symbol = e.symbol
    OBVIOUS
  <2>2. PICK c \in Suspected(K) : From(e, c)
    BY <1>3
  <2>3. c \in C /\ Twin(c, x) /\ x \in A
    BY <1>4, <2>1, <2>2 DEF From, Twin
  <2>4. c \in Excluded(C, TestNodes(run))
    BY <1>0, <1>2, <2>3, ExcludedAlike
  <2>5. Suspected(C) \subseteq Excluded(C, TestNodes(run))
    BY <1>1, <2>2, <2>4, ExcludeTestsIs
  <2> SUFFICES ASSUME NEW a \in A, Positive(a.score) PROVE a \in T
    BY DEF Suspected
  <2>6. PICK d \in C : Twin(d, a)
    BY <1>2 DEF Agree
  <2>7. d \in Excluded(C, TestNodes(run))
    BY <1>2, <2>5, <2>6 DEF Agree, Suspected
  <2> QED
    BY <1>0, <1>2, <2>6, <2>7, ExcludedAlike
<1>7. shown \cap T # {} => Suspected(A) \subseteq T
  BY <1>6
<1> QED
  BY <1>0, <1>5, <1>7, Zenon DEF ExclusionShows

LEMMA CoverageIsWell ==
  ASSUME SlotsInv, CovInv, NEW r \in DOMAIN runs
  PROVE  /\ ResultsWell(runs[r]) /\ FailuresWell(runs[r])
         /\ Found(cov[r]) <=> cov[r].state = "facts"
         /\ Found(cov[r]) => FilesWell(cov[r].files)
PROOF
<1>1. RunIsTyped(runs[r]) /\ r \in DOMAIN cov
  BY NewestIsRun DEF CovInv
<1>2. CASE cov[r] = None
  BY <1>1, <1>2, TypedIsWell DEF Found, None
<1>3. CASE Found(runs[r].coverage) /\ cov[r] = runs[r].coverage
  BY <1>1, <1>3, TypedIsWell DEF Found
<1> QED
  BY <1>1, <1>2, <1>3 DEF CovInv

\* For every run and its coverage, whatever formula ranked: leaving out test
\* code leaves a suspect, and shows test code only when nothing else is
\* suspicious (candidate_filter.py:299-351).
THEOREM ExclusionLeavesSuspectsHolds == Spec => []ExclusionLeavesSuspects
PROOF
<1>1. SlotsInv /\ CovInv /\ LocInv => ExclusionLeavesSuspects
  <2> SUFFICES ASSUME SlotsInv, CovInv, LocInv PROVE ExclusionLeavesSuspects
    OBVIOUS
  <2>1. ASSUME NEW r \in DOMAIN runs, Found(loc[r]), loc[r].state = "sbfl_per_test"
        PROVE  ExclusionShows(runs[r], cov[r].files, loc[r].entries)
    <3>1. r \in DOMAIN loc
      BY NewestIsRun
    <3>2. Delivered(runs[r], cov[r], loc[r])
      BY <3>1 DEF LocInv
    <3>3. /\ cov[r].state = "facts"
          /\ \E formula \in Formulas : loc[r].entries = PerTest(runs[r], cov[r].files, formula, TopN).entries
      BY <2>1, <3>2 DEF Delivered
    <3>4. PICK formula \in Formulas : loc[r].entries = PerTest(runs[r], cov[r].files, formula, TopN).entries
      BY <3>3
    <3>5. ResultsWell(runs[r]) /\ FilesWell(cov[r].files)
      BY <3>3, CoverageIsWell
    <3>6. TopN \in Nat \ {0}
      BY AnalysisConstants
    <3>7. PICK run, files : run = runs[r] /\ files = cov[r].files
      OBVIOUS
    <3>8. ExclusionShows(run, files, PerTest(run, files, formula, TopN).entries)
      BY <3>5, <3>6, <3>7, ExclusionIs
    <3> QED
      BY <3>4, <3>7, <3>8
  <2> QED
    BY <2>1, Zenon DEF ExclusionLeavesSuspects, ExclusionShows
<1>2. Init => RegInv /\ GatherInv
  BY DEF Init, RegInv, GatherInv, Stages
<1> QED
  BY <1>1, <1>2, SlotsInit, SlotsStep, RegStep, GatherStep, CovInit, CovStep, LocStep, PTL DEF Spec

\* The places the entries of a finding name.
Named(E) == {<<e.path, e.symbol>> : e \in Range(E)}

LEMMA PerTestNamesAlike ==
  ASSUME NEW run, ResultsWell(run), NEW files, FilesWell(files), NEW f \in Formulas, NEW g \in Formulas,
         NEW top \in Nat, Cardinality(Places(files)) =< top
  PROVE  Named(PerTest(run, files, f, top).entries) \subseteq Named(PerTest(run, files, g, top).entries)
PROOF
<1>1. PICK C, K, E, D, L, H :
        /\ C = Grouped(run, files, f) /\ K = ExcludeTests(C, TestNodes(run)) /\ E = PerTest(run, files, f, top).entries
        /\ D = Grouped(run, files, g) /\ L = ExcludeTests(D, TestNodes(run)) /\ H = PerTest(run, files, g, top).entries
  OBVIOUS
<1>2. Agree(C, D)
  BY <1>1, GroupedAgree
<1>3. \A e \in Range(E) : \E c \in Suspected(K) : From(e, c)
  BY <1>1, PerTestIs
<1>4. /\ Cardinality(Suspected(L)) =< top => \A c \in Suspected(L) : \E e \in Range(H) : From(e, c)
      /\ Cardinality(Suspected(L)) \in 0..Cardinality(Places(files))
  BY <1>1, PerTestIs
<1>5. Cardinality(Suspected(L)) =< top
  <2>1. Cardinality(Places(files)) \in Nat
    BY PlacesAreFinite, FS_CardinalityType
  <2> QED
    BY <1>4, <2>1
<1>6. ASSUME NEW e \in Range(E) PROVE \E h \in Range(H) : h.path = e.path /\ h.symbol = e.symbol
  <2>1. PICK c \in Suspected(K) : From(e, c)
    BY <1>3
  <2>2. PICK d \in Suspected(L) : Twin(c, d)
    BY <1>1, <1>2, KeptAlike
  <2>3. PICK h \in Range(H) : From(h, d)
    BY <1>4, <1>5
  <2> QED
    BY <2>1, <2>2, <2>3 DEF From, Twin
<1>7. Named(E) \subseteq Named(H)
  BY <1>6 DEF Named
<1> QED
  BY <1>1, <1>7

LEMMA AggregateNamesAlike ==
  ASSUME NEW run, FailuresWell(run), NEW files, FilesWell(files), NEW changed, NEW f \in Formulas, NEW g \in Formulas,
         NEW top \in Nat, Len(files) =< top
  PROVE  Named(Aggregate(run, files, changed, f, top).entries)
           \subseteq Named(Aggregate(run, files, changed, g, top).entries)
PROOF
<1>1. PICK C, K, E, D, L, H :
        /\ C = AggregateCandidates(run, files, changed, f) /\ K = Suspected(ExcludeTests(C, TestNodes(run)))
        /\ E = Ranked(K, top)
        /\ D = AggregateCandidates(run, files, changed, g) /\ L = Suspected(ExcludeTests(D, TestNodes(run)))
        /\ H = Ranked(L, top)
  OBVIOUS
<1>2. Agree(C, D)
  BY <1>1, AggregateAgree
<1>3. IsFiniteSet(C) /\ \A c \in C : Rankable(c)
  BY <1>1, AggregateIs
<1>4. IsFiniteSet(D) /\ Cardinality(D) \in 0..Len(files) /\ \A c \in D : Rankable(c)
  BY <1>1, AggregateIs
<1>5. K \in SUBSET C /\ L \in SUBSET D
  BY <1>1, ExcludeTestsIs DEF Suspected
<1>6. IsFiniteSet(K) /\ IsFiniteSet(L) /\ Cardinality(L) =< Cardinality(D) /\ Cardinality(L) \in Nat
  BY <1>3, <1>4, <1>5, FS_Subset, FS_CardinalityType
<1>7. Shows(E, K, top)
  BY <1>1, <1>3, <1>5, <1>6, RankedIs
<1>8. Shows(H, L, top)
  BY <1>1, <1>4, <1>5, <1>6, RankedIs
<1>9. Suspected(L) = L
  BY <1>1 DEF Suspected
<1>10. Cardinality(L) =< top
  <2>1. Len(files) \in Nat
    BY ListIsFinite DEF FilesWell
  <2> QED
    BY <1>4, <1>6, <2>1
<1>11. ASSUME NEW e \in Range(E) PROVE \E h \in Range(H) : h.path = e.path /\ h.symbol = e.symbol
  <2>1. PICK c \in K : From(e, c)
    BY <1>7 DEF Shows
  <2>2. PICK d \in L : Twin(c, d)
    BY <1>1, <1>2, KeptAlike
  <2>3. PICK h \in Range(H) : From(h, d)
    BY <1>8, <1>9, <1>10 DEF Shows
  <2> QED
    BY <2>1, <2>2, <2>3 DEF From, Twin
<1>12. Named(E) \subseteq Named(H)
  BY <1>11 DEF Named
<1> QED
  BY <1>1, <1>12 DEF Aggregate, Finding

\* What a finding by a formula names, if there is one.
PlacesOf(found) == IF Found(found) THEN Named(found.entries) ELSE {}

LEMMA LocalizedNamesAlike ==
  ASSUME NEW run, FailuresWell(run), NEW c, c.state = "facts", FilesWell(c.files), NEW changed,
         NEW f \in Formulas, NEW g \in Formulas, NEW top, top = Cardinality(Places(c.files)) + Len(c.files)
  PROVE  PlacesOf(Localized(run, c, changed, f, top)) \subseteq PlacesOf(Localized(run, c, changed, g, top))
PROOF
<1>1. Cardinality(Places(c.files)) \in Nat /\ Len(c.files) \in Nat
  BY PlacesAreFinite, FS_CardinalityType, ListIsFinite DEF FilesWell
<1>2. top \in Nat /\ Cardinality(Places(c.files)) =< top /\ Len(c.files) =< top
  BY <1>1
<1> DEFINE made(h) == Localized(run, c, changed, h, top)
<1>3. CASE FailedTests(run) = {}
  <2>1. made(f) = Refused("no-failed-tests")
    BY <1>3 DEF Localized
  <2> QED
    BY <2>1 DEF PlacesOf, Found, Refused
<1>4. CASE FailedTests(run) # {} /\ c.granularity = "per-test" /\ Places(c.files) = {}
  <2>1. made(f) = Refused("no-coverage")
    BY <1>4 DEF Localized
  <2> QED
    BY <2>1 DEF PlacesOf, Found, Refused
<1>5. CASE FailedTests(run) # {} /\ c.granularity = "per-test" /\ Places(c.files) # {}
  <2>1. ASSUME NEW h \in Formulas PROVE PlacesOf(made(h)) = Named(PerTest(run, c.files, h, top).entries)
    <3>1. made(h) = PerTest(run, c.files, h, top)
      BY <1>5 DEF Localized
    <3> HIDE DEF made
    <3>2. made(h).state = "sbfl_per_test"
      BY <3>1 DEF PerTest, Finding
    <3> QED
      BY <3>1, <3>2 DEF PlacesOf, Found
  <2>2. ResultsWell(run)
    BY DEF FailuresWell
  <2> HIDE DEF made
  <2>3. Named(PerTest(run, c.files, f, top).entries) \subseteq Named(PerTest(run, c.files, g, top).entries)
    BY <1>2, <2>2, PerTestNamesAlike
  <2> QED
    BY <2>1, <2>3 DEF made
<1>6. CASE FailedTests(run) # {} /\ c.granularity # "per-test"
  <2>1. ASSUME NEW h \in Formulas PROVE PlacesOf(made(h)) = Named(Aggregate(run, c.files, changed, h, top).entries)
    <3>1. made(h) = Aggregate(run, c.files, changed, h, top)
      BY <1>6 DEF Localized
    <3> HIDE DEF made
    <3>2. made(h).state = "sbfl_aggregate"
      BY <3>1 DEF Aggregate, Finding
    <3> QED
      BY <3>1, <3>2 DEF PlacesOf, Found
  <2> HIDE DEF made
  <2>2. Named(Aggregate(run, c.files, changed, f, top).entries)
          \subseteq Named(Aggregate(run, c.files, changed, g, top).entries)
    BY <1>2, AggregateNamesAlike
  <2> QED
    BY <2>1, <2>2 DEF made
<1> QED
  BY <1>3, <1>4, <1>5, <1>6

\* For every run, coverage and change: whichever of the four formulas ranks,
\* the same places are named, as long as none is cut off (derive.py:325-860).
THEOREM SuspectsDoNotDependOnFormulaHolds == Spec => []SuspectsDoNotDependOnFormula
PROOF
<1>1. SlotsInv /\ GatherInv /\ CovInv => SuspectsDoNotDependOnFormula
  <2> SUFFICES ASSUME SlotsInv, GatherInv, CovInv PROVE SuspectsDoNotDependOnFormula
    OBVIOUS
  <2> DEFINE top == Cardinality(Places(cov[Newest].files)) + Len(cov[Newest].files)
             made(h) == Localized(runs[Newest], cov[Newest], ChangedSince(Newest), h, top)
  <2>1. SUFFICES ASSUME stage = "localization", Found(cov[Newest]), NEW f \in Formulas
                 PROVE  PlacesOf(made(f)) = PlacesOf(made("ochiai"))
    BY DEF SuspectsDoNotDependOnFormula, PlacesOf, Named
  <2>2. Newest \in DOMAIN runs
    BY <2>1, NewestIsRun DEF GatherInv
  <2>3. FailuresWell(runs[Newest]) /\ cov[Newest].state = "facts" /\ FilesWell(cov[Newest].files)
    BY <2>1, <2>2, CoverageIsWell
  <2>4. "ochiai" \in Formulas
    BY DEF Formulas
  <2>5. PICK run, c, changed : run = runs[Newest] /\ c = cov[Newest] /\ changed = ChangedSince(Newest)
    OBVIOUS
  <2>6. ASSUME NEW g \in Formulas, NEW h \in Formulas PROVE PlacesOf(made(g)) \subseteq PlacesOf(made(h))
    <3>1. PICK t : t = top
      OBVIOUS
    <3>2. PlacesOf(Localized(run, c, changed, g, t)) \subseteq PlacesOf(Localized(run, c, changed, h, t))
      BY <2>3, <2>5, <3>1, LocalizedNamesAlike
    <3> QED
      BY <2>5, <3>1, <3>2
  <2> HIDE DEF made
  <2> QED
    BY <2>4, <2>6
<1>2. Init => RegInv /\ GatherInv
  BY DEF Init, RegInv, GatherInv, Stages
<1> QED
  BY <1>1, <1>2, SlotsInit, SlotsStep, RegStep, GatherStep, CovInit, CovStep, PTL DEF Spec

LEMMA GuiltyRanksFirst ==
  ASSUME NEW run, ResultsWell(run), NEW files, FilesWell(files), NEW f \in Formulas,
         NEW A, A = Grouped(run, files, "ochiai"), NEW p \in Places(files), Guilty(SpectraCounts(run, files)[p]),
         NEW a \in A, SameKey(a, p), a \notin Excluded(A, TestNodes(run)),
         NEW top, top = Cardinality(Places(files)), NEW E, E = PerTest(run, files, f, top).entries
  PROVE  \E e \in Range(E) : SameKey(e, p) /\ e.rank = 1
PROOF
<1>1. PICK C, K, counts :
        C = Grouped(run, files, f) /\ K = ExcludeTests(C, TestNodes(run)) /\ counts = SpectraCounts(run, files)
  OBVIOUS
<1>2. Agree(C, A)
  <2>1. "ochiai" \in Formulas
    BY DEF Formulas
  <2> QED
    BY <1>1, <2>1, GroupedAgree
<1>3. /\ \A q \in Places(files) : \E c \in C : SameKey(c, q)
      /\ \A c \in C : Positive(c.score) <=> \E q \in Places(files) : SameKey(c, q) /\ counts[q].ef > 0
      /\ \A c \in C, q \in Places(files) : Guilty(counts[q]) /\ SameKey(c, q) => \A d \in C : NoMore(d.score, c.score)
  BY <1>1, GroupedIs
<1>4. PICK c \in C : SameKey(c, p)
  BY <1>3
<1>5. Twin(c, a)
  BY <1>4 DEF Twin, SameKey
<1>6. c \notin Excluded(C, TestNodes(run))
  BY <1>2, <1>5, ExcludedAlike
<1>7. counts[p].ef > 0 /\ Guilty(counts[p])
  BY <1>1 DEF Guilty
<1>8. Positive(c.score) /\ \A d \in C : NoMore(d.score, c.score)
  BY <1>3, <1>4, <1>7
<1>9. c \in Suspected(K) /\ K \subseteq C
  BY <1>1, <1>6, <1>8, ExcludeTestsIs DEF Suspected
<1>10. top \in Nat
  BY PlacesAreFinite, FS_CardinalityType
<1>11. /\ Cardinality(Suspected(K)) =< top =>
            \A d \in Suspected(K) : \E e \in Range(E) :
              From(e, d) /\ ((\A x \in K : NoMore(x.score, d.score)) => e.rank = 1)
       /\ Cardinality(Suspected(K)) \in 0..Cardinality(Places(files))
  BY <1>1, <1>10, PerTestIs
<1>12. PICK e \in Range(E) : From(e, c) /\ ((\A x \in K : NoMore(x.score, c.score)) => e.rank = 1)
  BY <1>9, <1>10, <1>11
<1>13. e.rank = 1 /\ SameKey(e, p)
  BY <1>4, <1>8, <1>9, <1>12 DEF From, SameKey
<1> QED
  BY <1>13

\* For every run with coverage per test, any number of tests, files and lines,
\* and each of the four formulas: a place that every failing test ran and no
\* passing one is in the first rank, unless it is test code (derive.py:325-498,
\* 1223-1241, sbfl/dstar.py:11-24).
THEOREM CulpritRanksFirstHolds == Spec => []CulpritRanksFirst
PROOF
<1>1. SlotsInv /\ GatherInv /\ CovInv => CulpritRanksFirst
  <2> SUFFICES ASSUME SlotsInv, GatherInv, CovInv, stage = "localization", Found(cov[Newest]),
                      cov[Newest].granularity = "per-test"
               PROVE  CulpritRanksFirst
    BY DEF CulpritRanksFirst
  <2>1. Newest \in DOMAIN runs
    BY NewestIsRun DEF GatherInv
  <2>2. ResultsWell(runs[Newest]) /\ cov[Newest].state = "facts" /\ FilesWell(cov[Newest].files)
    BY <2>1, CoverageIsWell
  <2>3. PICK run, c : run = runs[Newest] /\ c = cov[Newest]
    OBVIOUS
  <2>4. PICK counts, A : counts = SpectraCounts(run, c.files) /\ A = Grouped(run, c.files, "ochiai")
    OBVIOUS
  <2>5. /\ DOMAIN counts = Places(c.files)
         /\ \A p \in Places(c.files) :
              counts[p].ef \in 0..Cardinality(FailedTests(run)) /\ Cardinality(FailedTests(run)) \in Nat
    BY <2>2, <2>3, <2>4, CountsAre DEF Tally
  <2> DEFINE found(f) == Localized(run, c, {}, f, Cardinality(DOMAIN counts))
  <2>6. ASSUME NEW f \in Formulas, NEW p \in DOMAIN counts,
               counts[p].ef > 0 /\ counts[p].nf = 0 /\ counts[p].ep = 0,
               NEW a \in A, a \notin Excluded(A, TestNodes(run)), SameKey(a, p)
        PROVE  \E e \in Range(found(f).entries) : SameKey(e, p) /\ e.rank = 1
    <3>1. p \in Places(c.files) /\ Places(c.files) # {} /\ Guilty(counts[p])
      BY <2>5, <2>6 DEF Guilty
    <3>2. FailedTests(run) # {}
      <4>1. PICK n : n = Cardinality(FailedTests(run))
        OBVIOUS
      <4>2. n \in Nat /\ counts[p].ef \in 0..n /\ counts[p].ef > 0
        BY <2>5, <2>6, <3>1, <4>1
      <4>3. n # 0
        BY <4>2
      <4> QED
        BY <4>1, <4>3, FS_EmptySet
    <3>3. found(f) = PerTest(run, c.files, f, Cardinality(Places(c.files)))
      BY <2>2, <2>3, <2>5, <3>1, <3>2 DEF Localized
    <3> HIDE DEF found
    <3>4. PICK files, top, E :
           files = c.files /\ top = Cardinality(Places(files)) /\ E = PerTest(run, files, f, top).entries
      OBVIOUS
    <3>5. \E e \in Range(E) : SameKey(e, p) /\ e.rank = 1
      BY <2>2, <2>3, <2>4, <2>6, <3>1, <3>4, GuiltyRanksFirst
    <3> QED
      BY <3>3, <3>4, <3>5
  <2> HIDE DEF found
  <2>7. \A f \in Formulas, p \in {q \in DOMAIN counts : counts[q].ef > 0 /\ counts[q].nf = 0 /\ counts[q].ep = 0} :
          (\E a \in {x \in A : x \notin Excluded(A, TestNodes(run))} : SameKey(a, p)) =>
            \E e \in Range(found(f).entries) : SameKey(e, p) /\ e.rank = 1
    BY <2>6
  <2> QED
    BY <2>3, <2>4, <2>7 DEF CulpritRanksFirst, SameKey, found
<1>2. Init => RegInv /\ GatherInv
  BY DEF Init, RegInv, GatherInv, Stages
<1> QED
  BY <1>1, <1>2, SlotsInit, SlotsStep, RegStep, GatherStep, CovInit, CovStep, PTL DEF Spec
=============================================================================
