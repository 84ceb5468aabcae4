-------------------------- MODULE DerivedFactsProofs --------------------------
(***************************************************************************)
(* Proofs about DerivedFacts, for any number of runs and clients, any      *)
(* traits and flags, and any interleaving of verbs, deletes and crashes.   *)
(***************************************************************************)
EXTENDS DerivedFacts, FiniteSetTheorems, WellFoundedInduction, TLAPS

(***************************************************************************)
(* Numbers                                                                 *)
(***************************************************************************)

\* A non-empty set of naturals has a least element.
LEMMA MinIsIn ==
  ASSUME NEW S \in SUBSET Nat, S # {}
  PROVE  Min(S) \in S /\ \A y \in S : Min(S) =< y
<1>1. PICK x \in S : \A y \in S : <<y, x>> \notin OpToRel(<, Nat)
  BY WFMin, NatLessThanWellFounded
<1>2. \A y \in S : ~(y < x)
  BY <1>1, Zenon DEF OpToRel
<1>3. \A y \in S : x =< y
  BY <1>2
<1> QED BY <1>3 DEF Min

\* A bounded, non-empty set of naturals has a greatest element.
LEMMA MaxIsIn ==
  ASSUME NEW n \in Nat, NEW S \in SUBSET (0..n), S # {}
  PROVE  Max(S) \in S /\ \A y \in S : Max(S) >= y
<1> DEFINE T == {n - x : x \in S}
<1>1. T \in SUBSET Nat /\ T # {}
  <2>1. \A x \in S : n - x \in Nat
    OBVIOUS
  <2>2. PICK x \in S : TRUE
    OBVIOUS
  <2>3. n - x \in T
    BY <2>2
  <2> QED BY <2>1, <2>3
<1>2. Min(T) \in T /\ \A y \in T : Min(T) =< y
  <2> HIDE DEF T
  <2> QED BY <1>1, MinIsIn
<1>3. PICK x \in S : Min(T) = n - x
  BY <1>2
<1>4. \A y \in S : x >= y
  <2> TAKE y \in S
  <2>1. n - x =< n - y
    BY <1>2, <1>3
  <2> QED BY <2>1
<1> QED BY <1>4 DEF Max
(***************************************************************************)
(* Typing                                                                  *)
(***************************************************************************)

Firsts == {"store", "derive", "pick", "loc_check"}

\* A stage is followed by the first step of a later stage, or ends the verb.
LEMMA ThenStep ==
  ASSUME NEW p \in Procs, NEW first, NEW ended \in Ended
  PROVE  Then(p, first, ended) \in Firsts \cup Ended
<1> DEFINE stages == StagesOf(work[p].verb)
           after  == {i \in 2..Len(stages) : stages[i - 1] = first}
<1>1. CASE p \in Clients \/ after = {}
  BY <1>1 DEF Then, Ended
<1>2. CASE ~(p \in Clients \/ after = {})
  <2>1. stages \in Seq(Firsts)
    <3> DEFINE verb == work[p].verb
    <3>1. CASE verb = "run"
      <4>1. StagesOf(verb) = <<"store">>
        BY <3>1 DEF StagesOf
      <4> QED BY <4>1 DEF Firsts
    <3>2. CASE verb = "coverage"
      <4>1. StagesOf(verb) = <<"store", "derive">>
        BY <3>2 DEF StagesOf
      <4> QED BY <4>1 DEF Firsts
    <3>3. CASE verb = "test"
      <4>1. StagesOf(verb) = TestStages
        BY <3>3 DEF StagesOf
      <4> QED BY <4>1 DEF TestStages, Firsts
    <3>4. CASE verb \notin {"run", "coverage", "test"}
      <4>1. StagesOf(verb) = <<>>
        BY <3>4 DEF StagesOf
      <4> QED BY <4>1
    <3> QED BY <3>1, <3>2, <3>3, <3>4
  <2>2. after \in SUBSET Nat /\ after # {}
    BY <1>2, <2>1
  <2>3. Min(after) \in after
    BY <2>2, MinIsIn
  <2>4. stages[Min(after)] \in Firsts
    BY <2>1, <2>3
  <2> QED BY <1>2, <2>4 DEF Then
<1> QED BY <1>1, <1>2

\* The later part of a verb: where each stage goes when it has, or has no, facts.
Later == Firsts \cup Ended \cup {"view", "policy"}

\* Every way out of a stage leads to a later stage or ends the verb.
LEMMA StageEnds ==
  ASSUME NEW p \in Procs
  PROVE  /\ NoRegression(p) \in Later /\ HasRegression(p) \in Later
         /\ NoFacts(p) \in Later /\ Localized(p) \in Later
  BY ThenStep DEF NoRegression, HasRegression, NoFacts, Localized, Later, Ended

\* The mode is one of three, whatever the coverage facts are.
LEMMA ModeIsTyped == \A r : ModeOf(r) \in Modes
  BY DEF ModeOf, Modes

\* A derived finding is a finding.
LEMMA FindingIsTyped ==
  ASSUME NEW mode \in Modes, NEW fl \in Flags, NEW b \in BOOLEAN, NEW w \in BOOLEAN
  PROVE  Finding(mode, fl, b, w) \in Findings
  BY FactsConstants DEF Finding, Findings, Flags, IsSbfl

\* A verb begins with typed memory.
LEMMA FreshIsTyped ==
  ASSUME NEW verb \in Verbs, NEW b \in 0..N, NEW t \in 0..N, NEW fl \in Flags
  PROVE  FreshWork(verb, b, t, fl) \in Work
  BY DEF FreshWork, Work

\* The default flags are flags.
LEMMA DefaultIsTyped == Default \in Flags
  BY FactsConstants DEF Default, Flags

\* Baseline resolution answers with a run when it answers.
LEMMA LatestIsRun ==
  /\ Live # {} => Max(Live) \in Runs
  /\ \A t \in Runs : Baselines(t) # {} => Max(Baselines(t)) \in Runs
<1>1. Live \in SUBSET (0..N) /\ Live \in SUBSET Runs
  BY FactsConstants DEF Live, Runs
<1>2. \A t \in Runs : Baselines(t) \in SUBSET Live
  BY DEF Baselines
<1> QED BY <1>1, <1>2, MaxIsIn, FactsConstants

\* The store at the start is typed.
LEMMA InitIsTyped == Init => DerivedTypeOK
<1> SUFFICES ASSUME Init PROVE DerivedTypeOK
  OBVIOUS
<1>1. findings \in [Runs -> Findings \cup {NoFinding}]
  BY DEF Init
<1>2. work \in [Procs -> Work]
  <2>1. \A p \in Procs : FreshWork("run", 0, IF p \in Runs THEN p ELSE 0, Default) \in Work
    BY FreshIsTyped, DefaultIsTyped, FactsConstants DEF Verbs, Runs
  <2> QED BY <2>1 DEF Init
<1> QED BY <1>1, <1>2 DEF Init, DerivedTypeOK, Ledger!LedgerTypeOK, Ledger!Status, Steps, Ended

\* What a verb has in memory at a step that makes use of it.
WorkInv(p) ==
  /\ p \in Runs \/ pc[p] \in Steps \ {"pick", "view"} => work[p].target \in Runs
  /\ pc[p] \in {"check", "cache", "recheck", "read_base"} => work[p].baseline \in Runs
  /\ pc[p] \in {"loc_reg", "loc_write"} => work[p].mode \in Modes

TypedSteps == {"idle"} \cup Steps \cup Ended

\* A recorder and a delete keep the state typed.
LEMMA RecorderIsTyped ==
  ASSUME DerivedTypeOK, NEW r \in Runs, Recorder(r) \/ Delete(r)
  PROVE  DerivedTypeOK'
<1> USE DEF DerivedTypeOK, Ledger!LedgerTypeOK, Ledger!Status
<1>1. r \in Procs
  BY DEF Procs
<1>2. Then(r, "store", "done") \in TypedSteps /\ Then(r, "derive", "done") \in TypedSteps
  BY <1>1, ThenStep DEF TypedSteps, Firsts, Steps, Ended
<1>3. CASE Store(r)
  BY <1>1, <1>2, <1>3 DEF Store, At, Goes, Ledger!Record, TypedSteps
<1>4. CASE Derive(r)
  BY <1>1, <1>2, <1>4 DEF Derive, At, Goes, facts, TypedSteps, Steps
<1>5. CASE CovOpen(r)
  BY <1>1, <1>5 DEF CovOpen, At, Goes, Steps
<1>6. CASE CovWrite(r)
  BY <1>1, <1>2, <1>6 DEF CovWrite, At, Goes, TypedSteps
<1>7. CASE Delete(r)
  BY <1>7 DEF Delete, Ledger!Tombstone, InFlight
<1> QED BY <1>3, <1>4, <1>5, <1>6, <1>7 DEF Recorder

\* A verb that begins keeps the state typed.
LEMMA BeginIsTyped ==
  ASSUME DerivedTypeOK, NEW p \in Procs, NEW step \in Steps, NEW w \in Work,
         Begin(p, step, w)
  PROVE  DerivedTypeOK'
BY DEF DerivedTypeOK, Ledger!LedgerTypeOK, Begin, Goes, Keeps, facts, InFlight

\* A step of a verb moves its own program counter and its own memory.
LEMMA CompareIsTyped ==
  ASSUME DerivedTypeOK, NEW p \in Procs, WorkInv(p), Compare(p)
  PROVE  DerivedTypeOK'
<1> USE DEF DerivedTypeOK, Ledger!LedgerTypeOK
<1>1. NoRegression(p) \in TypedSteps /\ HasRegression(p) \in TypedSteps
  BY StageEnds DEF Later, TypedSteps, Firsts, Steps, Ended
<1>2. work[p] \in Work
  OBVIOUS
<1>3. CASE Pick(p)
  <2>1. Cardinality({}) = 0
    BY FS_EmptySet
  <2>2. Cardinality(Live) < 2 \/ Max(Live) \in 0..N
    <3>1. CASE Live = {}
      BY <3>1, <2>1
    <3>2. CASE Live # {}
      BY <3>2, LatestIsRun DEF Runs
    <3> QED BY <3>1, <3>2
  <2>3. work' \in [Procs -> Work]
    BY <1>2, <1>3, <2>2 DEF Pick, Keeps, Work
  <2>4. pc' \in [Procs -> TypedSteps]
    BY <1>1, <1>3 DEF Pick, At, Goes, TypedSteps, Steps
  <2> QED BY <1>3, <2>3, <2>4 DEF Pick, At, facts, TypedSteps
<1>4. CASE Base(p)
  <2> DEFINE found == Baselines(work[p].target)
  <2>1. found = {} \/ Max(found) \in 0..N
    <3>1. CASE work[p].target \in Runs
      BY <3>1, LatestIsRun DEF Runs
    <3>2. CASE work[p].target \notin Runs
      BY <3>2, <1>2, FactsConstants DEF Work, Runs, Baselines, Live
    <3> QED BY <3>1, <3>2
  <2>2. work' \in [Procs -> Work]
    BY <1>2, <1>4, <2>1 DEF Base, Keeps, Work
  <2>3. pc' \in [Procs -> TypedSteps]
    BY <1>1, <1>4 DEF Base, At, Goes, TypedSteps, Steps
  <2> QED BY <1>4, <2>2, <2>3 DEF Base, At, facts, TypedSteps
<1>5. CASE Check(p) \/ Recheck(p)
  BY <1>1, <1>5 DEF Check, Recheck, At, Goes, facts, TypedSteps, Steps
<1>6. CASE Cache(p)
  <2>1. work' \in [Procs -> Work]
    <3> DEFINE new == pairs[Pair(p)]
    <3>1. new \in {"bare", "delta"} => [work[p] EXCEPT !.regression = new] \in Work
      BY <1>2 DEF Work
    <3>2. Keeps(p, IF new \in {"bare", "delta"}
                   THEN [work[p] EXCEPT !.regression = new] ELSE work[p])
      BY <1>6 DEF Cache
    <3> HIDE DEF new
    <3> QED BY <1>2, <3>1, <3>2 DEF Keeps
  <2>2. pc' \in [Procs -> TypedSteps]
    BY <1>1, <1>6 DEF Cache, At, Goes, TypedSteps, Steps
  <2> QED BY <1>6, <2>1, <2>2 DEF Cache, At, facts, TypedSteps
<1>7. CASE ReadBase(p)
  <2>1. work' \in [Procs -> Work]
    BY <1>2, <1>7 DEF ReadBase, Keeps, Work
  <2>2. cov[work[p].baseline] \in {"none", "torn", "ok"}
    BY <1>7 DEF ReadBase, At, WorkInv
  <2>3. pc' \in [Procs -> TypedSteps]
    BY <1>7, <2>2 DEF ReadBase, At, Goes, TypedSteps, Steps, Ended
  <2> QED BY <1>7, <2>1, <2>3 DEF ReadBase, At, facts, TypedSteps
<1>11. CASE ReadTarget(p)
  <2>1. \A change \in {"bare", "delta"} : [work[p] EXCEPT !.change = change] \in Work
    BY <1>2 DEF Work
  <2>2. work' \in [Procs -> Work]
    BY <1>11, <2>1 DEF ReadTarget, Keeps
  <2>3. pc' \in [Procs -> TypedSteps]
    BY <1>11 DEF ReadTarget, At, Goes, TypedSteps, Steps, Ended
  <2> QED BY <1>11, <2>2, <2>3 DEF ReadTarget, At, facts, TypedSteps
<1>8. CASE PairOpen(p)
  BY <1>8 DEF PairOpen, At, Goes, Steps
<1>9. CASE PairWrite(p)
  <2>1. work[p].change \in {"none", "bare", "delta"}
    BY <1>2 DEF Work
  <2>2. pairs' \in [Runs \X Runs -> {"none", "torn", "bare", "delta"}]
    BY <1>9, <2>1 DEF PairWrite
  <2>3. work' \in [Procs -> Work]
    BY <1>2, <1>9, <2>1 DEF PairWrite, Keeps, Work
  <2>4. pc' \in [Procs -> TypedSteps]
    BY <1>1, <1>9 DEF PairWrite, At, Goes, TypedSteps
  <2> QED BY <1>9, <2>2, <2>3, <2>4 DEF PairWrite, At, TypedSteps
<1>10. CASE View(p)
  <2>1. \A d \in BOOLEAN : [work[p] EXCEPT !.delta = d] \in Work
    BY <1>2 DEF Work
  <2>2. \A b, t : HasDelta(b, t) \in BOOLEAN
    BY DEF HasDelta
  <2>3. work' \in [Procs -> Work]
    BY <1>10, <2>1, <2>2 DEF View, Keeps
  <2>4. pc' \in [Procs -> TypedSteps]
    BY <1>10 DEF View, At, Goes, TypedSteps, Ended
  <2> QED BY <1>10, <2>3, <2>4 DEF View, At, facts, TypedSteps
<1> QED BY <1>3, <1>4, <1>5, <1>6, <1>7, <1>8, <1>9, <1>10, <1>11, Compare(p) DEF Compare

\* The same for a localization.
LEMMA LocalizeIsTyped ==
  ASSUME DerivedTypeOK, NEW p \in Procs, WorkInv(p), Localize(p)
  PROVE  DerivedTypeOK'
<1> USE DEF DerivedTypeOK, Ledger!LedgerTypeOK
<1>1. NoFacts(p) \in TypedSteps /\ Localized(p) \in TypedSteps
  BY StageEnds DEF Later, TypedSteps, Firsts, Steps, Ended
<1>2. work[p] \in Work
  OBVIOUS
<1>3. CASE LocCheck(p) \/ LocProbe(p)
  BY <1>1, <1>3 DEF LocCheck, LocProbe, At, Goes, facts, TypedSteps, Steps
<1>4. CASE LocRead(p)
  <2> DEFINE found == findings[work[p].target]
  <2>1. found \in Findings \cup {NoFinding}
    <3>1. work[p].target \in Runs
      BY <1>4 DEF LocRead, At, WorkInv, Steps
    <3> QED BY <3>1
  <2>2. work' \in [Procs -> Work]
    <3>1. [work[p] EXCEPT !.finding = found] \in Work
      <4> HIDE DEF found
      <4> QED BY <1>2, <2>1 DEF Work
    <3>2. Keeps(p, [work[p] EXCEPT !.finding = found])
      BY <1>4 DEF LocRead
    <3> HIDE DEF found
    <3> QED BY <3>1, <3>2 DEF Keeps
  <2>3. pc' \in [Procs -> TypedSteps]
    BY <1>1, <1>4 DEF LocRead, At, Goes, TypedSteps, Ended
  <2> QED BY <1>4, <2>2, <2>3 DEF LocRead, At, facts, TypedSteps
<1>5. CASE LocCov(p)
  <2>1. work' \in [Procs -> Work]
    BY <1>2, <1>5, ModeIsTyped DEF LocCov, Keeps, Work
  <2>2. pc' \in [Procs -> TypedSteps]
    BY <1>1, <1>5 DEF LocCov, At, Goes, TypedSteps, Steps, Ended
  <2> QED BY <1>5, <2>1, <2>2 DEF LocCov, At, facts, TypedSteps
<1>6. CASE LocReg(p)
  <2>1. work' \in [Procs -> Work]
    BY <1>2, <1>6 DEF LocReg, Keeps, Work
  <2> QED BY <1>6, <2>1 DEF LocReg, At, Goes, facts, Steps
<1>7. CASE LocWrite(p)
  <2> DEFINE new == Finding(work[p].mode, work[p].flags, TRUE, work[p].weighed)
  <2>1. new \in Findings
    <3>1. work[p].mode \in Modes
      BY <1>7 DEF LocWrite, At, WorkInv
    <3> QED BY <1>2, <3>1, FindingIsTyped DEF Work
  <2> HIDE DEF new
  <2>2. findings' = [findings EXCEPT ![work[p].target] = new]
    BY <1>7 DEF LocWrite, new
  <2>3. Keeps(p, [work[p] EXCEPT !.finding = new])
    BY <1>7 DEF LocWrite, new
  <2>4. work' \in [Procs -> Work]
    BY <1>2, <2>1, <2>3 DEF Keeps, Work
  <2>5. pc' \in [Procs -> TypedSteps]
    BY <1>1, <1>7 DEF LocWrite, At, Goes, TypedSteps
  <2> QED BY <1>7, <2>1, <2>2, <2>4, <2>5 DEF LocWrite, At, TypedSteps
<1>8. CASE Policy(p)
  <2>1. work' \in [Procs -> Work]
    BY <1>2, <1>8 DEF Policy, Keeps, Work
  <2>2. pc' \in [Procs -> TypedSteps]
    BY <1>8 DEF Policy, At, Goes, TypedSteps, Steps, Ended
  <2>3. findings' \in [Runs -> Findings \cup {NoFinding}]
    BY <1>8 DEF Policy
  <2> QED BY <1>8, <2>1, <2>2, <2>3 DEF Policy, At, TypedSteps
<1> QED BY <1>3, <1>4, <1>5, <1>6, <1>7, <1>8, Localize(p) DEF Localize

\* Only the processes that step change what they have in memory.
LEMMA OthersKeep ==
  ASSUME DerivedTypeOK, NEW p \in Procs, Compare(p) \/ Localize(p) \/ Crash(p),
         NEW q \in Procs \ {p}
  PROVE  pc'[q] = pc[q] /\ work'[q] = work[q]
<1> USE DEF DerivedTypeOK
<1>1. CASE Compare(p)
  BY <1>1 DEF Compare, Pick, Base, Check, Cache, Recheck, ReadBase, ReadTarget, PairOpen,
              PairWrite, View, At, Goes, Keeps
<1>2. CASE Localize(p)
  BY <1>2 DEF Localize, LocCheck, LocProbe, LocRead, LocCov, LocReg, LocWrite, Policy, At,
              Goes, Keeps
<1>3. CASE Crash(p)
  BY <1>3 DEF Crash, Goes
<1> QED BY <1>1, <1>2, <1>3

\* The verbs of a client have no further stages.
LEMMA ClientEnds ==
  ASSUME NEW p \in Procs
  PROVE  /\ NoRegression(p) \in {"view"} \cup Ended \cup IF p \in Clients THEN {} ELSE Firsts
         /\ HasRegression(p) \in {"view"} \cup Ended \cup IF p \in Clients THEN {} ELSE Firsts
         /\ NoFacts(p) \in Ended \cup IF p \in Clients THEN {} ELSE Firsts
         /\ Localized(p) \in {"policy"} \cup Ended \cup IF p \in Clients THEN {} ELSE Firsts
<1>1. CASE p \in Clients
  BY <1>1 DEF NoRegression, HasRegression, NoFacts, Localized, Then, Ended
<1>2. CASE p \notin Clients
  BY <1>2, ThenStep DEF NoRegression, HasRegression, NoFacts, Localized, Ended
<1> QED BY <1>1, <1>2

\* A comparison keeps what it relies on.
LEMMA CompareKeepsWorkInv ==
  ASSUME DerivedTypeOK, NEW p \in Procs, WorkInv(p), Compare(p)
  PROVE  WorkInv(p)'
<1> USE DEF WorkInv, At, Goes, Steps
<1>0. work[p] \in Work /\ pc[p] \in TypedSteps
  BY DEF DerivedTypeOK, TypedSteps
<1>p. p \in Clients \/ p \in Runs
  BY DEF Procs
<1>1. DOMAIN pc = Procs /\ DOMAIN work = Procs
  BY DEF DerivedTypeOK
<1>2. CASE Pick(p)
  <2>1. CASE Cardinality(Live) < 2
    BY <1>0, <1>1, <1>p, <1>2, <2>1, ClientEnds DEF Pick, Keeps, Ended, Firsts
  <2>2. CASE ~(Cardinality(Live) < 2)
    <3>1. Max(Live) \in Runs
      BY <2>2, LatestIsRun, FS_EmptySet
    <3> QED BY <1>0, <1>1, <1>2, <2>2, <3>1 DEF Pick, Keeps, Work
  <2> QED BY <2>1, <2>2
<1>3. CASE Base(p)
  <2> DEFINE found == Baselines(work[p].target)
  <2>1. work[p].target \in Runs
    BY <1>3 DEF Base
  <2>2. CASE found = {}
    BY <1>0, <1>1, <1>p, <1>3, <2>1, <2>2, ClientEnds DEF Base, Keeps, Ended, Firsts
  <2>3. CASE found # {}
    <3>1. Max(found) \in Runs
      BY <2>1, <2>3, LatestIsRun
    <3> QED BY <1>0, <1>1, <1>3, <2>1, <2>3, <3>1 DEF Base, Keeps, Work
  <2> QED BY <2>2, <2>3
<1>4. CASE Check(p) \/ Recheck(p) \/ PairOpen(p)
  BY <1>0, <1>1, <1>p, <1>4, ClientEnds
  DEF Check, Recheck, PairOpen, facts, Ended, Firsts
<1>9. CASE View(p)
  <2>1. \A d : [work[p] EXCEPT !.delta = d].target = work[p].target
    BY <1>0 DEF Work
  <2> QED BY <1>1, <1>9, <2>1 DEF View, Keeps, Ended
<1>5. CASE Cache(p)
  <2> DEFINE new == pairs[Pair(p)]
  <2>1. [work[p] EXCEPT !.regression = new].target = work[p].target
        /\ [work[p] EXCEPT !.regression = new].baseline = work[p].baseline
    BY <1>0 DEF Work
  <2>2. /\ work'[p] = IF new \in {"bare", "delta"}
                      THEN [work[p] EXCEPT !.regression = new] ELSE work[p]
        /\ pc'[p] = IF new \in {"bare", "delta"} THEN HasRegression(p) ELSE "recheck"
        /\ pc[p] = "cache"
    BY <1>1, <1>5 DEF Cache, Keeps
  <2> HIDE DEF new
  <2> QED BY <1>p, <2>1, <2>2, ClientEnds DEF Ended, Firsts
<1>6. CASE ReadBase(p)
  <2>1. cov[work[p].baseline] \in {"none", "torn", "ok"}
    BY <1>6 DEF ReadBase, DerivedTypeOK
  <2> QED BY <1>0, <1>1, <1>6, <2>1 DEF ReadBase, Keeps, Work
<1>7. CASE ReadTarget(p)
  <2>1. \A v : [work[p] EXCEPT !.change = v].target = work[p].target
    BY <1>0 DEF Work
  <2> QED BY <1>1, <1>7, <2>1 DEF ReadTarget, Keeps
<1>8. CASE PairWrite(p)
  <2>1. \A v : [work[p] EXCEPT !.regression = v].target = work[p].target
    BY <1>0 DEF Work
  <2> QED BY <1>1, <1>p, <1>8, <2>1, ClientEnds DEF PairWrite, Keeps, Ended, Firsts
<1> QED BY <1>2, <1>3, <1>4, <1>5, <1>6, <1>7, <1>8, <1>9, Compare(p) DEF Compare

\* A localization keeps what it relies on.
LEMMA LocalizeKeepsWorkInv ==
  ASSUME DerivedTypeOK, NEW p \in Procs, WorkInv(p), Localize(p)
  PROVE  WorkInv(p)'
<1> USE DEF WorkInv, At, Goes, Steps
<1>0. work[p] \in Work
  BY DEF DerivedTypeOK
<1>p. p \in Clients \/ p \in Runs
  BY DEF Procs
<1>1. DOMAIN pc = Procs /\ DOMAIN work = Procs
  BY DEF DerivedTypeOK
<1>2. CASE LocCheck(p) \/ LocProbe(p)
  <2>1. CASE LocCheck(p)
    BY <1>1, <1>p, <2>1, ClientEnds DEF LocCheck, facts, Ended, Firsts
  <2>2. CASE LocProbe(p)
    BY <1>1, <1>p, <2>2, ClientEnds DEF LocProbe, facts, Ended, Firsts
  <2> QED
    BY <1>2, <2>1, <2>2
<1>3. \A v : [work[p] EXCEPT !.finding = v].target = work[p].target
  BY <1>0 DEF Work
<1>4. CASE LocRead(p) \/ LocWrite(p)
  <2>1. CASE LocRead(p)
    BY <1>1, <1>p, <1>3, <2>1, ClientEnds DEF LocRead, Keeps, Ended, Firsts
  <2>2. CASE LocWrite(p)
    BY <1>1, <1>p, <1>3, <2>2, ClientEnds DEF LocWrite, Keeps, Ended, Firsts
  <2> QED
    BY <1>4, <2>1, <2>2
<1>5. CASE LocCov(p)
  <2>1. \A v : /\ [work[p] EXCEPT !.mode = v].target = work[p].target
               /\ [work[p] EXCEPT !.mode = v].mode = v
    BY <1>0 DEF Work
  <2> QED BY <1>1, <1>p, <1>5, <2>1, ClientEnds, ModeIsTyped DEF LocCov, Keeps, Ended, Firsts
<1>6. CASE LocReg(p)
  <2>1. \A v : /\ [work[p] EXCEPT !.weighed = v].target = work[p].target
               /\ [work[p] EXCEPT !.weighed = v].mode = work[p].mode
    BY <1>0 DEF Work
  <2> QED BY <1>1, <1>6, <2>1 DEF LocReg, Keeps
<1>7. CASE Policy(p)
  <2>1. [work[p] EXCEPT !.again = TRUE, !.finding = NoFinding].target = work[p].target
    BY <1>0 DEF Work
  <2> QED BY <1>1, <1>7, <2>1 DEF Policy, Keeps
<1> QED BY <1>2, <1>4, <1>5, <1>6, <1>7, Localize(p) DEF Localize

TypedInv == DerivedTypeOK /\ \A p \in Procs : WorkInv(p)

\* Typing together with what the steps rely on is inductive.
LEMMA TypedInvInit == Init => TypedInv
<1> SUFFICES ASSUME Init, NEW p \in Procs PROVE WorkInv(p)
  BY InitIsTyped DEF TypedInv
<1>1. pc[p] \in {"done", "idle"}
  BY DEF Init
<1>2. p \in Runs => work[p].target = p
  BY DEF Init, FreshWork
<1> QED BY <1>1, <1>2 DEF WorkInv, Steps

\* Every step keeps the state typed and what the steps rely on.
LEMMA TypedInvStep == TypedInv /\ [Next]_vars => TypedInv'
<1> SUFFICES ASSUME TypedInv, [Next]_vars PROVE TypedInv'
  OBVIOUS
<1> USE DEF TypedInv
<1>0. /\ DOMAIN pc = Procs /\ DOMAIN work = Procs
      /\ \A p \in Procs : pc[p] \in TypedSteps /\ work[p] \in Work
      /\ Runs \subseteq Procs /\ Clients \subseteq Procs /\ Runs \subseteq 0..N
  <2>1. Runs \subseteq 0..N
    BY FactsConstants DEF Runs
  <2>2. Runs \subseteq Procs /\ Clients \subseteq Procs
    BY DEF Procs
  <2> QED BY <2>1, <2>2 DEF DerivedTypeOK, TypedSteps
<1>1. ASSUME NEW r \in Runs, BeginRun(r) PROVE TypedInv'
  <2>1. PICK verb \in {"run", "coverage", "test"} :
          Begin(r, "store", FreshWork(verb, 0, r, Default))
    BY <1>1 DEF BeginRun
  <2> DEFINE w == FreshWork(verb, 0, r, Default)
  <2>2. w \in Work /\ w.target = r
    BY <1>0, FreshIsTyped, DefaultIsTyped, FactsConstants DEF Verbs, FreshWork
  <2> HIDE DEF w
  <2>3. DerivedTypeOK'
    BY <1>0, <2>1, <2>2, BeginIsTyped DEF Steps, w
  <2>4. \A p \in Procs : WorkInv(p)'
    BY <1>0, <2>1, <2>2 DEF Begin, Goes, Keeps, WorkInv, w
  <2> QED BY <2>3, <2>4
<1>2. ASSUME NEW r \in Runs, Recorder(r) \/ Delete(r) PROVE TypedInv'
  <2>1. DerivedTypeOK'
    BY <1>2, RecorderIsTyped
  <2>2. Then(r, "store", "done") \in Firsts \cup Ended /\ Then(r, "derive", "done") \in Firsts \cup Ended
    BY <1>0, ThenStep DEF Ended
  <2>3. /\ UNCHANGED work
        /\ pc'[r] \in Firsts \cup Ended \cup {"cov_open", "cov_write"} \/ UNCHANGED pc
        /\ \A q \in Procs \ {r} : pc'[q] = pc[q]
    BY <1>0, <1>2, <2>2 DEF Recorder, Delete, Store, Derive, CovOpen, CovWrite, At, Goes, facts
  <2>4. ASSUME NEW p \in Procs PROVE WorkInv(p)'
    BY <2>3 DEF WorkInv, Firsts, Ended
  <2> QED BY <2>1, <2>4
<1>3. ASSUME NEW c \in Clients, BeginClient(c) PROVE TypedInv'
  <2>1. PICK b \in 0..N, t \in 0..N, verb \in Verbs, fl \in Flags,
             step \in {"check", "pick", "loc_check"} :
          /\ Begin(c, step, FreshWork(verb, b, t, fl))
          /\ step = "check" => b \in Runs
          /\ step # "pick" => t \in Runs
    <3>1. CASE \E b, t \in Runs, verb \in {"compare", "regression"} :
                 Begin(c, "check", FreshWork(verb, b, t, Default))
      BY <1>0, <3>1, DefaultIsTyped DEF Verbs
    <3>2. CASE Begin(c, "pick", FreshWork("latest", 0, 0, Default))
      BY <3>2, DefaultIsTyped, FactsConstants DEF Verbs
    <3>3. CASE \E t \in Runs, fl \in Flags :
                 Begin(c, "loc_check", FreshWork("localize", 0, t, fl))
      BY <1>0, <3>3, FactsConstants DEF Verbs
    <3> QED BY <1>3, <3>1, <3>2, <3>3 DEF BeginClient
  <2> DEFINE w == FreshWork(verb, b, t, fl)
  <2>2. w \in Work /\ w.target = t /\ w.baseline = b
    BY FreshIsTyped DEF FreshWork
  <2> HIDE DEF w
  <2>3. DerivedTypeOK'
    BY <1>0, <2>1, <2>2, BeginIsTyped DEF Steps, w
  <2>4. c \notin Runs
    BY FactsConstants
  <2>5. \A p \in Procs : WorkInv(p)'
    BY <1>0, <2>1, <2>2, <2>4 DEF Begin, Goes, Keeps, WorkInv, w
  <2> QED BY <2>3, <2>5
<1>4. ASSUME NEW p \in Procs, Compare(p) \/ Localize(p) PROVE TypedInv'
  <2>1. DerivedTypeOK' /\ WorkInv(p)'
    BY <1>4, CompareIsTyped, LocalizeIsTyped, CompareKeepsWorkInv, LocalizeKeepsWorkInv
  <2>2. \A q \in Procs \ {p} : WorkInv(q)'
    BY <1>4, OthersKeep DEF WorkInv
  <2> QED BY <2>1, <2>2
<1>5. ASSUME NEW p \in Procs, Crash(p) PROVE TypedInv'
  <2>1. DerivedTypeOK'
    BY <1>5 DEF Crash, Goes, facts, DerivedTypeOK, Ledger!LedgerTypeOK, Ended
  <2>2. \A q \in Procs : WorkInv(q)'
    <3>1. UNCHANGED work /\ pc' = [pc EXCEPT ![p] = "crashed"]
      BY <1>5 DEF Crash, Goes
    <3> QED BY <1>0, <3>1 DEF WorkInv, Steps
  <2> QED BY <2>1, <2>2
<1>6. CASE UNCHANGED vars
  BY <1>6 DEF vars, DerivedTypeOK, Ledger!LedgerTypeOK, WorkInv
<1> QED BY <1>1, <1>2, <1>3, <1>4, <1>5, <1>6 DEF Next

\* Typing and what the steps rely on, in every behaviour.
LEMMA TypedInvHolds == Spec => []TypedInv
BY TypedInvInit, TypedInvStep, PTL DEF Spec

\* Every verb keeps every cache and its own memory typed, whatever it finds in
\* the caches of the others.
THEOREM DerivedTypeOKHolds == Spec => []DerivedTypeOK
BY TypedInvHolds, PTL DEF TypedInv

(***************************************************************************)
(* Deleted runs                                                            *)
(***************************************************************************)

\* The evidence of a run that was deleted stays deleted.
LEMMA TombstonesStay ==
  ASSUME DerivedTypeOK, [Next]_vars, NEW r \in Runs, status[r] = "tombstoned"
  PROVE  status'[r] = "tombstoned"
<1> USE DEF DerivedTypeOK, Ledger!LedgerTypeOK
<1>1. ASSUME NEW q \in Runs, Recorder(q) PROVE status'[r] = "tombstoned"
  BY <1>1 DEF Recorder, Store, Derive, CovOpen, CovWrite, facts, Ledger!Record
<1>2. ASSUME NEW q \in Runs, Delete(q) PROVE status'[r] = "tombstoned"
  BY <1>2 DEF Delete, Ledger!Tombstone
<1>3. ASSUME NEW q \in Runs, BeginRun(q) PROVE UNCHANGED status
  BY <1>3 DEF BeginRun, Begin, facts
<1>4. ASSUME NEW c \in Clients, BeginClient(c) PROVE UNCHANGED status
  BY <1>4 DEF BeginClient, Begin, facts
<1>5. ASSUME NEW p \in Procs, Compare(p) PROVE UNCHANGED status
  BY <1>5 DEF Compare, Pick, Base, Check, Cache, Recheck, ReadBase, ReadTarget,
              PairOpen, PairWrite, View, facts
<1>6. ASSUME NEW p \in Procs, Localize(p) PROVE UNCHANGED status
  BY <1>6 DEF Localize, LocCheck, LocProbe, LocRead, LocCov, LocReg, LocWrite, Policy,
              facts
<1>7. ASSUME NEW p \in Procs, Crash(p) PROVE UNCHANGED status
  BY <1>7 DEF Crash, facts
<1> QED BY <1>1, <1>2, <1>3, <1>4, <1>5, <1>6, <1>7 DEF Next, vars

\* A verb whose subject was deleted before it began never gets past its look
\* at the evidence; it still has nothing to answer with.
DoomedInv(c) ==
  work[c].doomed =>
    /\ work[c].regression = "none" /\ work[c].finding = NoFinding
    /\ work[c].delta \/ pc[c] = "view" => work[c].verb = "compare"
    /\ pc[c] \in {"check", "loc_check", "view"} \cup Ended
    /\ pc[c] = "check" =>
         \E r \in {work[c].baseline, work[c].target} \cap Runs : status[r] = "tombstoned"
    /\ pc[c] = "loc_check" =>
         work[c].target \in Runs /\ status[work[c].target] = "tombstoned"

\* At the start no verb has begun.
LEMMA DoomedInvInit == Init => \A c \in Clients : DoomedInv(c)
<1> SUFFICES ASSUME Init, NEW c \in Clients PROVE DoomedInv(c)
  OBVIOUS
<1>1. c \in Procs /\ c \notin Runs
  BY FactsConstants DEF Procs
<1>2. work[c] = FreshWork("run", 0, 0, Default)
  BY <1>1 DEF Init
<1>3. 0 \notin Runs
  BY FactsConstants DEF Runs
<1>4. ~work[c].doomed
  BY <1>2, <1>3 DEF FreshWork
<1> QED BY <1>4 DEF DoomedInv

\* No step gives a verb about a deleted run anything to answer with.
LEMMA DoomedInvStep ==
  ASSUME TypedInv, [Next]_vars, NEW c \in Clients, DoomedInv(c)
  PROVE  DoomedInv(c)'
<1>0. /\ DerivedTypeOK /\ c \in Procs /\ c \notin Runs
      /\ DOMAIN pc = Procs /\ DOMAIN work = Procs
      /\ work[c] \in Work
  BY FactsConstants DEF TypedInv, DerivedTypeOK, Procs
<1>1. \A r \in Runs : status[r] = "tombstoned" => status'[r] = "tombstoned"
  BY <1>0, TombstonesStay
\* Steps of anybody else leave c where it is.
<1>2. ASSUME pc'[c] = pc[c], work'[c] = work[c] PROVE DoomedInv(c)'
  BY <1>1, <1>2 DEF DoomedInv
<1>3. ASSUME NEW r \in Runs, BeginRun(r) \/ Recorder(r) \/ Delete(r) PROVE DoomedInv(c)'
  <2>1. pc'[c] = pc[c] /\ work'[c] = work[c]
    BY <1>0, <1>3 DEF BeginRun, Begin, Recorder, Delete, Store, Derive, CovOpen, CovWrite,
                      At, Goes, Keeps, facts
  <2> QED BY <1>2, <2>1
<1>4. ASSUME NEW d \in Clients, BeginClient(d) PROVE DoomedInv(c)'
  <2>1. CASE d # c
    <3>1. pc'[c] = pc[c] /\ work'[c] = work[c]
      BY <1>0, <1>4, <2>1 DEF BeginClient, Begin, Goes, Keeps
    <3> QED BY <1>2, <3>1
  <2>2. CASE d = c
    <3>1. CASE \E b, t \in Runs, verb \in {"compare", "regression"} :
                 Begin(c, "check", FreshWork(verb, b, t, Default))
      BY <1>0, <3>1 DEF Begin, Goes, Keeps, FreshWork, DoomedInv, facts
    <3>2. CASE Begin(c, "pick", FreshWork("latest", 0, 0, Default))
      <4>1. 0 \notin Runs
        BY FactsConstants DEF Runs
      <4> QED BY <1>0, <3>2, <4>1 DEF Begin, Goes, Keeps, FreshWork, DoomedInv
    <3>3. CASE \E t \in Runs, fl \in Flags :
                 Begin(c, "loc_check", FreshWork("localize", 0, t, fl))
      <4>1. 0 \notin Runs
        BY FactsConstants DEF Runs
      <4> QED BY <1>0, <3>3, <4>1 DEF Begin, Goes, Keeps, FreshWork, DoomedInv, facts
    <3> QED BY <1>4, <2>2, <3>1, <3>2, <3>3 DEF BeginClient
  <2> QED BY <2>1, <2>2
<1>5. ASSUME NEW p \in Procs, p # c, Compare(p) \/ Localize(p) \/ Crash(p)
      PROVE  DoomedInv(c)'
  BY <1>0, <1>2, <1>5, OthersKeep
<1>6. CASE Compare(c)
  <2>1. ASSUME work[c].doomed PROVE DoomedInv(c)'
    <3>1. CASE Check(c)
      <4>1. Tombstoned(c) /\ UNCHANGED <<facts, work>>
        BY <2>1, <3>1 DEF Check, At, DoomedInv, Tombstoned
      <4>2. pc'[c] = NoRegression(c)
        BY <1>0, <3>1, <4>1 DEF Check, At, Goes
      <4>3. NoRegression(c) \in {"view", "refused"}
            /\ (NoRegression(c) = "view" => work[c].verb = "compare")
        BY DEF NoRegression, Then
      <4> QED BY <1>0, <2>1, <4>1, <4>2, <4>3 DEF DoomedInv, Ended
    <3>2. CASE View(c)
      <4>1. pc[c] = "view" /\ pc'[c] \in {"died", "done"}
            /\ \E d : work'[c] = [work[c] EXCEPT !.delta = d]
        BY <1>0, <3>2 DEF View, At, Goes, Keeps
      <4>2. \A d : LET w == [work[c] EXCEPT !.delta = d]
                   IN  /\ w.regression = work[c].regression /\ w.finding = work[c].finding
                       /\ w.verb = work[c].verb
        BY <1>0 DEF Work
      <4> QED BY <2>1, <4>1, <4>2 DEF DoomedInv, Ended
    <3>3. Check(c) \/ View(c)
      BY <1>6, <2>1 DEF Compare, DoomedInv, Ended, Pick, Base, Cache, Recheck, ReadBase,
                        ReadTarget, PairOpen, PairWrite, At
    <3> QED BY <3>1, <3>2, <3>3
  <2>2. ASSUME ~work[c].doomed PROVE DoomedInv(c)'
    <3>1. ~work'[c].doomed
      <4>1. \A v : /\ [work[c] EXCEPT !.target = v].doomed = work[c].doomed
                   /\ [work[c] EXCEPT !.baseline = v].doomed = work[c].doomed
                   /\ [work[c] EXCEPT !.change = v].doomed = work[c].doomed
                   /\ [work[c] EXCEPT !.regression = v].doomed = work[c].doomed
                   /\ [work[c] EXCEPT !.delta = v].doomed = work[c].doomed
        BY <1>0 DEF Work
      <4>2. CASE Pick(c)
        BY <1>0, <2>2, <4>1, <4>2 DEF Pick, Keeps
      <4>3. CASE Base(c)
        BY <1>0, <2>2, <4>1, <4>3 DEF Base, Keeps
      <4>4. CASE Check(c) \/ Recheck(c) \/ PairOpen(c)
        BY <1>0, <2>2, <4>1, <4>4 DEF Check, Recheck, PairOpen, facts
      <4>9. CASE View(c)
        BY <1>0, <2>2, <4>1, <4>9 DEF View, Keeps
      <4>5. CASE Cache(c)
        BY <1>0, <2>2, <4>1, <4>5 DEF Cache, Keeps
      <4>6. CASE ReadBase(c)
        BY <1>0, <2>2, <4>1, <4>6 DEF ReadBase, Keeps
      <4>7. CASE ReadTarget(c)
        BY <1>0, <2>2, <4>1, <4>7 DEF ReadTarget, Keeps
      <4>8. CASE PairWrite(c)
        BY <1>0, <2>2, <4>1, <4>8 DEF PairWrite, Keeps
      <4> QED BY <1>6, <4>2, <4>3, <4>4, <4>5, <4>6, <4>7, <4>8, <4>9 DEF Compare
    <3> QED BY <3>1 DEF DoomedInv
  <2> QED BY <2>1, <2>2
<1>7. CASE Localize(c)
  <2>1. ASSUME work[c].doomed PROVE DoomedInv(c)'
    <3>1. LocCheck(c)
      BY <1>7, <2>1 DEF Localize, DoomedInv, Ended, LocProbe, LocRead, LocCov, LocReg,
                        LocWrite, Policy, At
    <3>2. pc'[c] = NoFacts(c) /\ UNCHANGED <<facts, work>>
      BY <1>0, <2>1, <3>1 DEF LocCheck, At, Goes, DoomedInv
    <3> QED BY <1>0, <2>1, <3>2, ClientEnds DEF DoomedInv, Ended
  <2>2. ASSUME ~work[c].doomed PROVE DoomedInv(c)'
    <3>1. ~work'[c].doomed
      <4>1. /\ \A v : /\ [work[c] EXCEPT !.finding = v].doomed = work[c].doomed
                      /\ [work[c] EXCEPT !.mode = v].doomed = work[c].doomed
                      /\ [work[c] EXCEPT !.weighed = v].doomed = work[c].doomed
            /\ [work[c] EXCEPT !.again = TRUE, !.finding = NoFinding].doomed
                 = work[c].doomed
        BY <1>0 DEF Work
      <4>2. CASE LocCheck(c) \/ LocProbe(c)
        BY <1>0, <2>2, <4>1, <4>2 DEF LocCheck, LocProbe, facts
      <4>3. CASE LocRead(c)
        BY <1>0, <2>2, <4>1, <4>3 DEF LocRead, Keeps
      <4>4. CASE LocCov(c)
        BY <1>0, <2>2, <4>1, <4>4 DEF LocCov, Keeps
      <4>5. CASE LocReg(c)
        BY <1>0, <2>2, <4>1, <4>5 DEF LocReg, Keeps
      <4>6. CASE LocWrite(c)
        BY <1>0, <2>2, <4>1, <4>6 DEF LocWrite, Keeps
      <4>7. CASE Policy(c)
        BY <1>0, <2>2, <4>1, <4>7 DEF Policy, Keeps
      <4> QED BY <1>7, <4>2, <4>3, <4>4, <4>5, <4>6, <4>7 DEF Localize
    <3> QED BY <3>1 DEF DoomedInv
  <2> QED BY <2>1, <2>2
<1>8. CASE Crash(c)
  BY <1>0, <1>8 DEF Crash, Goes, facts, DoomedInv, Ended
<1>9. CASE UNCHANGED vars
  BY <1>2, <1>9 DEF vars
<1> QED BY <1>3, <1>4, <1>5, <1>6, <1>7, <1>8, <1>9 DEF Next

\* Tombstoning is fail-hard regardless of cache existence: no compare,
\* regression or localize answers with regression facts or a finding about a run
\* deleted before it began, whatever other verbs, deletes and crashes do
\* meanwhile; nothing but the coverage delta of `compare` is left to answer with.
THEOREM RefusesDeletedHolds == Spec => []RefusesDeleted
<1> DEFINE Inv == TypedInv /\ \A c \in Clients : DoomedInv(c)
<1>1. Init => Inv
  BY TypedInvInit, DoomedInvInit
<1>2. Inv /\ [Next]_vars => Inv'
  BY TypedInvStep, DoomedInvStep
<1>3. Inv => RefusesDeleted
  BY DEF DoomedInv, RefusesDeleted
<1> QED BY <1>1, <1>2, <1>3, PTL DEF Spec

(***************************************************************************)
(* Findings of an earlier release                                          *)
(***************************************************************************)

\* Nobody puts a finding without the exclusion basis into the cache.
LEMMA FindingsRenew ==
  ASSUME DerivedTypeOK, [Next]_vars, NEW r \in Runs
  PROVE  findings'[r] = findings[r] \/ findings'[r] = NoFinding \/ findings'[r].has_basis
<1> USE DEF DerivedTypeOK
<1>1. ASSUME NEW q \in Runs, BeginRun(q) \/ Recorder(q) \/ Delete(q)
      PROVE  UNCHANGED findings
  BY <1>1 DEF BeginRun, Begin, Recorder, Delete, Store, Derive, CovOpen, CovWrite, facts
<1>2. ASSUME NEW c \in Clients, BeginClient(c) PROVE UNCHANGED findings
  BY <1>2 DEF BeginClient, Begin, facts
<1>3. ASSUME NEW p \in Procs, Compare(p) \/ Crash(p) PROVE UNCHANGED findings
  BY <1>3 DEF Compare, Pick, Base, Check, Cache, Recheck, ReadBase, ReadTarget,
              PairOpen, PairWrite, View, Crash, facts
<1>4. ASSUME NEW p \in Procs, Localize(p), ~LocWrite(p), ~Policy(p)
      PROVE  UNCHANGED findings
  BY <1>4 DEF Localize, LocCheck, LocProbe, LocRead, LocCov, LocReg, facts
<1>5. ASSUME NEW p \in Procs, LocWrite(p)
      PROVE  findings'[r] = findings[r] \/ findings'[r].has_basis
  <2> DEFINE new == Finding(work[p].mode, work[p].flags, TRUE, work[p].weighed)
  <2>1. new.has_basis
    BY DEF Finding
  <2>2. findings' = [findings EXCEPT ![work[p].target] = new]
    BY <1>5 DEF LocWrite
  <2> HIDE DEF new
  <2> QED BY <2>1, <2>2
<1>6. ASSUME NEW p \in Procs, Policy(p)
      PROVE  findings'[r] = findings[r] \/ findings'[r] = NoFinding
  BY <1>6 DEF Policy
<1> QED BY <1>1, <1>2, <1>3, <1>4, <1>5, <1>6 DEF Next, vars

LocalizeSteps == {"loc_check", "loc_probe", "loc_read", "loc_cov", "loc_reg", "loc_write",
                  "policy"}

\* A localize that derived for the second time has met no finding of an earlier
\* release since it removed the first, and no other verb has findings.
RenewedInv(c) ==
  LET w == work[c]
  IN  /\ w.again =>
           /\ pc[c] \in LocalizeSteps \cup Ended
           /\ w.target \in Runs
           /\ findings[w.target] = NoFinding \/ findings[w.target].has_basis
      /\ w.finding # NoFinding => pc[c] \in {"policy"} \cup Ended
      /\ pc[c] = "policy" /\ w.again /\ w.finding # NoFinding => w.finding.has_basis
      /\ pc[c] = "done" /\ w.finding # NoFinding => ~Stale(w.finding)

\* A finding the policy returns as it is was not derived by an earlier release.
LEMMA HonouredIsNotStale ==
  \A f, fl : Honours(f, fl) => ~Stale(f)
  BY DEF Honours, Stale, IsSbfl

\* At the start no verb has a finding.
LEMMA RenewedInvInit == Init => \A c \in Clients : RenewedInv(c)
<1> SUFFICES ASSUME Init, NEW c \in Clients PROVE RenewedInv(c)
  OBVIOUS
<1>1. work[c] = FreshWork("run", 0, 0, Default)
  BY FactsConstants DEF Init, Procs
<1>2. ~work[c].again /\ work[c].finding = NoFinding
  BY <1>1 DEF FreshWork
<1> QED BY <1>2 DEF RenewedInv

\* No step lets a localize return with a finding of an earlier release.
LEMMA RenewedInvStep ==
  ASSUME TypedInv, [Next]_vars, NEW c \in Clients, RenewedInv(c)
  PROVE  RenewedInv(c)'
<1>0. /\ DerivedTypeOK /\ WorkInv(c) /\ c \in Procs /\ c \notin Runs
      /\ DOMAIN pc = Procs /\ DOMAIN work = Procs
      /\ work[c] \in Work
  BY FactsConstants DEF TypedInv, DerivedTypeOK, Procs
<1>1. \A r \in Runs :
        findings'[r] = findings[r] \/ findings'[r] = NoFinding \/ findings'[r].has_basis
  BY <1>0, FindingsRenew
<1>2. ASSUME pc'[c] = pc[c], work'[c] = work[c] PROVE RenewedInv(c)'
  BY <1>1, <1>2 DEF RenewedInv, Stale
<1>3. ASSUME NEW r \in Runs, BeginRun(r) \/ Recorder(r) \/ Delete(r) PROVE RenewedInv(c)'
  <2>1. pc'[c] = pc[c] /\ work'[c] = work[c]
    BY <1>0, <1>3 DEF BeginRun, Begin, Recorder, Delete, Store, Derive, CovOpen, CovWrite,
                      At, Goes, Keeps, facts
  <2> QED BY <1>2, <2>1
<1>4. ASSUME NEW d \in Clients, BeginClient(d) PROVE RenewedInv(c)'
  <2>1. CASE d # c
    <3>1. pc'[c] = pc[c] /\ work'[c] = work[c]
      BY <1>0, <1>4, <2>1 DEF BeginClient, Begin, Goes, Keeps
    <3> QED BY <1>2, <3>1
  <2>2. CASE d = c
    <3>1. ~work'[c].again /\ work'[c].finding = NoFinding
      BY <1>0, <1>4, <2>2 DEF BeginClient, Begin, Keeps, FreshWork
    <3> QED BY <3>1 DEF RenewedInv
  <2> QED BY <2>1, <2>2
<1>5. ASSUME NEW p \in Procs, p # c, Compare(p) \/ Localize(p) \/ Crash(p)
      PROVE  RenewedInv(c)'
  BY <1>0, <1>2, <1>5, OthersKeep
\* A comparison has no finding and no second derivation.
<1>6. CASE Compare(c)
  <2>0. work[c].finding = NoFinding /\ ~work[c].again
    BY <1>6 DEF Compare, RenewedInv, LocalizeSteps, Ended, Pick, Base, Check, Cache, Recheck,
                ReadBase, ReadTarget, PairOpen, PairWrite, View, At
  <2> SUFFICES work'[c].finding = NoFinding /\ ~work'[c].again
    BY DEF RenewedInv
  <2>1. \A v : /\ [work[c] EXCEPT !.target = v].finding = work[c].finding
               /\ [work[c] EXCEPT !.target = v].again = work[c].again
               /\ [work[c] EXCEPT !.baseline = v].finding = work[c].finding
               /\ [work[c] EXCEPT !.baseline = v].again = work[c].again
               /\ [work[c] EXCEPT !.change = v].finding = work[c].finding
               /\ [work[c] EXCEPT !.change = v].again = work[c].again
               /\ [work[c] EXCEPT !.regression = v].finding = work[c].finding
               /\ [work[c] EXCEPT !.regression = v].again = work[c].again
               /\ [work[c] EXCEPT !.delta = v].finding = work[c].finding
               /\ [work[c] EXCEPT !.delta = v].again = work[c].again
    BY <1>0 DEF Work
  <2>2. CASE Pick(c)
    BY <1>0, <2>0, <2>1, <2>2 DEF Pick, Keeps
  <2>3. CASE Base(c)
    BY <1>0, <2>0, <2>1, <2>3 DEF Base, Keeps
  <2>4. CASE Check(c) \/ Recheck(c) \/ PairOpen(c)
    BY <1>0, <2>0, <2>1, <2>4 DEF Check, Recheck, PairOpen, facts
  <2>9. CASE View(c)
    BY <1>0, <2>0, <2>1, <2>9 DEF View, Keeps
  <2>5. CASE Cache(c)
    BY <1>0, <2>0, <2>1, <2>5 DEF Cache, Keeps
  <2>6. CASE ReadBase(c)
    BY <1>0, <2>0, <2>1, <2>6 DEF ReadBase, Keeps
  <2>7. CASE ReadTarget(c)
    BY <1>0, <2>0, <2>1, <2>7 DEF ReadTarget, Keeps
  <2>8. CASE PairWrite(c)
    BY <1>0, <2>0, <2>1, <2>8 DEF PairWrite, Keeps
  <2> QED BY <1>6, <2>2, <2>3, <2>4, <2>5, <2>6, <2>7, <2>8, <2>9 DEF Compare
<1>7. CASE Localize(c)
  <2>0. /\ NoFacts(c) \in Ended \ {"done"}
        /\ Localized(c) = "policy"
    BY <1>0 DEF NoFacts, Localized, Then, Ended
  <2>t. work[c].target \in Runs
    BY <1>0, <1>7 DEF Localize, LocCheck, LocProbe, LocRead, LocCov, LocReg, LocWrite, Policy,
                      At, WorkInv, Steps
  <2>2. CASE LocCheck(c) \/ LocProbe(c)
    BY <1>0, <1>1, <2>0, <2>2
    DEF LocCheck, LocProbe, At, Goes, facts, RenewedInv, LocalizeSteps, Ended
  <2>3. CASE LocRead(c)
    <3> DEFINE found == findings[work[c].target]
    <3>1. /\ work'[c] = [work[c] EXCEPT !.finding = found]
          /\ pc'[c] = IF found = NoFinding THEN "died" ELSE "policy"
          /\ UNCHANGED findings
      BY <1>0, <2>0, <2>3 DEF LocRead, At, Goes, Keeps, facts
    <3>2. /\ work'[c].finding = found /\ work'[c].target = work[c].target
          /\ work'[c].again = work[c].again
      <4> HIDE DEF found
      <4> QED BY <1>0, <3>1 DEF Work
    <3> QED BY <3>1, <3>2, <2>t DEF RenewedInv, LocalizeSteps, Ended
  <2>4. CASE LocCov(c)
    <3>1. \A v : LET w == [work[c] EXCEPT !.mode = v]
                 IN  w.finding = work[c].finding /\ w.again = work[c].again
                     /\ w.target = work[c].target
      BY <1>0 DEF Work
    <3>2. /\ work'[c].finding = work[c].finding /\ work'[c].again = work[c].again
          /\ work'[c].target = work[c].target
      BY <1>0, <2>4, <3>1 DEF LocCov, Keeps
    <3>3. pc[c] = "loc_cov" /\ pc'[c] \in {"loc_reg"} \cup (Ended \ {"done"})
          /\ UNCHANGED findings
      BY <1>0, <2>0, <2>4 DEF LocCov, At, Goes, facts, Ended
    <3> QED BY <3>2, <3>3 DEF RenewedInv, LocalizeSteps, Ended
  <2>5. CASE LocReg(c)
    <3>1. \A v : LET w == [work[c] EXCEPT !.weighed = v]
                 IN  w.finding = work[c].finding /\ w.again = work[c].again
                     /\ w.target = work[c].target
      BY <1>0 DEF Work
    <3>2. /\ work'[c].finding = work[c].finding /\ work'[c].again = work[c].again
          /\ work'[c].target = work[c].target
      BY <1>0, <2>5, <3>1 DEF LocReg, Keeps
    <3>3. pc[c] = "loc_reg" /\ pc'[c] = "loc_write" /\ UNCHANGED findings
      BY <1>0, <2>5 DEF LocReg, At, Goes, facts
    <3> QED BY <3>2, <3>3 DEF RenewedInv, LocalizeSteps, Ended
  <2>6. CASE LocWrite(c)
    <3> DEFINE new == Finding(work[c].mode, work[c].flags, TRUE, work[c].weighed)
    <3>1. new.has_basis
      BY DEF Finding
    <3>2. work'[c] = [work[c] EXCEPT !.finding = new]
      BY <1>0, <2>6 DEF LocWrite, Keeps
    <3> HIDE DEF new
    <3>3. /\ work'[c].finding = new /\ work'[c].target = work[c].target
          /\ work'[c].again = work[c].again
      BY <1>0, <3>2 DEF Work
    <3>4. pc'[c] = "policy"
      BY <1>0, <2>0, <2>6 DEF LocWrite, At, Goes
    <3>5. findings'[work[c].target] = findings[work[c].target]
          \/ findings'[work[c].target] = NoFinding \/ findings'[work[c].target].has_basis
      BY <1>1, <2>t
    <3> QED BY <2>t, <3>1, <3>3, <3>4, <3>5 DEF RenewedInv, LocalizeSteps
  <2>7. CASE Policy(c)
    <3> DEFINE keep == work[c].again \/ Honours(work[c].finding, work[c].flags)
    <3>1. CASE keep
      <4>1. /\ work'[c] = work[c] /\ pc[c] = "policy" /\ pc'[c] = "done"
            /\ findings' = findings
        BY <1>0, <2>7, <3>1 DEF Policy, At, Goes, Keeps
      <4>2. work[c].finding # NoFinding => ~Stale(work[c].finding)
        BY <3>1, <4>1, HonouredIsNotStale DEF RenewedInv, Stale
      <4> QED BY <4>1, <4>2 DEF RenewedInv, Ended
    <3>2. CASE ~keep
      <4>1. /\ work'[c] = [work[c] EXCEPT !.again = TRUE, !.finding = NoFinding]
            /\ pc'[c] = "loc_check"
            /\ findings' = [findings EXCEPT ![work[c].target] = NoFinding]
        BY <1>0, <2>7, <3>2 DEF Policy, At, Goes, Keeps
      <4>2. work'[c].finding = NoFinding /\ work'[c].target = work[c].target
        BY <1>0, <4>1 DEF Work
      <4>3. findings'[work[c].target] = NoFinding
        BY <1>0, <2>t, <4>1 DEF DerivedTypeOK
      <4> QED BY <2>t, <4>1, <4>2, <4>3 DEF RenewedInv, LocalizeSteps
    <3> QED BY <3>1, <3>2
  <2> QED BY <1>7, <2>2, <2>3, <2>4, <2>5, <2>6, <2>7 DEF Localize
<1>8. CASE Crash(c)
  BY <1>0, <1>1, <1>8 DEF Crash, Goes, facts, RenewedInv, Ended
<1>9. CASE UNCHANGED vars
  BY <1>2, <1>9 DEF vars
<1> QED BY <1>3, <1>4, <1>5, <1>6, <1>7, <1>8, <1>9 DEF Next

\* Whatever verbs, deletes and crashes surround it, localize never returns an
\* SBFL finding that a release before v0.3.0 derived.
THEOREM NoStaleBuildServedHolds == Spec => []NoStaleBuildServed
<1> DEFINE Inv == TypedInv /\ \A c \in Clients : RenewedInv(c)
<1>1. Init => Inv
  BY TypedInvInit, RenewedInvInit
<1>2. Inv /\ [Next]_vars => Inv'
  BY TypedInvStep, RenewedInvStep
<1>3. Inv => NoStaleBuildServed
  BY DEF RenewedInv, NoStaleBuildServed
<1> QED BY <1>1, <1>2, <1>3, PTL DEF Spec

(***************************************************************************)
(* Verbs that do not overlap                                               *)
(***************************************************************************)

\* Nothing a verb derives from the coverage facts of r is derived before this.
Settled(r) == pc[r] \notin {"idle", "store", "derive", "cov_open", "cov_write"}

\* Evidence is there once its recorder has stored it.
Evidenced == \A r \in Runs : status[r] # "absent" => pc[r] \notin {"idle", "store"}

Alone == \A p, q \in Procs : InFlight(p) /\ InFlight(q) => p = q

\* Cached pairs and findings were derived from settled runs.
PairFinal(b, t) ==
  /\ pairs[<<b, t>>] # "none"  => Settled(b) /\ Settled(t)
  /\ pairs[<<b, t>>] = "bare"  => cov[b] # "ok" \/ cov[t] # "ok"
  /\ pairs[<<b, t>>] = "delta" => cov[b] = "ok" /\ cov[t] = "ok"

FindingFinal(r) ==
  findings[r] # NoFinding =>
    /\ Settled(r)
    /\ cov[r] # "torn" /\ findings[r].mode = ModeOf(r)
    /\ findings[r].weighed => IsSbfl(findings[r].mode)

Comparing == {"check", "cache", "recheck", "read_base", "read_target", "pair_open",
              "pair_write"}
Localizing == {"loc_check", "loc_probe", "loc_read", "loc_cov", "loc_reg", "loc_write",
               "policy"}

\* What a comparison has decided agrees with the caches it has read.
ComparingInv(p) ==
  LET b == work[p].baseline
      t == work[p].target
  IN  /\ pc[p] \in Comparing => b \in Runs /\ Settled(b)
      /\ pc[p] \in {"recheck", "read_base", "read_target", "pair_open"} =>
           pairs[<<b, t>>] \in {"none", "torn"}
      /\ pc[p] = "pair_write" => pairs[<<b, t>>] = "torn"
      /\ pc[p] = "read_target" => cov[b] = "ok"
      /\ pc[p] \in {"pair_open", "pair_write"} =>
           \/ work[p].change = "bare"  /\ (cov[b] # "ok" \/ cov[t] # "ok")
           \/ work[p].change = "delta" /\ cov[b] = "ok" /\ cov[t] = "ok"

\* So has a localization.
LocalizingInv(p) ==
  LET t == work[p].target
  IN  /\ pc[p] \in {"loc_reg", "loc_write"} => cov[t] # "torn" /\ work[p].mode = ModeOf(t)
      /\ pc[p] = "loc_write" /\ work[p].weighed => IsSbfl(work[p].mode)

VerbInv(p) ==
  /\ p \in Runs /\ pc[p] \in {"store", "derive", "cov_open", "cov_write", "pick"} =>
       work[p].target = p
  /\ pc[p] \in {"base"} \cup Comparing \cup Localizing => Settled(work[p].target)
  /\ ComparingInv(p)
  /\ LocalizingInv(p)

\* A comparison that has an answer has the cached one; without one it has a reason.
HealInv(c) ==
  work[c].verb \in {"compare", "regression"} =>
    LET none == work[c].regression = "none"
        apart == Tombstoned(c) \/ ~SameEngine(work[c].baseline, work[c].target)
    IN  /\ work[c].baseline \in Runs /\ work[c].target \in Runs
        /\ pc[c] \in Comparing \cup {"view"} \cup Ended
        /\ pc[c] \in Comparing => none
        /\ pc[c] \in {"view", "refused", "done"} /\ none => apart
        /\ pc[c] \in {"view", "refused", "done"} /\ ~none => pairs[Pair(c)] = work[c].regression
        /\ pc[c] \in Comparing \cup {"view", "refused"} => ~work[c].delta
        /\ pc[c] = "done" /\ ~none /\ work[c].delta => work[c].regression = "delta"

SoloInv ==
  /\ Evidenced
  /\ ~overlapped =>
       /\ Alone
       /\ \A b, t \in Runs : PairFinal(b, t)
       /\ \A r \in Runs : FindingFinal(r)
       /\ \A p \in Procs : VerbInv(p)
       /\ \A c \in Clients : HealInv(c)

\* The stages of a verb, in their order.
LEMMA ThenNext ==
  ASSUME NEW p \in Procs, NEW ended \in Ended
  PROVE  /\ Then(p, "store", ended) \in {"derive"} \cup Ended
         /\ Then(p, "derive", ended) \in {"pick"} \cup Ended
         /\ Then(p, "pick", ended) \in {"loc_check"} \cup Ended
         /\ Then(p, "loc_check", ended) \in Ended
<1> DEFINE stages == StagesOf(work[p].verb)
           after(first) == {i \in 2..Len(stages) : stages[i - 1] = first}
<1>1. CASE p \in Clients
  BY <1>1 DEF Then
<1>2. CASE p \notin Clients
  <2>1. ASSUME NEW first, after(first) = {} PROVE Then(p, first, ended) \in Ended
    BY <1>2, <2>1 DEF Then, Ended
  <2>2. ASSUME NEW first, NEW i \in Nat, after(first) = {i}
        PROVE  Then(p, first, ended) = stages[i]
    <3>1. Min({i}) = i
      BY MinIsIn
    <3>2. Then(p, first, ended) = stages[Min(after(first))]
      BY <1>2, <2>2 DEF Then
    <3> QED BY <2>2, <3>1, <3>2
  <2>3. CASE work[p].verb = "test"
    <3>1. stages = <<"store", "derive", "pick", "loc_check">>
      BY <2>3 DEF StagesOf, TestStages
    <3>2. /\ after("store") = {2} /\ after("derive") = {3} /\ after("pick") = {4}
          /\ after("loc_check") = {}
      BY <3>1
    <3> HIDE DEF after
    <3>3. /\ Then(p, "store", ended) = stages[2] /\ Then(p, "derive", ended) = stages[3]
          /\ Then(p, "pick", ended) = stages[4]
      BY <2>2, <3>2
    <3> QED BY <2>1, <3>1, <3>2, <3>3
  <2>4. CASE work[p].verb = "coverage"
    <3>1. stages = <<"store", "derive">>
      BY <2>4 DEF StagesOf
    <3>2. /\ after("store") = {2} /\ after("derive") = {} /\ after("pick") = {}
          /\ after("loc_check") = {}
      BY <3>1
    <3> HIDE DEF after
    <3>3. Then(p, "store", ended) = stages[2]
      BY <2>2, <3>2
    <3> QED BY <2>1, <3>1, <3>2, <3>3
  <2>5. CASE work[p].verb \notin {"test", "coverage"}
    <3>1. Len(stages) < 2
      BY <2>5 DEF StagesOf
    <3>2. \A first : after(first) = {}
      <4>1. stages \in {<<>>, <<"store">>}
        BY <2>5 DEF StagesOf
      <4>2. Len(stages) \in {0, 1}
        BY <4>1
      <4>3. 2..Len(stages) = {}
        <5>1. \A n \in {0, 1} : 2..n = {}
          OBVIOUS
        <5> HIDE DEF stages
        <5> QED BY <4>2, <5>1
      <4> QED BY <4>3
    <3> HIDE DEF after
    <3> QED BY <2>1, <3>2
  <2> QED BY <2>3, <2>4, <2>5
<1> QED BY <1>1, <1>2

\* Where a comparison and a localization leave their stage.
LEMMA StageLeft ==
  ASSUME NEW p \in Procs
  PROVE  /\ NoRegression(p) \in {"view", "loc_check"} \cup Ended
         /\ HasRegression(p) \in {"view", "loc_check"} \cup Ended
         /\ NoFacts(p) \in Ended
         /\ Localized(p) \in {"policy"} \cup Ended
  BY ThenNext DEF NoRegression, HasRegression, NoFacts, Localized, Ended

\* A field of what a verb has in memory is changed alone.
LEMMA WorkFields ==
  ASSUME NEW w \in Work, NEW v
  PROVE  /\ LET u == [w EXCEPT !.target = v]
            IN  /\ u.target = v /\ u.verb = w.verb /\ u.baseline = w.baseline
                /\ u.regression = w.regression /\ u.delta = w.delta
         /\ LET u == [w EXCEPT !.baseline = v]
            IN  /\ u.baseline = v /\ u.verb = w.verb /\ u.target = w.target
                /\ u.regression = w.regression /\ u.delta = w.delta
         /\ LET u == [w EXCEPT !.change = v]
            IN  /\ u.change = v /\ u.verb = w.verb /\ u.target = w.target
                /\ u.baseline = w.baseline /\ u.regression = w.regression
                /\ u.delta = w.delta
         /\ LET u == [w EXCEPT !.regression = v]
            IN  /\ u.regression = v /\ u.verb = w.verb /\ u.target = w.target /\ u.delta = w.delta
                /\ u.baseline = w.baseline /\ u.change = w.change
         /\ LET u == [w EXCEPT !.delta = v]
            IN  /\ u.delta = v /\ u.verb = w.verb /\ u.target = w.target
                /\ u.baseline = w.baseline /\ u.regression = w.regression
         /\ LET u == [w EXCEPT !.finding = v]
            IN  u.verb = w.verb /\ u.target = w.target
         /\ LET u == [w EXCEPT !.mode = v]
            IN  /\ u.mode = v /\ u.verb = w.verb /\ u.target = w.target
                /\ u.weighed = w.weighed
         /\ LET u == [w EXCEPT !.weighed = v]
            IN  /\ u.weighed = v /\ u.verb = w.verb /\ u.target = w.target
                /\ u.mode = w.mode
         /\ LET u == [w EXCEPT !.again = v, !.finding = NoFinding]
            IN  u.verb = w.verb /\ u.target = w.target
  BY DEF Work

\* A verb that is running takes a step.
Moves(p) == Compare(p) \/ Localize(p) \/ Crash(p) \/ (p \in Runs /\ Recorder(p))

\* A verb begins.
Starts(p) == (p \in Runs /\ BeginRun(p)) \/ (p \in Clients /\ BeginClient(p))

\* The steps of the system, by who takes them.
LEMMA NextIsStep ==
  ASSUME [Next]_vars
  PROVE  \/ \E p \in Procs : Moves(p) \/ Starts(p)
         \/ \E r \in Runs : Delete(r)
         \/ UNCHANGED vars
  BY DEF Next, Moves, Starts, Procs

\* A step of a running verb is its own.
LEMMA MoverIsAlone ==
  ASSUME DerivedTypeOK, NEW p \in Procs, Moves(p)
  PROVE  /\ InFlight(p) /\ UNCHANGED <<overlapped, trait>>
         /\ \A q \in Procs \ {p} : pc'[q] = pc[q] /\ work'[q] = work[q]
<1>1. CASE Compare(p) \/ Localize(p) \/ Crash(p)
  <2>1. \A q \in Procs \ {p} : pc'[q] = pc[q] /\ work'[q] = work[q]
    BY <1>1, OthersKeep
  <2>2. CASE Compare(p)
    BY <2>1, <2>2
    DEF Compare, Pick, Base, Check, Cache, Recheck, ReadBase, ReadTarget, PairOpen,
              PairWrite, View, At, InFlight, Steps, facts
  <2>3. CASE Localize(p)
    BY <2>1, <2>3
    DEF Localize, LocCheck, LocProbe, LocRead, LocCov, LocReg, LocWrite, Policy, At,
              InFlight, Steps, facts
  <2>4. CASE Crash(p)
    BY <2>1, <2>4 DEF Crash, facts
  <2> QED BY <1>1, <2>2, <2>3, <2>4
<1>2. CASE p \in Runs /\ Recorder(p)
  BY <1>2
  DEF DerivedTypeOK, Recorder, Store, Derive, CovOpen, CovWrite, At, Goes, InFlight, Steps,
              facts
<1> QED BY <1>1, <1>2, Moves(p) DEF Moves

\* A verb that begins leaves the others and the caches alone.
LEMMA StarterIsAlone ==
  ASSUME DerivedTypeOK, NEW p \in Procs, Starts(p)
  PROVE  /\ pc[p] = "idle" /\ pc'[p] \in {"store", "check", "pick", "loc_check"}
         /\ overlapped' = (overlapped \/ \E q \in Procs : InFlight(q))
         /\ UNCHANGED facts
         /\ \A q \in Procs \ {p} : pc'[q] = pc[q] /\ work'[q] = work[q]
  BY DEF DerivedTypeOK, Starts, BeginRun, BeginClient, Begin, Goes, Keeps

\* Settled runs stay settled.
LEMMA SettledStays ==
  ASSUME TypedInv, [Next]_vars, NEW r \in Runs, Settled(r)
  PROVE  Settled(r)'
<1>0. /\ r \in Procs /\ DOMAIN pc = Procs /\ DerivedTypeOK
      /\ pc[r] = "read_base" => cov[work[r].baseline] \in {"none", "torn", "ok"}
  BY DEF Procs, DerivedTypeOK, TypedInv, WorkInv
<1>1. ASSUME pc'[r] = pc[r] PROVE Settled(r)'
  BY <1>1 DEF Settled
<1>2. ASSUME NEW p \in Procs, Moves(p) PROVE Settled(r)'
  <2>1. CASE p # r
    <3>1. pc'[r] = pc[r]
      BY <1>0, <1>2, <2>1, MoverIsAlone
    <3> QED BY <1>1, <3>1
  <2>2. CASE p = r
    <3>1. CASE Compare(r)
      BY <1>0, <3>1, StageLeft
      DEF Compare, Pick, Base, Check, Cache, Recheck, ReadBase, ReadTarget, PairOpen,
          PairWrite, View, At, Goes, Settled, Ended
    <3>2. CASE Localize(r)
      BY <1>0, <3>2, StageLeft
      DEF Localize, LocCheck, LocProbe, LocRead, LocCov, LocReg, LocWrite, Policy, At,
          Goes, Settled, Ended
    <3>3. CASE Crash(r)
      BY <1>0, <3>3 DEF Crash, Goes, Settled
    <3>4. CASE Recorder(r)
      BY <3>4 DEF Recorder, Store, Derive, CovOpen, CovWrite, At, Settled
    <3> QED BY <1>2, <2>2, <3>1, <3>2, <3>3, <3>4 DEF Moves
  <2> QED BY <2>1, <2>2
<1>3. ASSUME NEW p \in Procs, Starts(p) PROVE Settled(r)'
  <2>1. p # r
    BY <1>0, <1>3, StarterIsAlone DEF Settled
  <2>2. pc'[r] = pc[r]
    BY <1>0, <1>3, <2>1, StarterIsAlone
  <2> QED BY <1>1, <2>2
<1>4. ASSUME NEW q \in Runs, Delete(q) PROVE Settled(r)'
  BY <1>1, <1>4 DEF Delete
<1>5. CASE UNCHANGED vars
  BY <1>1, <1>5 DEF vars
<1> QED BY <1>2, <1>3, <1>4, <1>5, NextIsStep

\* The coverage facts of a settled run are final.
LEMMA CovStays ==
  ASSUME TypedInv, [Next]_vars, NEW r \in Runs, Settled(r)
  PROVE  cov'[r] = cov[r] /\ ModeOf(r)' = ModeOf(r)
<1>0. DerivedTypeOK
  BY DEF TypedInv
<1>1. UNCHANGED trait
  BY <1>0, NextIsStep, MoverIsAlone, StarterIsAlone DEF Delete, facts, vars
<1> SUFFICES cov'[r] = cov[r]
  BY <1>1 DEF ModeOf
<1>2. ASSUME NEW p \in Procs, Moves(p) PROVE cov'[r] = cov[r]
  <2>1. CASE Compare(p) \/ Localize(p) \/ Crash(p)
    BY <2>1 DEF Compare, Pick, Base, Check, Cache, Recheck, ReadBase, ReadTarget, PairOpen,
              PairWrite, View, Localize, LocCheck, LocProbe, LocRead, LocCov, LocReg,
              LocWrite, Policy, Crash, facts
  <2>2. CASE p \in Runs /\ Recorder(p)
    BY <1>0, <2>2
    DEF DerivedTypeOK, Recorder, Store, Derive, CovOpen, CovWrite, At, facts, Settled
  <2> QED BY <1>2, <2>1, <2>2 DEF Moves
<1>3. ASSUME NEW p \in Procs, Starts(p) PROVE cov'[r] = cov[r]
  BY <1>0, <1>3, StarterIsAlone DEF facts
<1> QED BY <1>2, <1>3, NextIsStep DEF Delete, vars, facts

\* A running verb never begins again.
LEMMA MoverGoesOn ==
  ASSUME TypedInv, NEW p \in Procs, Moves(p)
  PROVE  pc'[p] \notin {"idle", "store"}
<1>0. /\ DOMAIN pc = Procs
      /\ pc[p] = "read_base" => cov[work[p].baseline] \in {"none", "torn", "ok"}
  BY DEF DerivedTypeOK, TypedInv, WorkInv
<1>1. CASE Compare(p)
  BY <1>0, <1>1, StageLeft
  DEF Compare, Pick, Base, Check, Cache, Recheck, ReadBase, ReadTarget, PairOpen,
      PairWrite, View, At, Goes, Ended
<1>2. CASE Localize(p)
  BY <1>0, <1>2, StageLeft
  DEF Localize, LocCheck, LocProbe, LocRead, LocCov, LocReg, LocWrite, Policy, At, Goes, Ended
<1>3. CASE Crash(p)
  BY <1>0, <1>3 DEF Crash, Goes
<1>4. CASE Recorder(p)
  BY <1>0, <1>4, ThenNext DEF Recorder, Store, Derive, CovOpen, CovWrite, At, Goes, Ended
<1> QED BY <1>1, <1>2, <1>3, <1>4, Moves(p) DEF Moves

\* Evidence appears when its recorder stores it, and the recorder goes on.
LEMMA EvidencedStep ==
  ASSUME TypedInv, Evidenced, [Next]_vars
  PROVE  Evidenced'
<1> SUFFICES ASSUME NEW r \in Runs, status'[r] # "absent"
             PROVE  pc'[r] \notin {"idle", "store"}
  BY DEF Evidenced
<1>0. DerivedTypeOK /\ r \in Procs
  BY DEF TypedInv, Procs
<1>1. ASSUME NEW p \in Procs, Moves(p) PROVE pc'[r] \notin {"idle", "store"}
  <2>1. CASE p = r
    BY <1>1, <2>1, MoverGoesOn
  <2>2. CASE p # r
    <3>1. pc'[r] = pc[r]
      BY <1>0, <1>1, <2>2, MoverIsAlone
    <3>2. status'[r] = status[r]
      <4>1. CASE Compare(p) \/ Localize(p) \/ Crash(p)
        BY <4>1 DEF Compare, Pick, Base, Check, Cache, Recheck, ReadBase, ReadTarget, PairOpen,
                  PairWrite, View, Localize, LocCheck, LocProbe, LocRead, LocCov, LocReg,
                  LocWrite, Policy, Crash, facts
      <4>2. CASE Recorder(p)
        BY <1>0, <2>2, <4>2 DEF DerivedTypeOK, Ledger!LedgerTypeOK, Recorder, Store, Derive,
                  CovOpen, CovWrite, facts, Ledger!Record
      <4> QED BY <1>1, <4>1, <4>2 DEF Moves
    <3> QED BY <3>1, <3>2 DEF Evidenced
  <2> QED BY <2>1, <2>2
<1>2. ASSUME NEW p \in Procs, Starts(p) PROVE pc'[r] \notin {"idle", "store"}
  <2>1. UNCHANGED facts /\ pc[p] = "idle"
    BY <1>0, <1>2, StarterIsAlone
  <2>2. status[r] # "absent"
    BY <2>1 DEF facts
  <2>3. p # r
    BY <2>1, <2>2 DEF Evidenced
  <2>4. pc'[r] = pc[r]
    BY <1>0, <1>2, <2>3, StarterIsAlone
  <2> QED BY <2>2, <2>4 DEF Evidenced
<1>3. ASSUME NEW q \in Runs, Delete(q) PROVE pc'[r] \notin {"idle", "store"}
  BY <1>0, <1>3 DEF Delete, Ledger!Tombstone, Evidenced, DerivedTypeOK, Ledger!LedgerTypeOK
<1>4. CASE UNCHANGED vars
  BY <1>4 DEF vars, Evidenced
<1> QED BY <1>1, <1>2, <1>3, <1>4, NextIsStep

\* While verbs have not overlapped, whoever takes a step is alone.
LEMMA SoloSteps ==
  ASSUME TypedInv, SoloInv, [Next]_vars, ~overlapped'
  PROVE  /\ ~overlapped
         /\ \/ \E p \in Procs : Moves(p) /\ \A q \in Procs \ {p} : ~InFlight(q)
            \/ \E p \in Procs : Starts(p) /\ \A q \in Procs : ~InFlight(q)
            \/ \E r \in Runs : Delete(r) /\ \A q \in Procs : ~InFlight(q)
            \/ UNCHANGED vars
<1>0. DerivedTypeOK
  BY DEF TypedInv
<1>1. ASSUME NEW p \in Procs, Moves(p)
      PROVE  ~overlapped /\ \A q \in Procs \ {p} : ~InFlight(q)
  BY <1>0, <1>1, MoverIsAlone DEF SoloInv, Alone
<1>2. ASSUME NEW p \in Procs, Starts(p)
      PROVE  ~overlapped /\ \A q \in Procs : ~InFlight(q)
  BY <1>0, <1>2, StarterIsAlone
<1>3. ASSUME NEW r \in Runs, Delete(r)
      PROVE  ~overlapped /\ \A q \in Procs : ~InFlight(q)
  BY <1>3 DEF Delete
<1>4. CASE UNCHANGED vars
  BY <1>4 DEF vars
<1> QED BY <1>1, <1>2, <1>3, <1>4, NextIsStep

\* At most one verb runs until verbs overlap.
LEMMA AloneStep ==
  ASSUME TypedInv, SoloInv, [Next]_vars, ~overlapped'
  PROVE  Alone'
<1>0. DerivedTypeOK
  BY DEF TypedInv
<1>1. ASSUME NEW p \in Procs, Moves(p) \/ Starts(p), \A q \in Procs \ {p} : ~InFlight(q)
      PROVE  Alone'
  <2>1. \A q \in Procs \ {p} : pc'[q] = pc[q]
    BY <1>0, <1>1, MoverIsAlone, StarterIsAlone
  <2> QED BY <1>1, <2>1 DEF Alone, InFlight
<1>2. ASSUME UNCHANGED pc PROVE Alone'
  BY <1>2, SoloSteps DEF SoloInv, Alone, InFlight
<1> QED BY <1>1, <1>2, SoloSteps DEF Delete, vars

\* A cached pair changes by the two steps that write it.
LEMMA PairsChange ==
  ASSUME DerivedTypeOK, NEW p \in Procs, Moves(p), NEW b \in Runs, NEW t \in Runs
  PROVE  \/ pairs'[<<b, t>>] = pairs[<<b, t>>]
         \/ work[p].baseline = b /\ work[p].target = t /\ (PairOpen(p) \/ PairWrite(p))
<1>1. CASE PairOpen(p) \/ PairWrite(p)
  <2>1. CASE Pair(p) = <<b, t>>
    BY <1>1, <2>1 DEF Pair
  <2>2. CASE Pair(p) # <<b, t>>
    BY <1>1, <2>2 DEF PairOpen, PairWrite, DerivedTypeOK
  <2> QED BY <2>1, <2>2
<1>2. CASE Compare(p) /\ ~PairOpen(p) /\ ~PairWrite(p)
  BY <1>2 DEF Compare, Pick, Base, Check, Cache, Recheck, ReadBase, ReadTarget, View, facts
<1>3. CASE Localize(p) \/ Crash(p)
  BY <1>3 DEF Localize, LocCheck, LocProbe, LocRead, LocCov, LocReg, LocWrite, Policy, Crash,
              facts
<1>4. CASE Recorder(p)
  BY <1>4 DEF Recorder, Store, Derive, CovOpen, CovWrite, facts
<1> QED BY <1>1, <1>2, <1>3, <1>4, Moves(p) DEF Moves

\* A cached pair is only ever derived from final coverage facts.
LEMMA PairFinalStep ==
  ASSUME TypedInv, SoloInv, [Next]_vars, ~overlapped', NEW b \in Runs, NEW t \in Runs
  PROVE  PairFinal(b, t)'
<1>0. /\ DerivedTypeOK /\ PairFinal(b, t) /\ \A p \in Procs : VerbInv(p)
      /\ <<b, t>> \in Runs \X Runs
  BY SoloSteps DEF TypedInv, SoloInv
<1>1. ASSUME pairs'[<<b, t>>] = pairs[<<b, t>>] PROVE PairFinal(b, t)'
  BY <1>0, <1>1, SettledStays, CovStays DEF PairFinal
<1>2. ASSUME NEW p \in Procs, Moves(p) PROVE PairFinal(b, t)'
  <2>1. CASE pairs'[<<b, t>>] = pairs[<<b, t>>]
    BY <1>1, <2>1
  <2>2. CASE work[p].baseline = b /\ work[p].target = t /\ PairOpen(p)
    <3>1. pairs'[<<b, t>>] = "torn"
      BY <1>0, <2>2 DEF PairOpen, Pair, DerivedTypeOK
    <3>2. Settled(b) /\ Settled(t)
      BY <1>0, <2>2 DEF PairOpen, At, VerbInv, ComparingInv, Comparing
    <3> QED BY <3>1, <3>2, SettledStays DEF PairFinal
  <2>3. CASE work[p].baseline = b /\ work[p].target = t /\ PairWrite(p)
    <3>1. pairs'[<<b, t>>] = work[p].change
      BY <1>0, <2>3 DEF PairWrite, Pair, DerivedTypeOK
    <3>2. /\ Settled(b) /\ Settled(t)
          /\ \/ work[p].change = "bare"  /\ (cov[b] # "ok" \/ cov[t] # "ok")
             \/ work[p].change = "delta" /\ cov[b] = "ok" /\ cov[t] = "ok"
      BY <1>0, <2>3 DEF PairWrite, At, VerbInv, ComparingInv, Comparing
    <3> QED BY <3>1, <3>2, SettledStays, CovStays DEF PairFinal
  <2> QED BY <1>0, <1>2, <2>1, <2>2, <2>3, PairsChange
<1>3. ASSUME NEW p \in Procs, Starts(p) PROVE PairFinal(b, t)'
  BY <1>0, <1>1, <1>3, StarterIsAlone DEF facts
<1> QED BY <1>1, <1>2, <1>3, NextIsStep DEF Delete, vars, facts

\* A finding is only ever derived from final coverage facts.
LEMMA FindingFinalStep ==
  ASSUME TypedInv, SoloInv, [Next]_vars, ~overlapped', NEW r \in Runs
  PROVE  FindingFinal(r)'
<1>0. /\ DerivedTypeOK /\ FindingFinal(r) /\ \A p \in Procs : VerbInv(p)
  BY SoloSteps DEF TypedInv, SoloInv
<1>1. ASSUME findings'[r] = findings[r] PROVE FindingFinal(r)'
  BY <1>0, <1>1, SettledStays, CovStays DEF FindingFinal
<1>2. ASSUME NEW p \in Procs, LocWrite(p) PROVE FindingFinal(r)'
  <2> DEFINE new == Finding(work[p].mode, work[p].flags, TRUE, work[p].weighed)
  <2>1. CASE work[p].target = r
    <3>1. new.mode = work[p].mode /\ new.weighed = work[p].weighed
      BY DEF Finding
    <3>2. findings' = [findings EXCEPT ![work[p].target] = new]
      BY <1>2 DEF LocWrite
    <3> HIDE DEF new
    <3>3. findings'[r] = new
      BY <1>0, <2>1, <3>2 DEF DerivedTypeOK
    <3>4. /\ Settled(r) /\ cov[r] # "torn" /\ work[p].mode = ModeOf(r)
          /\ work[p].weighed => IsSbfl(work[p].mode)
      BY <1>0, <1>2, <2>1 DEF LocWrite, At, VerbInv, LocalizingInv, Localizing
    <3> QED BY <3>1, <3>3, <3>4, SettledStays, CovStays DEF FindingFinal
  <2>2. CASE work[p].target # r
    BY <1>0, <1>1, <1>2, <2>2 DEF LocWrite, DerivedTypeOK
  <2> QED BY <2>1, <2>2
<1>3. ASSUME NEW p \in Procs, Policy(p) PROVE FindingFinal(r)'
  <2>1. findings'[r] = findings[r] \/ findings'[r] = NoFinding
    BY <1>0, <1>3 DEF Policy, DerivedTypeOK
  <2> QED BY <1>1, <2>1 DEF FindingFinal
<1>4. ASSUME NEW p \in Procs, Moves(p), ~LocWrite(p), ~Policy(p) PROVE FindingFinal(r)'
  <2>1. UNCHANGED findings
    BY <1>4 DEF Moves, Compare, Pick, Base, Check, Cache, Recheck, ReadBase, ReadTarget,
              PairOpen, PairWrite, View, Localize, LocCheck, LocProbe, LocRead, LocCov, LocReg,
              Crash, Recorder, Store, Derive, CovOpen, CovWrite, facts
  <2> QED BY <1>1, <2>1
<1>5. ASSUME NEW p \in Procs, Starts(p) PROVE FindingFinal(r)'
  BY <1>0, <1>1, <1>5, StarterIsAlone DEF facts
<1> QED BY <1>1, <1>2, <1>3, <1>4, <1>5, NextIsStep DEF Delete, vars, facts

\* A comparison's step keeps what it has decided in agreement with the caches.
LEMMA CompareKeepsVerbInv ==
  ASSUME TypedInv, Evidenced, [Next]_vars, NEW p \in Procs, VerbInv(p), Compare(p),
         \A q \in Procs \ {p} : ~InFlight(q)
  PROVE  VerbInv(p)'
<1>b. PICK b, t : b = work[p].baseline /\ t = work[p].target
  OBVIOUS
<1>0. /\ DerivedTypeOK /\ WorkInv(p) /\ DOMAIN pc = Procs /\ DOMAIN work = Procs
      /\ work[p] \in Work /\ Runs \subseteq Procs /\ (p \in Runs \/ p \in Clients)
  BY DEF TypedInv, DerivedTypeOK, Procs
<1>s. \A r \in Runs : Settled(r) => Settled(r)' /\ cov'[r] = cov[r]
  BY SettledStays, CovStays
\* Live runs are settled once the verb is past its recorder.
<1>l. ASSUME pc[p] \in {"pick", "base"}, NEW r \in Runs, status[r] = "recorded"
      PROVE  Settled(r)
  <2>1. pc[r] \notin {"idle", "store"} /\ (r # p => ~InFlight(r))
    BY <1>0, <1>l DEF Evidenced
  <2> QED BY <1>l, <2>1 DEF Settled, InFlight, Steps
\* Leaving the stage.
<1>e. ASSUME pc'[p] \in {"view", "loc_check"} \cup Ended, work'[p].target = t,
             pc'[p] = "loc_check" => t \in Runs /\ Settled(t)
      PROVE  VerbInv(p)'
  BY <1>b, <1>s, <1>e
  DEF VerbInv, ComparingInv, LocalizingInv, Comparing, Localizing, Settled, Ended
<1>n. /\ NoRegression(p) \in {"view"} \cup Ended \cup IF p \in Clients THEN {} ELSE {"loc_check"}
      /\ HasRegression(p) \in {"view"} \cup Ended \cup IF p \in Clients THEN {} ELSE {"loc_check"}
  BY ClientEnds, StageLeft DEF Firsts, Ended
<1>1. CASE Pick(p)
  <2>1. CASE Cardinality(Live) < 2
    <3>1. pc[p] = "pick" /\ pc'[p] = NoRegression(p) /\ work'[p] = work[p]
      BY <1>b, <1>0, <1>1, <2>1 DEF Pick, At, Goes, Keeps
    <3>2. p \in Runs => t = p /\ Settled(p)
      BY <1>b, <3>1 DEF VerbInv, Settled
    <3> QED BY <1>b, <1>0, <1>e, <1>n, <3>1, <3>2 DEF Ended
  <2>2. CASE ~(Cardinality(Live) < 2)
    <3>1. /\ pc[p] = "pick" /\ pc'[p] = "base"
          /\ work'[p] = [work[p] EXCEPT !.target = Max(Live)]
      BY <1>b, <1>0, <1>1, <2>2 DEF Pick, At, Goes, Keeps
    <3>2. Max(Live) \in Runs /\ status[Max(Live)] = "recorded"
      <4>1. Live # {}
        BY <2>2, FS_EmptySet
      <4>2. Live \in SUBSET (0..N)
        BY FactsConstants DEF Live, Runs
      <4> QED BY <4>1, <4>2, MaxIsIn, FactsConstants DEF Live
    <3>3. work'[p].target = Max(Live)
      BY <1>b, <1>0, <3>1, WorkFields
    <3>4. \E r \in Runs : work'[p].target = r /\ Settled(r)'
      BY <1>l, <1>s, <3>1, <3>2, <3>3
    <3> QED BY <3>1, <3>4
        DEF VerbInv, ComparingInv, LocalizingInv, Comparing, Localizing, Settled
  <2> QED BY <2>1, <2>2
<1>2. CASE Base(p)
  <2> DEFINE found == Baselines(t)
  <2>1. pc[p] = "base" /\ t \in Runs /\ Settled(t)
    BY <1>b, <1>0, <1>2 DEF Base, At, VerbInv, WorkInv, Steps
  <2>2. CASE found = {}
    <3>1. pc'[p] = NoRegression(p) /\ work'[p] = work[p]
      BY <1>b, <1>0, <1>2, <2>2 DEF Base, At, Goes, Keeps
    <3> QED BY <1>b, <1>e, <1>n, <2>1, <3>1
  <2>3. CASE found # {}
    <3>1. pc'[p] = "check" /\ work'[p] = [work[p] EXCEPT !.baseline = Max(found)]
      BY <1>b, <1>0, <1>2, <2>3 DEF Base, At, Goes, Keeps
    <3>2. Max(found) \in Runs /\ status[Max(found)] = "recorded"
      <4>1. found \in SUBSET (0..N) /\ found \subseteq Live
        BY FactsConstants DEF Baselines, Live, Runs
      <4>2. Max(found) \in found
        <5> HIDE DEF found
        <5> QED BY <1>b, <2>3, <4>1, MaxIsIn, FactsConstants
      <4> QED BY <4>1, <4>2 DEF Live
    <3>3. work'[p].baseline = Max(found) /\ work'[p].target = t
      <4> HIDE DEF found
      <4> QED BY <1>b, <1>0, <3>1, WorkFields
    <3>4. Settled(t)' /\ \E r \in Runs : work'[p].baseline = r /\ Settled(r)'
      BY <1>l, <1>s, <2>1, <3>2, <3>3
    <3> QED BY <3>1, <3>3, <3>4
        DEF VerbInv, ComparingInv, LocalizingInv, Comparing, Localizing, Settled
  <2> QED BY <2>2, <2>3
\* From here on the two sides are chosen and settled.
<1>c. ASSUME pc[p] \in Comparing
      PROVE  /\ b \in Runs /\ t \in Runs /\ Settled(b) /\ Settled(t)
             /\ Settled(b)' /\ Settled(t)' /\ cov'[b] = cov[b] /\ cov'[t] = cov[t]
             /\ <<b, t>> \in Runs \X Runs
  <2>1. b \in Runs /\ t \in Runs /\ Settled(b) /\ Settled(t)
    BY <1>b, <1>0, <1>c DEF VerbInv, ComparingInv, WorkInv, Comparing, Steps
  <2> QED BY <1>b, <1>s, <2>1
<1>x. pc[p] \in Comparing /\ work'[p].target = t /\ pc'[p] \in {"view", "loc_check"} \cup Ended
        => VerbInv(p)'
  BY <1>b, <1>c, <1>e
<1>3. CASE Check(p)
  <2>1. /\ pc[p] = "check" /\ pc'[p] \in {NoRegression(p), "cache"}
        /\ work'[p] = work[p]
    BY <1>b, <1>0, <1>3 DEF Check, At, Goes, facts
  <2>2. CASE pc'[p] = "cache"
    BY <1>b, <1>c, <2>1, <2>2
    DEF VerbInv, ComparingInv, LocalizingInv, Comparing, Localizing, Settled
  <2> QED BY <1>b, <1>n, <1>x, <2>1, <2>2 DEF Comparing
<1>4. CASE Cache(p)
  <2> DEFINE found == pairs[Pair(p)]
  <2>1. /\ pc[p] = "cache" /\ UNCHANGED pairs
        /\ pc'[p] = IF found \in {"bare", "delta"} THEN HasRegression(p) ELSE "recheck"
        /\ work'[p] = IF found \in {"bare", "delta"}
                      THEN [work[p] EXCEPT !.regression = found] ELSE work[p]
    BY <1>b, <1>0, <1>4 DEF Cache, At, Goes, Keeps, facts
  <2>2. found = pairs[<<b, t>>] /\ found \in {"none", "torn", "bare", "delta"}
    BY <1>b, <1>0, <1>c, <2>1 DEF Pair, DerivedTypeOK, Comparing
  <2>3. work'[p].target = t /\ work'[p].baseline = b
    <3> HIDE DEF found
    <3> QED BY <1>b, <1>0, <2>1, WorkFields
  <2>4. CASE found \in {"bare", "delta"}
    BY <1>b, <1>n, <1>x, <2>1, <2>3, <2>4 DEF Comparing
  <2>5. CASE found \notin {"bare", "delta"}
    <3>1. pc'[p] = "recheck" /\ pairs'[<<b, t>>] \in {"none", "torn"}
      BY <1>b, <2>1, <2>2, <2>5
    <3> QED BY <1>b, <1>c, <2>1, <2>3, <3>1
        DEF VerbInv, ComparingInv, LocalizingInv, Comparing, Localizing, Settled
  <2> QED BY <2>4, <2>5
<1>5. CASE Recheck(p)
  <2>1. /\ pc[p] = "recheck" /\ pc'[p] \in {NoRegression(p), "read_base"}
        /\ work'[p] = work[p] /\ UNCHANGED pairs
    BY <1>b, <1>0, <1>5 DEF Recheck, At, Goes, facts
  <2>2. CASE pc'[p] = "read_base"
    BY <1>b, <1>c, <2>1, <2>2
    DEF VerbInv, ComparingInv, LocalizingInv, Comparing, Localizing, Settled
  <2> QED BY <1>b, <1>n, <1>x, <2>1, <2>2 DEF Comparing
<1>6. CASE ReadBase(p)
  <2>1. /\ pc[p] = "read_base" /\ UNCHANGED pairs
        /\ pc'[p] = CASE cov[b] = "torn" -> "died" [] cov[b] = "none" -> "pair_open"
                      [] cov[b] = "ok" -> "read_target"
        /\ work'[p] = [work[p] EXCEPT !.change = "bare"]
    BY <1>b, <1>0, <1>6 DEF ReadBase, At, Goes, Keeps, facts
  <2>2. work'[p].target = t /\ work'[p].baseline = b /\ work'[p].change = "bare"
    BY <1>b, <1>0, <2>1, WorkFields
  <2>3. cov[b] \in {"none", "torn", "ok"}
    BY <1>b, <1>0, <1>c, <2>1 DEF DerivedTypeOK, Comparing
  <2> QED BY <1>b, <1>c, <2>1, <2>2, <2>3
      DEF VerbInv, ComparingInv, LocalizingInv, Comparing, Localizing, Settled
<1>7. CASE ReadTarget(p)
  <2> DEFINE change == IF cov[t] = "ok" THEN "delta" ELSE "bare"
  <2>1. /\ pc[p] = "read_target" /\ UNCHANGED pairs
        /\ pc'[p] \in {"died", "pair_open"}
        /\ work'[p] = [work[p] EXCEPT !.change = change]
    BY <1>b, <1>0, <1>7 DEF ReadTarget, At, Goes, Keeps, facts
  <2>2. work'[p].target = t /\ work'[p].baseline = b /\ work'[p].change = change
    <3> HIDE DEF change
    <3> QED BY <1>b, <1>0, <2>1, WorkFields
  <2> QED BY <1>b, <1>c, <2>1, <2>2
      DEF VerbInv, ComparingInv, LocalizingInv, Comparing, Localizing, Settled
<1>8. CASE PairOpen(p)
  <2>1. /\ pc[p] = "pair_open" /\ pc'[p] = "pair_write" /\ work'[p] = work[p]
        /\ pairs' = [pairs EXCEPT ![Pair(p)] = "torn"]
    BY <1>b, <1>0, <1>8 DEF PairOpen, At, Goes
  <2>2. pairs'[<<b, t>>] = "torn"
    BY <1>b, <1>0, <1>c, <2>1 DEF Pair, DerivedTypeOK, Comparing
  <2> QED BY <1>b, <1>c, <2>1, <2>2
      DEF VerbInv, ComparingInv, LocalizingInv, Comparing, Localizing, Settled
<1>9. CASE PairWrite(p)
  <2>1. /\ pc[p] = "pair_write" /\ pc'[p] = HasRegression(p)
        /\ work'[p] = [work[p] EXCEPT !.regression = work[p].change]
    BY <1>b, <1>0, <1>9 DEF PairWrite, At, Goes, Keeps
  <2>2. work'[p].target = t
    BY <1>b, <1>0, <2>1, WorkFields
  <2> QED BY <1>b, <1>n, <1>x, <2>1, <2>2 DEF Comparing
<1>10. CASE View(p)
  <2>1. pc'[p] \in Ended /\ \E d : work'[p] = [work[p] EXCEPT !.delta = d]
    BY <1>b, <1>0, <1>10 DEF View, At, Goes, Keeps, Ended
  <2>2. work'[p].target = t
    BY <1>b, <1>0, <2>1, WorkFields
  <2> QED BY <1>b, <1>e, <2>1, <2>2 DEF Ended
<1> QED BY <1>1, <1>2, <1>3, <1>4, <1>5, <1>6, <1>7, <1>8, <1>9, <1>10, Compare(p) DEF Compare

\* So does a localization's.
LEMMA LocalizeKeepsVerbInv ==
  ASSUME TypedInv, SoloInv, ~overlapped, [Next]_vars, NEW p \in Procs, VerbInv(p), Localize(p)
  PROVE  VerbInv(p)'
<1>b. PICK t : t = work[p].target
  OBVIOUS
<1>0. /\ DerivedTypeOK /\ WorkInv(p) /\ DOMAIN pc = Procs /\ DOMAIN work = Procs
      /\ work[p] \in Work
      /\ \A b, r \in Runs : PairFinal(b, r)
  BY DEF TypedInv, DerivedTypeOK, SoloInv
<1>t. /\ t \in Runs /\ Settled(t) /\ Settled(t)' /\ cov'[t] = cov[t]
      /\ ModeOf(t)' = ModeOf(t)
  <2>1. t \in Runs /\ Settled(t)
    BY <1>b, <1>0
    DEF Localize, LocCheck, LocProbe, LocRead, LocCov, LocReg, LocWrite, Policy, At,
                WorkInv, VerbInv, Localizing, Steps
  <2> QED BY <1>b, <2>1, SettledStays, CovStays
<1>e. ASSUME pc'[p] \in Ended \cup (Localizing \ {"loc_reg", "loc_write"}), work'[p].target = t
      PROVE  VerbInv(p)'
  BY <1>b, <1>t, <1>e
  DEF VerbInv, ComparingInv, LocalizingInv, Comparing, Localizing, Settled, ModeOf, Ended
<1>1. CASE LocCheck(p) \/ LocProbe(p)
  <2>1. work'[p] = work[p] /\ pc'[p] \in {NoFacts(p), "loc_probe", "loc_read", "loc_cov"}
    BY <1>b, <1>0, <1>1 DEF LocCheck, LocProbe, At, Goes, facts
  <2> QED BY <1>b, <1>e, <2>1, StageLeft DEF Localizing
<1>2. CASE LocRead(p)
  <2>1. /\ work'[p] = [work[p] EXCEPT !.finding = findings[t]]
        /\ pc'[p] \in {"died", Localized(p)}
    BY <1>b, <1>0, <1>2 DEF LocRead, At, Goes, Keeps
  <2>2. work'[p].target = t
    BY <1>b, <1>0, <2>1, WorkFields
  <2> QED BY <1>b, <1>e, <2>1, <2>2, StageLeft DEF Localizing, Ended
<1>3. CASE LocCov(p)
  <2>1. CASE cov[t] = "torn"
    <3>1. work'[p] = work[p] /\ pc'[p] = "died"
      BY <1>b, <1>0, <1>3, <2>1 DEF LocCov, At, Goes, Keeps
    <3> QED BY <1>b, <1>e, <3>1 DEF Ended
  <2>2. CASE cov[t] # "torn"
    <3>1. /\ work'[p] = [work[p] EXCEPT !.mode = ModeOf(t)]
          /\ pc'[p] \in {NoFacts(p), "loc_reg"}
      BY <1>b, <1>0, <1>3, <2>2 DEF LocCov, At, Goes, Keeps
    <3>2. work'[p].target = t /\ work'[p].mode = ModeOf(t)
      <4>1. \A v : LET u == [work[p] EXCEPT !.mode = v] IN u.mode = v /\ u.target = t
        BY <1>b, <1>0, WorkFields
      <4> QED BY <1>b, <3>1, <4>1
    <3>3. CASE pc'[p] = "loc_reg"
      BY <1>b, <1>t, <2>2, <3>2, <3>3
      DEF VerbInv, ComparingInv, LocalizingInv, Comparing, Localizing, Settled, ModeOf
    <3> QED BY <1>b, <1>e, <3>1, <3>2, <3>3, StageLeft
  <2> QED BY <2>1, <2>2
<1>4. CASE LocReg(p)
  <2> DEFINE found   == Baselines(t)
             changed == found # {} /\ pairs[<<Max(found), t>>] = "delta"
             weighed == changed /\ work[p].mode # "sbfl_per_test"
  <2>1. /\ pc[p] = "loc_reg" /\ pc'[p] = "loc_write"
        /\ work'[p] = [work[p] EXCEPT !.weighed = weighed]
    BY <1>b, <1>0, <1>4 DEF LocReg, At, Goes, Keeps
  <2>2. changed => cov[t] = "ok"
    <3>1. found # {} => Max(found) \in Runs
      BY <1>b, <1>t, LatestIsRun
    <3> QED BY <1>b, <1>0, <1>t, <3>1 DEF PairFinal
  <2>3. cov[t] # "torn" /\ work[p].mode = ModeOf(t)
    BY <1>b, <2>1 DEF VerbInv, LocalizingInv
  <2>4. weighed => IsSbfl(work[p].mode)
    BY <1>b, <2>2, <2>3 DEF ModeOf, IsSbfl
  <2> HIDE DEF weighed
  <2>5. work'[p].target = t /\ work'[p].mode = work[p].mode /\ work'[p].weighed = weighed
    BY <1>b, <1>0, <2>1, WorkFields
  <2> QED BY <1>b, <1>t, <2>1, <2>3, <2>4, <2>5
      DEF VerbInv, ComparingInv, LocalizingInv, Comparing, Localizing, Settled, ModeOf
<1>5. CASE LocWrite(p)
  <2> DEFINE new == Finding(work[p].mode, work[p].flags, TRUE, work[p].weighed)
  <2>1. pc'[p] = Localized(p) /\ Keeps(p, [work[p] EXCEPT !.finding = new])
    BY <1>b, <1>0, <1>5 DEF LocWrite, At, Goes
  <2> HIDE DEF new
  <2>2. work'[p].target = t
    BY <1>b, <1>0, <2>1, WorkFields DEF Keeps
  <2> QED BY <1>b, <1>e, <2>1, <2>2, StageLeft DEF Localizing
<1>6. CASE Policy(p)
  <2>1. /\ pc'[p] \in {"done", "loc_check"}
        /\ \/ work'[p] = work[p]
           \/ work'[p] = [work[p] EXCEPT !.again = TRUE, !.finding = NoFinding]
    BY <1>b, <1>0, <1>6 DEF Policy, At, Goes, Keeps
  <2>2. [work[p] EXCEPT !.again = TRUE, !.finding = NoFinding].target = t
    BY <1>b, <1>0, WorkFields
  <2> QED BY <1>b, <1>e, <2>1, <2>2 DEF Localizing, Ended
<1> QED BY <1>1, <1>2, <1>3, <1>4, <1>5, <1>6, Localize(p) DEF Localize

\* A verb that begins about settled runs has decided nothing.
LEMMA StartsVerbInv ==
  ASSUME TypedInv, Evidenced, [Next]_vars, NEW p \in Procs, Starts(p),
         \A q \in Procs : ~InFlight(q)
  PROVE  VerbInv(p)'
<1>0. /\ DerivedTypeOK /\ DOMAIN pc = Procs /\ DOMAIN work = Procs /\ Runs \subseteq Procs
      /\ Clients \cap Runs = {}
  BY FactsConstants DEF TypedInv, DerivedTypeOK, Procs
<1>1. ASSUME NEW r \in Runs, HasEvidence(r) PROVE Settled(r)'
  <2>1. pc[r] \notin {"idle", "store"} /\ ~InFlight(r)
    BY <1>0, <1>1 DEF HasEvidence, Evidenced
  <2> QED BY <2>1, SettledStays DEF Settled, InFlight, Steps
<1> USE DEF VerbInv, ComparingInv, LocalizingInv, Comparing, Localizing
<1>2. CASE p \in Runs /\ BeginRun(p)
  <2>1. pc'[p] = "store" /\ work'[p].target = p
    BY <1>0, <1>2 DEF BeginRun, Begin, Goes, Keeps, FreshWork
  <2> QED BY <2>1
<1>3. CASE p \in Clients /\ BeginClient(p)
  <2>1. CASE \E b, t \in Runs, verb \in {"compare", "regression"} :
               HasEvidence(b) /\ HasEvidence(t) /\ Begin(p, "check", FreshWork(verb, b, t, Default))
    <3>1. /\ pc'[p] = "check"
          /\ work'[p].baseline \in Runs /\ HasEvidence(work'[p].baseline)
          /\ work'[p].target \in Runs /\ HasEvidence(work'[p].target)
      BY <1>0, <2>1 DEF Begin, Goes, Keeps, FreshWork
    <3> QED BY <1>1, <3>1
  <2>2. CASE Begin(p, "pick", FreshWork("latest", 0, 0, Default))
    <3>1. pc'[p] = "pick" /\ p \notin Runs
      BY <1>0, <1>3, <2>2 DEF Begin, Goes
    <3> QED BY <3>1
  <2>3. CASE \E t \in Runs, fl \in Flags :
               HasEvidence(t) /\ Begin(p, "loc_check", FreshWork("localize", 0, t, fl))
    <3>1. /\ pc'[p] = "loc_check"
          /\ work'[p].target \in Runs /\ HasEvidence(work'[p].target)
      BY <1>0, <2>3 DEF Begin, Goes, Keeps, FreshWork
    <3> QED BY <1>1, <3>1
  <2> QED BY <1>3, <2>1, <2>2, <2>3 DEF BeginClient
<1> QED BY <1>2, <1>3, Starts(p) DEF Starts


\* Until verbs overlap, what a running verb has decided agrees with the caches.
LEMMA VerbInvStep ==
  ASSUME TypedInv, SoloInv, [Next]_vars, ~overlapped', NEW p \in Procs
  PROVE  VerbInv(p)'
<1>0. /\ DerivedTypeOK /\ ~overlapped /\ VerbInv(p) /\ Evidenced /\ DOMAIN pc = Procs
  BY SoloSteps DEF TypedInv, SoloInv, DerivedTypeOK
<1>1. CASE pc'[p] \notin Steps
  BY <1>1 DEF VerbInv, ComparingInv, LocalizingInv, Comparing, Localizing, Steps
<1>2. CASE pc'[p] \in Steps
  <2>1. ASSUME NEW q \in Procs, Moves(q), \A o \in Procs \ {q} : ~InFlight(o)
        PROVE  VerbInv(p)'
    <3>1. CASE q # p
      <4>1. pc'[p] = pc[p] /\ ~InFlight(p)
        BY <1>0, <2>1, <3>1, MoverIsAlone
      <4> QED BY <1>2, <4>1 DEF InFlight
    <3>2. CASE q = p /\ Compare(p)
      BY <1>0, <2>1, <3>2, CompareKeepsVerbInv
    <3>3. CASE q = p /\ Localize(p)
      BY <1>0, <3>3, LocalizeKeepsVerbInv
    <3>4. CASE q = p /\ Crash(p)
      BY <1>0, <1>2, <3>4 DEF Crash, Goes, Steps
    <3>5. CASE q = p /\ p \in Runs /\ Recorder(p)
      <4>1. /\ pc[p] \in {"store", "derive", "cov_open", "cov_write"}
            /\ pc'[p] \in {"derive", "cov_open", "cov_write", "pick"} \cup Ended
            /\ UNCHANGED work
        BY <1>0, <3>5, ThenNext DEF Recorder, Store, Derive, CovOpen, CovWrite, At, Goes, facts,
                                    Ended
      <4>2. work'[p].target = p
        BY <1>0, <3>5, <4>1 DEF VerbInv
      <4> QED BY <4>1, <4>2
          DEF VerbInv, ComparingInv, LocalizingInv, Comparing, Localizing, Ended
    <3> QED BY <2>1, <3>1, <3>2, <3>3, <3>4, <3>5 DEF Moves
  <2>2. ASSUME NEW q \in Procs, Starts(q), \A o \in Procs : ~InFlight(o)
        PROVE  VerbInv(p)'
    <3>1. CASE q # p
      <4>1. pc'[p] = pc[p] /\ ~InFlight(p)
        BY <1>0, <2>2, <3>1, StarterIsAlone
      <4> QED BY <1>2, <4>1 DEF InFlight
    <3>2. CASE q = p
      BY <1>0, <2>2, <3>2, StartsVerbInv
    <3> QED BY <3>1, <3>2
  <2>3. ASSUME NEW r \in Runs, Delete(r), \A o \in Procs : ~InFlight(o)
        PROVE  VerbInv(p)'
    BY <1>2, <2>3 DEF Delete, InFlight
  <2>4. CASE UNCHANGED vars
    BY <1>0, <2>4 DEF vars, VerbInv, ComparingInv, LocalizingInv, Settled, ModeOf
  <2> QED BY <2>1, <2>2, <2>3, <2>4, SoloSteps
<1> QED BY <1>1, <1>2

\* A pair that has its facts keeps them: nobody writes what the cache answers.
LEMMA PairsStay ==
  ASSUME TypedInv, SoloInv, [Next]_vars, ~overlapped', NEW b \in Runs, NEW t \in Runs,
         pairs[<<b, t>>] \in {"bare", "delta"}
  PROVE  pairs'[<<b, t>>] = pairs[<<b, t>>]
<1>0. DerivedTypeOK /\ \A p \in Procs : VerbInv(p)
  BY SoloSteps DEF TypedInv, SoloInv
<1>1. ASSUME NEW p \in Procs, Moves(p) PROVE pairs'[<<b, t>>] = pairs[<<b, t>>]
  <2>1. ~(work[p].baseline = b /\ work[p].target = t /\ (PairOpen(p) \/ PairWrite(p)))
    BY <1>0 DEF PairOpen, PairWrite, At, VerbInv, ComparingInv
  <2> QED BY <1>0, <1>1, <2>1, PairsChange
<1>2. ASSUME NEW p \in Procs, Starts(p) PROVE pairs'[<<b, t>>] = pairs[<<b, t>>]
  BY <1>0, <1>2, StarterIsAlone DEF facts
<1> QED BY <1>1, <1>2, NextIsStep DEF Delete, vars, facts

\* Until verbs overlap, a comparison answers with the cache or has a reason not to.
LEMMA HealInvStep ==
  ASSUME TypedInv, SoloInv, [Next]_vars, ~overlapped', NEW c \in Clients
  PROVE  HealInv(c)'
<1>b. PICK b, t, regression :
        b = work[c].baseline /\ t = work[c].target /\ regression = work[c].regression
  OBVIOUS
<1>0. /\ DerivedTypeOK /\ WorkInv(c) /\ VerbInv(c) /\ HealInv(c) /\ c \in Procs
      /\ DOMAIN pc = Procs /\ DOMAIN work = Procs /\ work[c] \in Work /\ c \notin Runs
      /\ regression \in {"none", "bare", "delta"}
  BY <1>b, SoloSteps, FactsConstants DEF TypedInv, SoloInv, DerivedTypeOK, Procs, Work
<1>1. UNCHANGED trait
  BY <1>0, NextIsStep, MoverIsAlone, StarterIsAlone DEF Delete, facts, vars
<1>2. \A r \in Runs : status[r] = "tombstoned" => status'[r] = "tombstoned"
  BY <1>0, TombstonesStay
<1>3. ASSUME b \in Runs, t \in Runs, pairs[<<b, t>>] \in {"bare", "delta"}
      PROVE  pairs'[<<b, t>>] = pairs[<<b, t>>]
  BY <1>3, PairsStay
<1> USE DEF HealInv, Pair, Tombstoned, SameEngine
\* Steps of anybody else leave c with the same answer, and the same reason.
<1>4. ASSUME pc'[c] = pc[c], work'[c] = work[c] PROVE HealInv(c)'
  BY <1>b, <1>0, <1>1, <1>2, <1>3, <1>4
<1>5. ASSUME NEW p \in Procs \ {c}, Moves(p) \/ Starts(p) PROVE HealInv(c)'
  <2>1. pc'[c] = pc[c] /\ work'[c] = work[c]
    BY <1>0, <1>5, MoverIsAlone, StarterIsAlone
  <2> QED BY <1>4, <2>1
<1>6. CASE Starts(c)
  <2>1. BeginClient(c)
    BY <1>0, <1>6 DEF Starts
  <2>2. CASE \E x, y \in Runs, verb \in {"compare", "regression"} :
               Begin(c, "check", FreshWork(verb, x, y, Default))
    <3>1. /\ pc'[c] = "check" /\ work'[c].regression = "none" /\ ~work'[c].delta
          /\ work'[c].baseline \in Runs /\ work'[c].target \in Runs
      BY <1>0, <2>2 DEF Begin, Goes, Keeps, FreshWork
    <3> QED BY <3>1 DEF Comparing
  <2>3. CASE \/ Begin(c, "pick", FreshWork("latest", 0, 0, Default))
             \/ \E x \in Runs, fl \in Flags :
                  Begin(c, "loc_check", FreshWork("localize", 0, x, fl))
    <3>1. work'[c].verb \in {"latest", "localize"}
      BY <1>0, <2>3 DEF Begin, Keeps, FreshWork
    <3> QED BY <3>1
  <2> QED BY <2>1, <2>2, <2>3 DEF BeginClient
<1>7. CASE Compare(c)
  <2>1. work'[c].verb = work[c].verb
    <3>1. CASE Pick(c)
      BY <1>0, <3>1, WorkFields DEF Pick, Keeps
    <3>2. CASE Base(c)
      BY <1>0, <3>2, WorkFields DEF Base, Keeps
    <3>3. CASE Check(c) \/ Recheck(c) \/ PairOpen(c)
      BY <3>3 DEF Check, Recheck, PairOpen, facts
    <3>8. CASE View(c)
      BY <1>0, <3>8, WorkFields DEF View, Keeps
    <3>4. CASE Cache(c)
      BY <1>0, <3>4, WorkFields DEF Cache, Keeps
    <3>5. CASE ReadBase(c)
      BY <1>0, <3>5, WorkFields DEF ReadBase, Keeps
    <3>6. CASE ReadTarget(c)
      BY <1>0, <3>6, WorkFields DEF ReadTarget, Keeps
    <3>7. CASE PairWrite(c)
      BY <1>0, <3>7, WorkFields DEF PairWrite, Keeps
    <3> QED BY <1>7, <3>1, <3>2, <3>3, <3>4, <3>5, <3>6, <3>7, <3>8 DEF Compare
  <2> SUFFICES ASSUME work[c].verb \in {"compare", "regression"} PROVE HealInv(c)'
    BY <2>1
  <2>2. b \in Runs /\ t \in Runs /\ <<b, t>> \in Runs \X Runs
    BY <1>b, <1>0
  <2>3. /\ NoRegression(c) \in {"view", "refused"}
        /\ HasRegression(c) \in {"view", "done"}
    BY DEF NoRegression, HasRegression, Then
  \* What the two sides have, while no run is deleted.
  <2>4. ASSUME status[b] = "tombstoned" \/ status[t] = "tombstoned" \/ ~SameEngine(b, t)
        PROVE  status'[b] = "tombstoned" \/ status'[t] = "tombstoned" \/ ~SameEngine(b, t)'
    BY <1>1, <1>2, <2>2, <2>4
  <2>5. CASE Pick(c) \/ Base(c)
    BY <1>0, <2>5 DEF Pick, Base, At, Comparing, Ended
  <2>6. CASE Check(c) \/ Recheck(c)
    <3>1. /\ pc[c] \in Comparing /\ work'[c] = work[c]
          /\ \/ pc'[c] \in Comparing
             \/ /\ pc'[c] = NoRegression(c)
                /\ status[b] = "tombstoned" \/ status[t] = "tombstoned" \/ ~SameEngine(b, t)
      BY <1>b, <1>0, <2>6 DEF Check, Recheck, At, Goes, facts, Comparing
    <3> QED BY <1>b, <1>0, <2>2, <2>3, <2>4, <3>1 DEF Comparing, Ended
  <2>7. CASE Cache(c)
    <3>1. /\ pc[c] = "cache" /\ UNCHANGED pairs
          /\ \/ /\ pairs[<<b, t>>] \in {"bare", "delta"} /\ pc'[c] = HasRegression(c)
                /\ work'[c] = [work[c] EXCEPT !.regression = pairs[<<b, t>>]]
             \/ pc'[c] = "recheck" /\ work'[c] = work[c]
      BY <1>b, <1>0, <2>7 DEF Cache, At, Goes, Keeps, facts
    <3>2. CASE work'[c] = work[c] /\ pc'[c] = "recheck"
      BY <1>b, <1>0, <2>2, <3>1, <3>2 DEF Comparing, Ended
    <3>3. CASE /\ pairs[<<b, t>>] \in {"bare", "delta"} /\ pc'[c] = HasRegression(c)
               /\ work'[c] = [work[c] EXCEPT !.regression = pairs[<<b, t>>]]
      <4>1. /\ work'[c].regression = pairs[<<b, t>>] /\ ~work'[c].delta
            /\ work'[c].baseline = b /\ work'[c].target = t
        BY <1>b, <1>0, <3>1, <3>3, WorkFields DEF Comparing
      <4> QED BY <2>2, <2>3, <3>1, <3>3, <4>1 DEF Comparing, Ended
    <3> QED BY <3>1, <3>2, <3>3
  <2>8. CASE ReadBase(c)
    <3>1. /\ pc[c] = "read_base" /\ work'[c] = [work[c] EXCEPT !.change = "bare"]
          /\ pc'[c] = CASE cov[b] = "torn" -> "died" [] cov[b] = "none" -> "pair_open"
                        [] cov[b] = "ok" -> "read_target"
      BY <1>b, <1>0, <2>8 DEF ReadBase, At, Goes, Keeps
    <3>2. cov[b] \in {"none", "torn", "ok"}
      BY <1>0, <2>2 DEF DerivedTypeOK
    <3>3. /\ work'[c].regression = regression
          /\ work'[c].baseline = b /\ work'[c].target = t
      BY <1>b, <1>0, <3>1, WorkFields
    <3> QED BY <1>b, <1>0, <2>2, <3>1, <3>2, <3>3 DEF Comparing, Ended
  <2>9. CASE ReadTarget(c)
    <3>1. /\ pc[c] = "read_target" /\ pc'[c] \in {"died", "pair_open"}
          /\ \E v : work'[c] = [work[c] EXCEPT !.change = v]
      BY <1>0, <2>9 DEF ReadTarget, At, Goes, Keeps
    <3>2. /\ work'[c].regression = regression
          /\ work'[c].baseline = b /\ work'[c].target = t
      BY <1>b, <1>0, <3>1, WorkFields
    <3> QED BY <1>b, <1>0, <2>2, <3>1, <3>2 DEF Comparing, Ended
  <2>10. CASE PairOpen(c)
    <3>1. pc[c] = "pair_open" /\ pc'[c] = "pair_write" /\ work'[c] = work[c]
      BY <1>0, <2>10 DEF PairOpen, At, Goes
    <3> QED BY <1>b, <1>0, <2>2, <3>1 DEF Comparing, Ended
  <2>11. CASE PairWrite(c)
    <3> DEFINE change == work[c].change
    <3>1. /\ pc[c] = "pair_write" /\ pc'[c] = HasRegression(c)
          /\ work'[c] = [work[c] EXCEPT !.regression = change]
          /\ pairs' = [pairs EXCEPT ![<<b, t>>] = change]
      BY <1>b, <1>0, <2>11 DEF PairWrite, At, Goes, Keeps
    <3>2. change # "none"
      BY <1>0, <3>1 DEF VerbInv, ComparingInv
    <3>3. pairs'[<<b, t>>] = change
      BY <1>0, <2>2, <3>1 DEF DerivedTypeOK
    <3>4. /\ work'[c].regression = change /\ ~work'[c].delta
          /\ work'[c].baseline = b /\ work'[c].target = t
      BY <1>b, <1>0, <3>1, WorkFields DEF Comparing
    <3> QED BY <2>2, <2>3, <3>1, <3>2, <3>3, <3>4 DEF Comparing, Ended
  <2>12. CASE View(c)
    <3>1. /\ pc[c] = "view" /\ UNCHANGED pairs /\ pc'[c] \in {"died", "done"}
          /\ work'[c] = [work[c] EXCEPT !.delta = HasDelta(b, t)]
      BY <1>b, <1>0, <2>12 DEF View, At, Goes, Keeps, facts
    <3>2. /\ regression = "none" =>
               status[b] = "tombstoned" \/ status[t] = "tombstoned" \/ ~SameEngine(b, t)
          /\ regression # "none" => pairs[<<b, t>>] = regression
      BY <1>b, <1>0, <3>1
    <3>3. /\ work'[c].regression = regression /\ work'[c].delta = HasDelta(b, t)
          /\ work'[c].baseline = b /\ work'[c].target = t
      BY <1>b, <1>0, <3>1, WorkFields
    <3>4. HasDelta(b, t) /\ pairs[<<b, t>>] = regression /\ regression # "none" => regression = "delta"
      BY <1>0, <2>2, SoloSteps DEF HasDelta, SoloInv, PairFinal
    <3> QED BY <2>2, <2>4, <3>1, <3>2, <3>3, <3>4 DEF Comparing, Ended
  <2> QED BY <1>7, <2>5, <2>6, <2>7, <2>8, <2>9, <2>10, <2>11, <2>12 DEF Compare
<1>8. CASE Localize(c)
  <2>1. work[c].verb \notin {"compare", "regression"}
    BY <1>0, <1>8 DEF Localize, LocCheck, LocProbe, LocRead, LocCov, LocReg, LocWrite, Policy,
                      At, Comparing, Ended
  <2>2. work'[c].verb = work[c].verb
    <3>1. CASE LocCheck(c) \/ LocProbe(c)
      BY <3>1 DEF LocCheck, LocProbe, facts
    <3>2. CASE LocRead(c)
      BY <1>0, <3>2, WorkFields DEF LocRead, Keeps
    <3>3. CASE LocCov(c)
      BY <1>0, <3>3, WorkFields DEF LocCov, Keeps
    <3>4. CASE LocReg(c)
      BY <1>0, <3>4, WorkFields DEF LocReg, Keeps
    <3>5. CASE LocWrite(c)
      BY <1>0, <3>5, WorkFields DEF LocWrite, Keeps
    <3>6. CASE Policy(c)
      <4>1. [work[c] EXCEPT !.again = TRUE, !.finding = NoFinding].verb = work[c].verb
        BY <1>0, WorkFields
      <4> QED BY <1>0, <3>6, <4>1 DEF Policy, Keeps
    <3> QED BY <1>8, <3>1, <3>2, <3>3, <3>4, <3>5, <3>6 DEF Localize
  <2> QED BY <2>1, <2>2
<1>9. CASE Crash(c)
  <2>1. pc'[c] = "crashed" /\ work'[c] = work[c]
    BY <1>0, <1>9 DEF Crash, Goes
  <2> QED BY <1>0, <2>1 DEF Ended, Comparing
<1>10. ASSUME NEW r \in Runs, Delete(r) PROVE HealInv(c)'
  BY <1>4, <1>10 DEF Delete
<1>11. CASE UNCHANGED vars
  BY <1>4, <1>11 DEF vars
<1> QED BY <1>0, <1>5, <1>6, <1>7, <1>8, <1>9, <1>10, <1>11, NextIsStep DEF Moves

\* At the start no verb runs, and the facts there are were derived from settled runs.
LEMMA SoloInvInit == Init => SoloInv
<1> SUFFICES ASSUME Init PROVE SoloInv
  OBVIOUS
<1>0. DerivedTypeOK /\ Runs \subseteq Procs /\ Clients \subseteq Procs /\ Clients \cap Runs = {}
  BY InitIsTyped, FactsConstants DEF Procs
<1>1. \A p \in Procs : pc[p] \in {"done", "idle"} /\ (p \in Runs /\ p <= Old => pc[p] = "done")
  BY DEF Init
<1>2. Evidenced
  BY <1>0, <1>1 DEF Init, Evidenced
<1>3. Alone
  BY <1>1 DEF Alone, InFlight, Steps
<1>4. \A b, t \in Runs : PairFinal(b, t)
  <2>1. \A b, t \in Runs : pairs[<<b, t>>] = "none"
    BY DEF Init
  <2> QED BY <2>1 DEF PairFinal
<1>5. ASSUME NEW r \in Runs PROVE FindingFinal(r)
  <2>1. findings[r] \in OldFinding(r)
    BY DEF Init
  <2>2. CASE findings[r] = NoFinding
    BY <2>2 DEF FindingFinal
  <2>3. CASE findings[r] # NoFinding
    <3>1. findings[r] = Finding(ModeOf(r), Default, FALSE, FALSE) /\ r <= Old
      BY <2>1, <2>3 DEF OldFinding
    <3>2. findings[r].mode = ModeOf(r) /\ ~findings[r].weighed
      BY <3>1 DEF Finding
    <3>3. Settled(r)
      BY <1>0, <1>1, <3>1 DEF Settled
    <3>4. cov[r] # "torn"
      BY DEF Init
    <3> QED BY <3>2, <3>3, <3>4 DEF FindingFinal
  <2> QED BY <2>2, <2>3
<1>6. \A p \in Procs : VerbInv(p)
  BY <1>1 DEF VerbInv, ComparingInv, LocalizingInv, Comparing, Localizing
<1>7. ASSUME NEW c \in Clients PROVE HealInv(c)
  <2>1. work[c].verb = "run"
    BY <1>0 DEF Init, FreshWork
  <2> QED BY <2>1 DEF HealInv
<1> QED BY <1>2, <1>3, <1>4, <1>5, <1>6, <1>7 DEF SoloInv

\* Verbs that do not overlap keep every cache in agreement with what it was
\* derived from, wherever each of them crashes.
LEMMA SoloInvHolds == Spec => [](TypedInv /\ SoloInv)
<1>1. Init => TypedInv /\ SoloInv
  BY TypedInvInit, SoloInvInit
<1>2. TypedInv /\ SoloInv /\ [Next]_vars => TypedInv' /\ SoloInv'
  <2> SUFFICES ASSUME TypedInv, SoloInv, [Next]_vars PROVE TypedInv' /\ SoloInv'
    OBVIOUS
  <2>1. Evidenced'
    BY EvidencedStep DEF SoloInv
  <2>2. ASSUME ~overlapped'
        PROVE  /\ Alone'
               /\ \A b, t \in Runs : PairFinal(b, t)'
               /\ \A r \in Runs : FindingFinal(r)'
               /\ \A p \in Procs : VerbInv(p)'
               /\ \A c \in Clients : HealInv(c)'
    BY <2>2, AloneStep, PairFinalStep, FindingFinalStep, VerbInvStep, HealInvStep
  <2> QED BY <2>1, <2>2, TypedInvStep DEF SoloInv
<1> QED BY <1>1, <1>2, PTL DEF Spec

\* While verbs do not overlap, nothing is cached before what it is derived from
\* is final: a pair has a coverage change exactly when both sides have coverage
\* facts, and the mode of a finding is that of its run's.
THEOREM FactsAreFinalHolds == Spec => []FactsAreFinal
<1>1. SoloInv => FactsAreFinal
  BY DEF SoloInv, FactsAreFinal, PairFinal, FindingFinal
<1> QED BY <1>1, SoloInvHolds, PTL

\* While verbs do not overlap, a comparison is refused only for a deleted side
\* or another engine, whatever a crashed verb left of the pair, and its answer
\* is what the cache holds, then and later.
THEOREM ComparisonHealsHolds == Spec => []ComparisonHeals
<1>1. SoloInv => ComparisonHeals
  BY DEF SoloInv, ComparisonHeals, HealInv
<1> QED BY <1>1, SoloInvHolds, PTL
===============================================================================
