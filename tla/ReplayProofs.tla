----------------------------- MODULE ReplayProofs -----------------------------
(***************************************************************************)
(* Proofs about Replay: for any records, sessions and numbers of reruns,   *)
(* with deletes, resets and deaths anywhere between the steps.             *)
(***************************************************************************)
EXTENDS Replay, FiniteSetTheorems, WellFoundedInduction, TLAPS

Phases == {"idle", "begun", "probe", "loop", "store", "publish", "ended"}
Verdicts == {"passed", "failed", "errored"}
EndsOfRun == Verdicts \cup {"crashed"}

(* The variables but the two that hold results of any shape.               *)
Typed ==
  /\ status \in [Runs -> Status]
  /\ store \in {"ready", "gone"} /\ resets \in 0..MaxResets
  /\ minted \in Old..Last
  /\ content \in [Runs -> Records \cup {NoRecord}]
  /\ DOMAIN published = Runs
  /\ pc \in [Sessions -> Phases]
  /\ orig \in [Sessions -> Runs]
  /\ context \in [Sessions -> Records \cup {NoRecord}]
  /\ left \in [Sessions -> Int]
  /\ attempts \in [Sessions -> Seq(Runs \cup {Crashed})]
  /\ rerun \in [Sessions -> Runs \cup {Crashed}]
  /\ DOMAIN staged = Sessions
  /\ asked \in [Sessions -> Nat]
  /\ happened \in [Sessions -> Seq(EndsOfRun)]

(* What has evidence was minted, and has a record that stays as it is.     *)
Stored ==
  \A r \in Runs : status[r] # "absent" => r <= minted /\ content[r] \in Records

(* A rerun of session s: minted after its original was there.              *)
RerunOf(s, r) == r \in Runs /\ orig[s] < r /\ r <= minted /\ content[r] \in Records

EndOf(try) == IF try = Crashed THEN "crashed" ELSE content[try].status

(* What a session has tried is what it has seen happen, in that order.     *)
Accounted(s) ==
  /\ Len(attempts[s]) <= Len(happened[s])
  /\ \A i \in DOMAIN attempts[s] :
       /\ happened[s][i] = EndOf(attempts[s][i])
       /\ attempts[s][i] # Crashed => RerunOf(s, attempts[s][i]) /\ status[attempts[s][i]] # "absent"

(* What is to go and what has happened make what was asked for.            *)
Counted(s) ==
  /\ pc[s] = "idle" => asked[s] = 0
  /\ pc[s] \in {"idle", "begun", "probe"} => attempts[s] = <<>> /\ happened[s] = <<>>
  /\ pc[s] \in {"loop", "publish"} => Len(happened[s]) = Len(attempts[s])
  /\ pc[s] = "store" => Len(happened[s]) = Len(attempts[s]) + 1
  /\ pc[s] \in {"begun", "probe", "loop", "store"} =>
       /\ Len(happened[s]) <= asked[s]
       /\ IF left[s] >= 0 THEN left[s] = asked[s] - Len(happened[s]) ELSE asked[s] = 0
  /\ pc[s] = "publish" => Len(happened[s]) = asked[s]

(* What a session remembers is still so.                                   *)
Remembered(s) ==
  /\ pc[s] # "idle" => orig[s] <= minted /\ content[orig[s]] \in Records
  /\ pc[s] \in {"probe", "loop", "store", "publish"} => context[s] = content[orig[s]]
  /\ pc[s] = "store" => RerunOf(s, rerun[s]) /\ happened[s][Len(happened[s])] = content[rerun[s]].status
  /\ pc[s] = "publish" => staged[s].result =
       [by |-> s, verdict |-> Classify(content[orig[s]], attempts[s], content)]

SessionInv(s) == Accounted(s) /\ Counted(s) /\ Remembered(s)

(* No run is tried twice, nor stored twice.                                *)
Apart ==
  \A s, q \in Sessions :
    /\ \A i \in DOMAIN attempts[s], j \in DOMAIN attempts[q] :
         attempts[s][i] = attempts[q][j] /\ attempts[s][i] # Crashed => s = q /\ i = j
    /\ pc[s] = "store" =>
         /\ \A j \in DOMAIN attempts[q] : attempts[q][j] # rerun[s]
         /\ pc[q] = "store" /\ rerun[q] = rerun[s] => q = s

(* A published result is the verdict of the session that ended with it.    *)
ResultOf(r, s) ==
  /\ published[r] = [by |-> s, verdict |-> Classify(content[r], attempts[s], content)]
  /\ pc[s] = "ended" /\ orig[s] = r
  /\ Len(happened[s]) = Len(attempts[s]) /\ Len(happened[s]) = asked[s]

Published ==
  \A r \in Runs : published[r] # NoResult => \E s \in Sessions : ResultOf(r, s)

ReplayInv ==
  Typed /\ Stored /\ (\A s \in Sessions : SessionInv(s)) /\ Apart /\ Published

-----------------------------------------------------------------------------
(***************************************************************************)
(* What a step leaves alone                                                *)
(***************************************************************************)

\* NoRecord is not a record, and no run is the mark of a crash.
LEMMA RecordFacts ==
  /\ NoRecord \notin Records
  /\ Crashed \notin Runs
  /\ \A rec \in Records : rec.status \in Verdicts
BY ReplayRecords, ReplayRuns DEF NoRecord, Crashed, Verdicts

\* The verdict, given how each execution ended and what the reruns were.
VerdictOn(original, tries, outcomes, reruns) ==
  LET differ == {i \in DOMAIN outcomes : outcomes[i] # original.status}
      unable == \A i \in DOMAIN outcomes : outcomes[i] = "errored"
  IN  [class |-> IF unable THEN "unable_to_replay"
                 ELSE IF differ = {} THEN "reproducible" ELSE "inconsistent",
       total |-> Len(tries),
       failed |-> IF unable THEN 0 ELSE Cardinality(differ),
       outcomes |-> outcomes,
       test |-> IF unable \/ differ = {} THEN NoTest ELSE FocalTest(original, reruns),
       replayed |-> FirstParsed(tries)]

\* Two contents that agree on the reruns of a session give one verdict.
LEMMA ClassifyStable ==
  ASSUME NEW original, NEW tries, NEW b, NEW c,
         \A i \in Parsed(tries) : b[tries[i]] = c[tries[i]]
  PROVE  Classify(original, tries, b) = Classify(original, tries, c)
PROOF
<1>1. \A i \in DOMAIN tries : OutcomeOf(tries[i], b) = OutcomeOf(tries[i], c)
  BY DEF OutcomeOf, Parsed
<1>2. [i \in DOMAIN tries |-> OutcomeOf(tries[i], b)] = [i \in DOMAIN tries |-> OutcomeOf(tries[i], c)]
  BY <1>1
<1>3. {b[tries[i]] : i \in Parsed(tries)} = {c[tries[i]] : i \in Parsed(tries)}
  OBVIOUS
<1> DEFINE of(body) == [i \in DOMAIN tries |-> OutcomeOf(tries[i], body)]
           reruns(body) == {body[tries[i]] : i \in Parsed(tries)}
<1>4. \A body : Classify(original, tries, body) = VerdictOn(original, tries, of(body), reruns(body))
  BY DEF Classify, VerdictOn
<1>5. of(b) = of(c) /\ reruns(b) = reruns(c)
  BY <1>2, <1>3
<1> HIDE DEF of, reruns
<1> QED
  BY <1>4, <1>5

\* Every step only adds records and evidence.
Grows ==
  /\ minted <= minted'
  /\ \A r \in Runs :
       /\ r <= minted => content'[r] = content[r]
       /\ status[r] # "absent" => status'[r] # "absent"

Keeps(q) ==
  /\ pc'[q] = pc[q] /\ orig'[q] = orig[q] /\ context'[q] = context[q] /\ left'[q] = left[q]
  /\ attempts'[q] = attempts[q] /\ rerun'[q] = rerun[q] /\ staged'[q] = staged[q]
  /\ asked'[q] = asked[q] /\ happened'[q] = happened[q]

LEMMA GrowsRerunOf ==
  ASSUME Typed, Typed', Grows, NEW s \in Sessions, orig'[s] = orig[s], NEW r, RerunOf(s, r)
  PROVE  RerunOf(s, r)' /\ content'[r] = content[r]
PROOF
<1>1. /\ r \in Int /\ minted \in Int /\ minted' \in Int /\ r <= minted'
  BY ReplayRuns DEF Typed, RerunOf, Grows
<1> QED
  BY <1>1 DEF RerunOf, Grows

LEMMA MoreHappened ==
  ASSUME Typed, Typed', Grows, NEW q \in Sessions, orig'[q] = orig[q], attempts'[q] = attempts[q],
         Len(attempts[q]) <= Len(happened'[q]),
         \A i \in DOMAIN attempts[q] : happened'[q][i] = happened[q][i], Accounted(q)
  PROVE  Accounted(q)'
PROOF
<1> SUFFICES ASSUME NEW i \in DOMAIN attempts[q]
             PROVE  /\ happened[q][i] = EndOf(attempts[q][i])'
                    /\ attempts[q][i] # Crashed =>
                         RerunOf(q, attempts[q][i])' /\ status'[attempts[q][i]] # "absent"
  BY DEF Accounted
<1>1. CASE attempts[q][i] = Crashed
  BY <1>1 DEF EndOf, Accounted
<1>2. CASE attempts[q][i] # Crashed
  <2>1. RerunOf(q, attempts[q][i]) /\ status[attempts[q][i]] # "absent"
    BY <1>2 DEF Accounted
  <2>2. RerunOf(q, attempts[q][i])' /\ content'[attempts[q][i]] = content[attempts[q][i]]
    BY <2>1, GrowsRerunOf
  <2>3. status'[attempts[q][i]] # "absent"
    BY <2>1 DEF Grows, RerunOf
  <2> QED
    BY <1>2, <2>2, <2>3 DEF EndOf, Accounted
<1> QED
  BY <1>1, <1>2

LEMMA GrowsAccounted ==
  ASSUME Typed, Typed', Grows, NEW q \in Sessions, orig'[q] = orig[q],
         attempts'[q] = attempts[q], happened'[q] = happened[q], Accounted(q)
  PROVE  Accounted(q)'
BY MoreHappened DEF Accounted

LEMMA GrowsClassify ==
  ASSUME Typed, Grows, NEW s \in Sessions, Accounted(s), NEW original
  PROVE  Classify(original, attempts[s], content') = Classify(original, attempts[s], content)
PROOF
<1>1. \A i \in Parsed(attempts[s]) : content'[attempts[s][i]] = content[attempts[s][i]]
  BY DEF Parsed, Accounted, RerunOf, Grows
<1> QED
  BY <1>1, ClassifyStable

LEMMA GrowsOriginal ==
  ASSUME Typed, Typed', Grows, NEW r \in Runs, r <= minted, content[r] \in Records
  PROVE  r <= minted' /\ content'[r] = content[r]
PROOF
<1>1. r \in Int /\ minted \in Int /\ minted' \in Int
  BY ReplayRuns DEF Typed
<1> QED
  BY <1>1 DEF Grows

LEMMA OthersKeep ==
  ASSUME Typed, Typed', Grows, NEW q \in Sessions, Keeps(q), SessionInv(q)
  PROVE  SessionInv(q)'
PROOF
<1>1. Accounted(q)'
  BY GrowsAccounted DEF Keeps, SessionInv
<1>2. Counted(q)'
  BY DEF Keeps, SessionInv, Counted
<1>3. orig[q] \in Runs
  BY DEF Typed
<1>4. pc[q] # "idle" => orig[q] <= minted' /\ content'[orig[q]] = content[orig[q]] /\ content[orig[q]] \in Records
  BY <1>3, GrowsOriginal DEF SessionInv, Remembered
<1>5. pc[q] = "store" => RerunOf(q, rerun[q])' /\ content'[rerun[q]] = content[rerun[q]]
  BY GrowsRerunOf DEF Keeps, SessionInv, Remembered
<1>6. \A original : Classify(original, attempts[q], content') = Classify(original, attempts[q], content)
  BY GrowsClassify DEF SessionInv
<1>7. Remembered(q)'
  <2>1. pc[q] = "publish" => staged[q].result =
          [by |-> q, verdict |-> Classify(content'[orig[q]], attempts[q], content')]
    BY <1>4, <1>6 DEF SessionInv, Remembered
  <2>2. pc[q] # "idle" => orig[q] <= minted' /\ content'[orig[q]] \in Records
    BY <1>4
  <2>3. pc[q] \in {"probe", "loop", "store", "publish"} => context[q] = content'[orig[q]]
    BY <1>4 DEF SessionInv, Remembered
  <2>4. pc[q] = "store" => RerunOf(q, rerun[q])' /\ happened[q][Len(happened[q])] = content'[rerun[q]].status
    BY <1>5 DEF SessionInv, Remembered
  <2> QED
    BY <2>1, <2>2, <2>3, <2>4 DEF Keeps, Remembered
<1> QED
  BY <1>1, <1>2, <1>7 DEF SessionInv

\* A session that has ended is not taken up again, so what it published stays.
LEMMA PublishedKeeps ==
  ASSUME Typed, Typed', Grows, \A s \in Sessions : SessionInv(s), NEW r \in Runs, NEW s \in Sessions, ResultOf(r, s),
         published'[r] = published[r], Keeps(s)
  PROVE  ResultOf(r, s)'
PROOF
<1>1. content[r] \in Records /\ r <= minted
  BY DEF ResultOf, SessionInv, Remembered
<1>2. content'[r] = content[r]
  BY <1>1, GrowsOriginal
<1>3. Classify(content[r], attempts[s], content') = Classify(content[r], attempts[s], content)
  BY GrowsClassify DEF SessionInv
<1> QED
  BY <1>2, <1>3 DEF ResultOf, Keeps

-----------------------------------------------------------------------------
(***************************************************************************)
(* The steps of a session                                                  *)
(***************************************************************************)

LEMMA SessionStep ==
  ASSUME ReplayInv, Typed', Stored', Grows, NEW s \in Sessions, pc[s] # "ended",
         \A q \in Sessions \ {s} : Keeps(q), SessionInv(s)', Apart', published' = published
  PROVE  ReplayInv'
PROOF
<1>1. \A q \in Sessions : SessionInv(q)'
  BY OthersKeep DEF ReplayInv
<1>2. Published'
  <2> SUFFICES ASSUME NEW r \in Runs, published[r] # NoResult
               PROVE  \E w \in Sessions : ResultOf(r, w)'
    BY DEF Published
  <2>1. PICK w \in Sessions : ResultOf(r, w)
    BY DEF ReplayInv, Published
  <2>2. Keeps(w)
    BY <2>1 DEF ResultOf
  <2> QED
    BY <2>1, <2>2, PublishedKeeps DEF ReplayInv
<1> QED
  BY <1>1, <1>2 DEF ReplayInv

\* Where no attempt is added and no rerun begun, runs stay apart.
LEMMA ApartKeeps ==
  ASSUME Apart, attempts' = attempts,
         \A q \in Sessions : pc'[q] = "store" => pc[q] = "store" /\ rerun'[q] = rerun[q]
  PROVE  Apart'
BY DEF Apart

LEMMA StoredKeeps ==
  ASSUME Stored, UNCHANGED <<status, content, minted>>
  PROVE  Stored' /\ (Typed => Grows)
BY ReplayRuns DEF Stored, Grows, Typed

\* What every way out of a session leaves behind.
LEMMA EndKeeps ==
  ASSUME ReplayInv, NEW s \in Sessions, NEW how, End(s, how), pc[s] # "idle",
         UNCHANGED <<content, minted, status, attempts, orig, happened, asked, store, resets>>,
         DOMAIN published' = Runs
  PROVE  Typed' /\ Stored' /\ Grows /\ SessionInv(s)' /\ Apart' /\ \A q \in Sessions \ {s} : Keeps(q)
PROOF
<1>1. Typed'
  BY DEF ReplayInv, Typed, End, Phases
<1>2. Stored' /\ Grows
  BY StoredKeeps DEF ReplayInv
<1>3. pc'[s] = "ended"
  BY DEF ReplayInv, Typed, End
<1>4. SessionInv(s)'
  <2>1. Accounted(s)'
    BY <1>1, <1>2, GrowsAccounted DEF ReplayInv, SessionInv
  <2>2. Counted(s)'
    BY <1>3 DEF Counted
  <2>3. Remembered(s)'
    BY <1>3 DEF Remembered, ReplayInv, SessionInv
  <2> QED
    BY <2>1, <2>2, <2>3 DEF SessionInv
<1>5. \A q \in Sessions \ {s} : Keeps(q)
  BY DEF Keeps, End, ReplayInv, Typed
<1>6. Apart'
  BY <1>3, <1>5, ApartKeeps DEF ReplayInv, Keeps
<1> QED
  BY <1>1, <1>2, <1>4, <1>5, <1>6

LEMMA EndSteps ==
  ASSUME ReplayInv, NEW s \in Sessions, NEW how, End(s, how), pc[s] \notin {"idle", "ended"},
         UNCHANGED shared, UNCHANGED <<orig, attempts, asked, happened>>
  PROVE  ReplayInv'
PROOF
<1>1. DOMAIN published' = Runs
  BY DEF shared, ReplayInv, Typed
<1> QED
  BY <1>1, EndKeeps, SessionStep DEF shared

LEMMA BeginStep ==
  ASSUME ReplayInv, NEW s \in Sessions, NEW r \in Runs, NEW k \in Reruns, Begin(s, r, k)
  PROVE  ReplayInv'
PROOF
<1>1. Typed'
  BY ReplayReruns DEF ReplayInv, Typed, Begin, shared, Phases
<1>2. Stored' /\ Grows
  BY StoredKeeps DEF ReplayInv, Begin, shared
<1>3. /\ pc[s] = "idle" /\ pc'[s] = "begun" /\ orig'[s] = r /\ left'[s] = k
      /\ asked'[s] = IF k > 0 THEN k ELSE 0
      /\ attempts'[s] = attempts[s] /\ happened'[s] = happened[s]
  BY DEF Begin, ReplayInv, Typed
<1>4. attempts[s] = <<>> /\ happened[s] = <<>>
  BY <1>3 DEF ReplayInv, SessionInv, Counted
<1>5. SessionInv(s)'
  <2>1. Accounted(s)'
    BY <1>3, <1>4 DEF Accounted
  <2>2. Counted(s)'
    BY <1>3, <1>4, ReplayReruns DEF Counted
  <2>3. Remembered(s)'
    BY <1>3 DEF Remembered, Begin, shared, ReplayInv, Stored
  <2> QED
    BY <2>1, <2>2, <2>3 DEF SessionInv
<1>6. \A q \in Sessions \ {s} : Keeps(q)
  BY DEF Keeps, Begin, ReplayInv, Typed
<1>7. Apart'
  BY <1>3, <1>6, ApartKeeps DEF ReplayInv, Begin, Keeps
<1> QED
  BY <1>1, <1>2, <1>3, <1>5, <1>6, <1>7, SessionStep DEF Begin, shared

LEMMA ReconstructStep ==
  ASSUME ReplayInv, NEW s \in Sessions, Reconstruct(s)
  PROVE  ReplayInv'
PROOF
<1>1. CASE End(s, "unavailable")
  BY <1>1, EndSteps DEF Reconstruct
<1>2. CASE ~End(s, "unavailable")
  <2>1. /\ pc[s] = "begun" /\ pc' = [pc EXCEPT ![s] = "probe"] /\ Replayable(orig[s])
        /\ context' = [context EXCEPT ![s] = content[orig[s]]]
        /\ UNCHANGED <<shared, left, rerun, staged, answer, orig, attempts, asked, happened>>
    BY <1>2 DEF Reconstruct
  <2>2. Typed'
    BY <2>1 DEF ReplayInv, Typed, shared, Phases
  <2>3. Stored' /\ Grows
    BY <2>1, StoredKeeps DEF ReplayInv, shared
  <2>4. pc'[s] = "probe" /\ context'[s] = content[orig[s]]
    BY <2>1 DEF ReplayInv, Typed
  <2>5. SessionInv(s)'
    <3>1. Accounted(s)'
      BY <2>1, <2>2, <2>3, GrowsAccounted DEF ReplayInv, SessionInv
    <3>2. Counted(s)'
      BY <2>1, <2>4 DEF Counted, ReplayInv, SessionInv
    <3>3. Remembered(s)'
      BY <2>1, <2>4 DEF Remembered, ReplayInv, SessionInv, shared
    <3> QED
      BY <3>1, <3>2, <3>3 DEF SessionInv
  <2>6. \A q \in Sessions \ {s} : Keeps(q)
    BY <2>1 DEF Keeps, ReplayInv, Typed
  <2>7. Apart'
    BY <2>1, <2>4, <2>6, ApartKeeps DEF ReplayInv, Keeps
  <2> QED
    BY <2>1, <2>2, <2>3, <2>5, <2>6, <2>7, SessionStep DEF shared
<1> QED
  BY <1>1, <1>2

LEMMA ProbeStep ==
  ASSUME ReplayInv, NEW s \in Sessions, Probe(s)
  PROVE  ReplayInv'
PROOF
<1>1. CASE End(s, "unavailable")
  BY <1>1, EndSteps DEF Probe
<1>2. CASE ~End(s, "unavailable")
  <2>1. /\ pc[s] = "probe" /\ pc' = [pc EXCEPT ![s] = "loop"]
        /\ UNCHANGED <<shared, locals, answer, orig, attempts, asked, happened>>
    BY <1>2 DEF Probe
  <2>2. Typed'
    BY <2>1 DEF ReplayInv, Typed, shared, locals, Phases
  <2>3. Stored' /\ Grows
    BY <2>1, StoredKeeps DEF ReplayInv, shared
  <2>4. pc'[s] = "loop"
    BY <2>1 DEF ReplayInv, Typed
  <2>5. SessionInv(s)'
    <3>1. Accounted(s)'
      BY <2>1, <2>2, <2>3, GrowsAccounted DEF ReplayInv, SessionInv
    <3>2. Counted(s)'
      BY <2>1, <2>4 DEF Counted, ReplayInv, SessionInv, locals
    <3>3. Remembered(s)'
      BY <2>1, <2>4 DEF Remembered, ReplayInv, SessionInv, shared, locals
    <3> QED
      BY <3>1, <3>2, <3>3 DEF SessionInv
  <2>6. \A q \in Sessions \ {s} : Keeps(q)
    BY <2>1 DEF Keeps, ReplayInv, Typed, locals
  <2>7. Apart'
    BY <2>1, <2>4, <2>6, ApartKeeps DEF ReplayInv, Keeps
  <2> QED
    BY <2>1, <2>2, <2>3, <2>5, <2>6, <2>7, SessionStep DEF shared
<1> QED
  BY <1>1, <1>2

LEMMA StageStep ==
  ASSUME ReplayInv, NEW s \in Sessions, Stage(s)
  PROVE  ReplayInv'
PROOF
<1>1. /\ pc[s] = "loop" /\ left[s] <= 0
      /\ staged' = [staged EXCEPT ![s] = [tree |-> resets, result |->
                      [by |-> s, verdict |-> Classify(context[s], attempts[s], content)]]]
      /\ pc' = [pc EXCEPT ![s] = "publish"]
      /\ UNCHANGED <<shared, orig, context, left, attempts, rerun, answer, asked, happened>>
  BY DEF Stage, NothingLeft
<1>2. Typed'
  BY <1>1 DEF ReplayInv, Typed, shared, Phases
<1>3. Stored' /\ Grows
  BY <1>1, StoredKeeps DEF ReplayInv, shared
<1>4. /\ pc'[s] = "publish"
      /\ staged'[s].result = [by |-> s, verdict |-> Classify(context[s], attempts[s], content)]
  BY <1>1 DEF ReplayInv, Typed
<1>5. SessionInv(s)'
  <2>1. Accounted(s)'
    BY <1>1, <1>2, <1>3, GrowsAccounted DEF ReplayInv, SessionInv
  <2>2. Counted(s)'
    <3>1. Len(happened[s]) = asked[s]
      <4>1. Len(happened[s]) \in Nat /\ asked[s] \in Nat /\ left[s] \in Int
        BY DEF ReplayInv, Typed
      <4> QED
        BY <1>1, <4>1 DEF Counted, ReplayInv, SessionInv
    <3> QED
      BY <1>1, <1>4, <3>1 DEF Counted, ReplayInv, SessionInv
  <2>3. Remembered(s)'
    BY <1>1, <1>4 DEF Remembered, ReplayInv, SessionInv, shared
  <2> QED
    BY <2>1, <2>2, <2>3 DEF SessionInv
<1>6. \A q \in Sessions \ {s} : Keeps(q)
  BY <1>1 DEF Keeps, ReplayInv, Typed
<1>7. Apart'
  BY <1>1, <1>4, <1>6, ApartKeeps DEF ReplayInv, Keeps
<1> QED
  BY <1>1, <1>2, <1>3, <1>5, <1>6, <1>7, SessionStep DEF shared

LEMMA DieStep ==
  ASSUME ReplayInv, NEW s \in Sessions, Die(s)
  PROVE  ReplayInv'
BY EndSteps DEF Die

\* A result is published as staged, by a session that has counted everything.
LEMMA PublishStep ==
  ASSUME ReplayInv, NEW s \in Sessions, Publish(s)
  PROVE  ReplayInv'
PROOF
<1>1. pc[s] = "publish" /\ UNCHANGED <<status, store, resets, content, minted, orig, attempts, asked, happened>>
  BY DEF Publish
<1>2. PICK how : End(s, how)
  BY DEF Publish
<1>3. DOMAIN published' = Runs
  BY DEF Publish, ReplayInv, Typed
<1>4. Typed' /\ Stored' /\ Grows /\ SessionInv(s)' /\ Apart' /\ \A q \in Sessions \ {s} : Keeps(q)
  BY <1>1, <1>2, <1>3, EndKeeps
<1>5. CASE published' = published
  BY <1>1, <1>4, <1>5, SessionStep
<1>6. CASE published' = [published EXCEPT ![orig[s]] = staged[s].result]
  <2>1. \A q \in Sessions : SessionInv(q)'
    BY <1>4, OthersKeep DEF ReplayInv
  <2>2. Published'
    <3> SUFFICES ASSUME NEW r \in Runs, published'[r] # NoResult
                 PROVE  \E w \in Sessions : ResultOf(r, w)'
      BY DEF Published
    <3>1. CASE r = orig[s]
      <4>1. published'[r] = [by |-> s, verdict |-> Classify(content[r], attempts[s], content)]
        BY <1>1, <1>6, <3>1 DEF ReplayInv, Typed, SessionInv, Remembered
      <4>2. Len(happened[s]) = Len(attempts[s]) /\ Len(happened[s]) = asked[s]
        BY <1>1 DEF ReplayInv, SessionInv, Counted
      <4>3. pc'[s] = "ended"
        BY <1>2 DEF End, ReplayInv, Typed
      <4>4. ResultOf(r, s)'
        BY <1>1, <3>1, <4>1, <4>2, <4>3 DEF ResultOf
      <4> QED
        BY <4>4
    <3>2. CASE r # orig[s]
      <4>1. published'[r] = published[r]
        BY <1>6, <3>2 DEF ReplayInv, Typed
      <4>2. PICK w \in Sessions : ResultOf(r, w)
        BY <4>1 DEF ReplayInv, Published
      <4>3. Keeps(w)
        BY <1>1, <1>4, <4>2 DEF ResultOf
      <4> QED
        BY <1>4, <4>1, <4>2, <4>3, PublishedKeeps DEF ReplayInv
    <3> QED
      BY <3>1, <3>2
  <2> QED
    BY <1>4, <2>1, <2>2 DEF ReplayInv
<1> QED
  BY <1>5, <1>6 DEF Publish

LEMMA Appended ==
  ASSUME NEW S, NEW q \in Seq(S), NEW x \in S
  PROVE  /\ Append(q, x) \in Seq(S) /\ Len(Append(q, x)) = Len(q) + 1 /\ Len(q) \in Nat
         /\ DOMAIN q = 1..Len(q) /\ DOMAIN Append(q, x) = 1..(Len(q) + 1)
         /\ DOMAIN Append(q, x) = DOMAIN q \cup {Len(q) + 1}
         /\ Append(q, x)[Len(q) + 1] = x
         /\ \A i \in DOMAIN q : Append(q, x)[i] = q[i]
OBVIOUS

\* A session stays accounted for when what it adds is what it saw happen.
LEMMA OneMoreTry ==
  ASSUME ReplayInv, Typed', Grows, NEW s \in Sessions, NEW try \in Runs \cup {Crashed},
         attempts'[s] = Append(attempts[s], try), orig'[s] = orig[s],
         Len(happened'[s]) = Len(attempts[s]) + 1,
         \A i \in DOMAIN attempts[s] : happened'[s][i] = happened[s][i],
         happened'[s][Len(attempts[s]) + 1] = EndOf(try)',
         try # Crashed => RerunOf(s, try)' /\ status'[try] # "absent"
  PROVE  Accounted(s)'
PROOF
<1> DEFINE tries == Append(attempts[s], try)
           Said(i, t) == /\ happened'[s][i] = IF t = Crashed THEN "crashed" ELSE content'[t].status
                         /\ t # Crashed => /\ t \in Runs /\ orig'[s] < t /\ t <= minted'
                                           /\ content'[t] \in Records /\ status'[t] # "absent"
<1>1. attempts[s] \in Seq(Runs \cup {Crashed})
  BY DEF ReplayInv, Typed
<1>2. /\ Len(tries) = Len(attempts[s]) + 1 /\ DOMAIN tries = DOMAIN attempts[s] \cup {Len(attempts[s]) + 1}
      /\ tries[Len(attempts[s]) + 1] = try
      /\ \A i \in DOMAIN attempts[s] : tries[i] = attempts[s][i]
  BY <1>1, Appended
<1>3. ASSUME NEW i \in DOMAIN attempts[s] PROVE Said(i, attempts[s][i])
  <2>1. CASE attempts[s][i] = Crashed
    BY <2>1 DEF ReplayInv, SessionInv, Accounted, EndOf
  <2>2. CASE attempts[s][i] # Crashed
    <3>1. RerunOf(s, attempts[s][i]) /\ status[attempts[s][i]] # "absent"
          /\ happened[s][i] = content[attempts[s][i]].status
      BY <2>2 DEF ReplayInv, SessionInv, Accounted, EndOf
    <3>2. RerunOf(s, attempts[s][i])' /\ content'[attempts[s][i]] = content[attempts[s][i]]
      <4>1. ReplayInv => Typed
        BY DEF ReplayInv
      <4> QED
        BY <3>1, <4>1, GrowsRerunOf
    <3>3. status'[attempts[s][i]] # "absent"
      BY <3>1 DEF Grows, RerunOf
    <3> QED
      BY <2>2, <3>1, <3>2, <3>3 DEF RerunOf
  <2> QED
    BY <2>1, <2>2
<1>4. Said(Len(attempts[s]) + 1, try)
  BY DEF EndOf, RerunOf
<1> HIDE DEF Said
<1>5. \A i \in DOMAIN tries : Said(i, tries[i])
  BY <1>2, <1>3, <1>4
<1>6. \A i \in DOMAIN attempts'[s] : Said(i, attempts'[s][i])
  BY <1>5
<1>7. Len(attempts'[s]) <= Len(happened'[s])
  BY <1>1, <1>2
<1> QED
  BY <1>6, <1>7 DEF Accounted, Said, EndOf, RerunOf

LEMMA RerunCrashesStep ==
  ASSUME ReplayInv, NEW s \in Sessions, RerunCrashes(s)
  PROVE  ReplayInv'
PROOF
<1>1. /\ pc[s] = "loop" /\ left[s] > 0
      /\ left' = [left EXCEPT ![s] = left[s] - 1]
      /\ attempts' = [attempts EXCEPT ![s] = Append(attempts[s], Crashed)]
      /\ happened' = [happened EXCEPT ![s] = Append(happened[s], "crashed")]
      /\ UNCHANGED <<shared, pc, orig, context, rerun, staged, answer, asked>>
  BY DEF RerunCrashes, CountCrashed
<1>2. /\ attempts[s] \in Seq(Runs \cup {Crashed}) /\ happened[s] \in Seq(EndsOfRun)
      /\ asked[s] \in Nat /\ left[s] \in Int
  BY DEF ReplayInv, Typed
<1>3. /\ attempts'[s] = Append(attempts[s], Crashed) /\ happened'[s] = Append(happened[s], "crashed")
      /\ left'[s] = left[s] - 1
  BY <1>1 DEF ReplayInv, Typed
<1>4. /\ Len(attempts'[s]) = Len(attempts[s]) + 1 /\ Len(happened'[s]) = Len(happened[s]) + 1
      /\ attempts'[s] \in Seq(Runs \cup {Crashed}) /\ happened'[s] \in Seq(EndsOfRun)
  BY <1>2, <1>3 DEF EndsOfRun
<1>5. Typed'
  BY <1>1, <1>4 DEF ReplayInv, Typed, shared
<1>6. Stored' /\ Grows
  BY <1>1, StoredKeeps DEF ReplayInv, shared
<1>7. Len(happened[s]) = Len(attempts[s])
  BY <1>1 DEF ReplayInv, SessionInv, Counted
<1>8. SessionInv(s)'
  <2>1. Accounted(s)'
    <3>1. /\ \A i \in DOMAIN attempts[s] : happened'[s][i] = happened[s][i]
          /\ happened'[s][Len(attempts[s]) + 1] = "crashed"
      <4>1. DOMAIN attempts[s] = DOMAIN happened[s] /\ "crashed" \in EndsOfRun
        BY <1>2, <1>7 DEF EndsOfRun
      <4> QED
        BY <1>2, <1>3, <1>7, <4>1, Appended
    <3>2. EndOf(Crashed)' = "crashed"
      BY DEF EndOf
    <3> QED
      BY <1>1, <1>3, <1>4, <1>5, <1>6, <1>7, <3>1, <3>2, OneMoreTry
  <2>2. Counted(s)'
    BY <1>1, <1>2, <1>3, <1>4, <1>7 DEF Counted, ReplayInv, SessionInv
  <2>3. Remembered(s)'
    BY <1>1 DEF Remembered, ReplayInv, SessionInv, shared
  <2> QED
    BY <2>1, <2>2, <2>3 DEF SessionInv
<1>9. \A q \in Sessions \ {s} : Keeps(q)
  BY <1>1 DEF Keeps, ReplayInv, Typed
<1>10. Apart'
  <2>1. \A q \in Sessions : \A i \in DOMAIN attempts'[q] : attempts'[q][i] # Crashed =>
          i \in DOMAIN attempts[q] /\ attempts'[q][i] = attempts[q][i]
    <3> SUFFICES ASSUME NEW q \in Sessions, NEW i \in DOMAIN attempts'[q], attempts'[q][i] # Crashed
                 PROVE  i \in DOMAIN attempts[q] /\ attempts'[q][i] = attempts[q][i]
      OBVIOUS
    <3>1. CASE q = s
      <4>1. DOMAIN attempts'[s] = DOMAIN attempts[s] \cup {Len(attempts[s]) + 1}
            /\ attempts'[s][Len(attempts[s]) + 1] = Crashed
            /\ \A j \in DOMAIN attempts[s] : attempts'[s][j] = attempts[s][j]
        BY <1>2, <1>3, Appended
      <4> QED
        BY <3>1, <4>1
    <3>2. CASE q # s
      BY <1>9, <3>2 DEF Keeps
    <3> QED
      BY <3>1, <3>2
  <2>2. \A q \in Sessions : pc[q] = "store" => rerun[q] # Crashed
    BY RecordFacts DEF ReplayInv, SessionInv, Remembered, RerunOf
  <2> QED
    BY <1>1, <2>1, <2>2 DEF Apart, ReplayInv
<1> QED
  BY <1>1, <1>5, <1>6, <1>8, <1>9, <1>10, SessionStep DEF shared

LEMMA RerunParsesStep ==
  ASSUME ReplayInv, NEW s \in Sessions, NEW rec \in Records, RerunParses(s, rec)
  PROVE  ReplayInv'
PROOF
<1>1. /\ pc[s] = "loop" /\ left[s] > 0 /\ minted < Last /\ minted' = minted + 1
      /\ left' = [left EXCEPT ![s] = left[s] - 1]
      /\ rerun' = [rerun EXCEPT ![s] = minted + 1]
      /\ content' = [content EXCEPT ![minted + 1] = rec]
      /\ happened' = [happened EXCEPT ![s] = Append(happened[s], rec.status)]
      /\ pc' = [pc EXCEPT ![s] = "store"]
      /\ UNCHANGED <<status, store, resets, published, orig, context, attempts, staged, answer, asked>>
  BY DEF RerunParses
<1>2. /\ attempts[s] \in Seq(Runs \cup {Crashed}) /\ happened[s] \in Seq(EndsOfRun)
      /\ asked[s] \in Nat /\ left[s] \in Int /\ minted \in Nat /\ minted + 1 \in Runs /\ orig[s] \in Runs
      /\ rec.status \in EndsOfRun /\ \A r \in Runs : r \in Int
  <2>1. /\ attempts[s] \in Seq(Runs \cup {Crashed}) /\ happened[s] \in Seq(EndsOfRun)
        /\ asked[s] \in Nat /\ left[s] \in Int /\ minted \in Old..Last /\ orig[s] \in Runs
    BY DEF ReplayInv, Typed
  <2>2. minted \in Nat /\ minted + 1 \in Runs /\ \A r \in Runs : r \in Int
    BY <1>1, <2>1, ReplayRuns
  <2>3. rec.status \in EndsOfRun
    BY RecordFacts DEF EndsOfRun
  <2> QED
    BY <2>1, <2>2, <2>3
<1>3. /\ happened'[s] = Append(happened[s], rec.status) /\ left'[s] = left[s] - 1
      /\ pc'[s] = "store" /\ rerun'[s] = minted + 1 /\ content'[minted + 1] = rec
  BY <1>1, <1>2 DEF ReplayInv, Typed
<1>4. /\ happened'[s] \in Seq(EndsOfRun) /\ Len(happened'[s]) = Len(happened[s]) + 1
      /\ happened'[s][Len(happened[s]) + 1] = rec.status
      /\ \A i \in DOMAIN happened[s] : happened'[s][i] = happened[s][i]
  <2> DEFINE more == Append(happened[s], rec.status)
  <2>1. /\ more \in Seq(EndsOfRun) /\ Len(more) = Len(happened[s]) + 1
        /\ more[Len(happened[s]) + 1] = rec.status
        /\ \A i \in DOMAIN happened[s] : more[i] = happened[s][i]
    BY <1>2, Appended
  <2> QED
    BY <1>3, <2>1
<1>5. Typed'
  BY <1>1, <1>2, <1>4, ReplayRuns DEF ReplayInv, Typed, Phases
<1>6. Stored' /\ Grows
  <2>1. \A r \in Runs : r <= minted => r <= minted' /\ content'[r] = content[r]
    BY <1>1, <1>2 DEF ReplayInv, Typed
  <2> QED
    BY <1>1, <1>2, <2>1 DEF ReplayInv, Stored, Grows
<1>7. Len(happened[s]) = Len(attempts[s]) /\ DOMAIN happened[s] = DOMAIN attempts[s]
  BY <1>1, <1>2 DEF ReplayInv, SessionInv, Counted
<1>8. SessionInv(s)'
  <2>1. Accounted(s)'
    <3>1. Len(attempts[s]) <= Len(happened'[s])
      BY <1>2, <1>4, <1>7
    <3>2. \A i \in DOMAIN attempts[s] : happened'[s][i] = happened[s][i]
      BY <1>4, <1>7
    <3> QED
      BY <1>1, <1>5, <1>6, <3>1, <3>2, MoreHappened DEF ReplayInv, SessionInv
  <2>2. Counted(s)'
    <3>1. Counted(s)
      BY DEF ReplayInv, SessionInv
    <3> QED
      BY <1>1, <1>2, <1>3, <1>4, <1>7, <3>1 DEF Counted
  <2>3. Remembered(s)'
    <3>1. /\ orig[s] <= minted /\ orig[s] <= minted' /\ content[orig[s]] \in Records
          /\ context[s] = content[orig[s]] /\ content'[orig[s]] = content[orig[s]]
      <4>1. Remembered(s)
        BY DEF ReplayInv, SessionInv
      <4>2. orig[s] <= minted /\ content[orig[s]] \in Records /\ context[s] = content[orig[s]]
        BY <1>1, <4>1 DEF Remembered
      <4> QED
        BY <1>1, <1>2, <1>6, <4>2 DEF Grows
    <3>2. RerunOf(s, rerun[s])'
      BY <1>1, <1>2, <1>3, <3>1 DEF RerunOf
    <3> QED
      BY <1>1, <1>3, <1>4, <3>1, <3>2 DEF Remembered
  <2> QED
    BY <2>1, <2>2, <2>3 DEF SessionInv
<1>9. \A q \in Sessions \ {s} : Keeps(q)
  BY <1>1 DEF Keeps, ReplayInv, Typed
<1>10. Apart'
  <2>1. \A q \in Sessions : \A j \in DOMAIN attempts[q] : attempts[q][j] # minted + 1
    BY <1>2, RecordFacts DEF ReplayInv, SessionInv, Accounted, RerunOf
  <2>2. \A q \in Sessions : pc[q] = "store" => rerun[q] # minted + 1
    <3> SUFFICES ASSUME NEW q \in Sessions, pc[q] = "store" PROVE rerun[q] # minted + 1
      OBVIOUS
    <3>1. RerunOf(q, rerun[q])
      BY DEF ReplayInv, SessionInv, Remembered
    <3> QED
      BY <1>2, <3>1 DEF RerunOf
  <2>3. \A q \in Sessions \ {s} : pc'[q] = pc[q] /\ rerun'[q] = rerun[q]
    BY <1>9 DEF Keeps
  <2> QED
    BY <1>1, <1>3, <2>1, <2>2, <2>3 DEF Apart, ReplayInv
<1> QED
  BY <1>1, <1>5, <1>6, <1>8, <1>9, <1>10, SessionStep

\* A rerun is stored before it is counted, and the next one begins after that.
LEMMA KeepStep ==
  ASSUME ReplayInv, NEW s \in Sessions, Keep(s)
  PROVE  ReplayInv'
PROOF
<1>1. CASE store # "ready"
  BY <1>1, EndSteps DEF Keep, Persist, shared
<1>2. CASE store = "ready"
  <2>1. /\ pc[s] = "store" /\ Record(rerun[s])
        /\ attempts' = [attempts EXCEPT ![s] = Append(attempts[s], rerun[s])]
        /\ pc' = [pc EXCEPT ![s] = "loop"]
        /\ UNCHANGED <<locals, answer, store, resets, content, minted, published, orig, asked, happened>>
    BY <1>2 DEF Keep, Persist
  <2>2. /\ attempts[s] \in Seq(Runs \cup {Crashed}) /\ happened[s] \in Seq(EndsOfRun)
        /\ asked[s] \in Nat /\ left[s] \in Int /\ minted \in Nat
        /\ RerunOf(s, rerun[s]) /\ rerun[s] \in Runs /\ rerun[s] # Crashed
        /\ happened[s][Len(happened[s])] = content[rerun[s]].status
        /\ Len(happened[s]) = Len(attempts[s]) + 1
    <3>1. /\ attempts[s] \in Seq(Runs \cup {Crashed}) /\ happened[s] \in Seq(EndsOfRun)
          /\ asked[s] \in Nat /\ left[s] \in Int /\ minted \in Old..Last
      BY DEF ReplayInv, Typed
    <3>2. minted \in Nat
      BY <3>1, ReplayRuns
    <3>3. Remembered(s) /\ Counted(s)
      BY DEF ReplayInv, SessionInv
    <3>4. RerunOf(s, rerun[s]) /\ happened[s][Len(happened[s])] = content[rerun[s]].status
          /\ Len(happened[s]) = Len(attempts[s]) + 1
      BY <2>1, <3>3 DEF Remembered, Counted
    <3>5. rerun[s] \in Runs /\ rerun[s] # Crashed
      BY <3>4, RecordFacts DEF RerunOf
    <3> QED
      BY <3>1, <3>2, <3>4, <3>5
  <2>3. attempts'[s] = Append(attempts[s], rerun[s]) /\ pc'[s] = "loop"
        /\ status' = [status EXCEPT ![rerun[s]] = "recorded"]
    BY <2>1 DEF ReplayInv, Typed, Record
  <2>4. /\ attempts'[s] \in Seq(Runs \cup {Crashed}) /\ Len(attempts'[s]) = Len(attempts[s]) + 1
        /\ DOMAIN attempts'[s] = DOMAIN attempts[s] \cup {Len(attempts[s]) + 1}
        /\ attempts'[s][Len(attempts[s]) + 1] = rerun[s]
        /\ \A j \in DOMAIN attempts[s] : attempts'[s][j] = attempts[s][j]
    BY <2>2, <2>3, Appended
  <2>5. Typed'
    BY <2>1, <2>2, <2>3, <2>4 DEF ReplayInv, Typed, Phases, Status, locals
  <2>6. Stored' /\ Grows
    BY <2>1, <2>2, <2>3 DEF ReplayInv, Typed, Stored, Grows, RerunOf
  <2>7. SessionInv(s)'
    <3>1. Accounted(s)'
      <4>1. EndOf(rerun[s])' = content[rerun[s]].status
        BY <2>1, <2>2 DEF EndOf, locals
      <4>2. RerunOf(s, rerun[s])' /\ status'[rerun[s]] # "absent"
        BY <2>1, <2>2, <2>3 DEF RerunOf, ReplayInv, Typed, locals
      <4>3. rerun' = rerun /\ happened' = happened /\ orig' = orig
        BY <2>1 DEF locals
      <4> QED
        BY <2>2, <2>3, <2>5, <2>6, <4>1, <4>2, <4>3, OneMoreTry
    <3>2. Counted(s)'
      BY <2>1, <2>2, <2>3, <2>4 DEF Counted, ReplayInv, SessionInv, locals
    <3>3. Remembered(s)'
      BY <2>1, <2>3 DEF Remembered, ReplayInv, SessionInv, locals
    <3> QED
      BY <3>1, <3>2, <3>3 DEF SessionInv
  <2>8. \A q \in Sessions \ {s} : Keeps(q)
    BY <2>1 DEF Keeps, ReplayInv, Typed, locals
  <2>9. Apart'
    <3>1. \A q \in Sessions \ {s} : attempts'[q] = attempts[q] /\ pc'[q] = pc[q]
      BY <2>8 DEF Keeps
    <3>2. \A q \in Sessions : \A j \in DOMAIN attempts[q] : attempts[q][j] # rerun[s]
      BY <2>1 DEF ReplayInv, Apart
    <3>3. \A q \in Sessions : pc[q] = "store" /\ rerun[q] = rerun[s] => q = s
      BY <2>1 DEF ReplayInv, Apart
    <3>4. ASSUME NEW q \in Sessions, NEW p \in Sessions,
                 NEW i \in DOMAIN attempts'[q], NEW j \in DOMAIN attempts'[p],
                 attempts'[q][i] = attempts'[p][j], attempts'[q][i] # Crashed
          PROVE  q = p /\ i = j
      <4>1. ASSUME NEW a \in Sessions, NEW k \in DOMAIN attempts'[a]
            PROVE  \/ k \in DOMAIN attempts[a] /\ attempts'[a][k] = attempts[a][k]
                   \/ a = s /\ k = Len(attempts[s]) + 1 /\ attempts'[a][k] = rerun[s]
        BY <2>4, <3>1
      <4> QED
        BY <3>2, <3>4, <4>1 DEF ReplayInv, Apart
    <3>5. ASSUME NEW q \in Sessions, NEW p \in Sessions, pc'[q] = "store"
          PROVE  /\ \A j \in DOMAIN attempts'[p] : attempts'[p][j] # rerun'[q]
                 /\ pc'[p] = "store" /\ rerun'[p] = rerun'[q] => p = q
      <4>1. q # s /\ pc[q] = "store" /\ rerun' = rerun
        BY <2>1, <2>3, <3>1, <3>5 DEF locals
      <4>2. rerun[q] # rerun[s]
        BY <3>3, <4>1
      <4>3. \A j \in DOMAIN attempts'[p] : attempts'[p][j] # rerun'[q]
        BY <2>4, <3>1, <4>1, <4>2 DEF ReplayInv, Apart
      <4>4. pc'[p] = "store" => pc[p] = "store"
        BY <2>3, <3>1
      <4> QED
        BY <4>1, <4>3, <4>4 DEF ReplayInv, Apart
    <3> QED
      BY <3>4, <3>5 DEF Apart
  <2> QED
    BY <2>1, <2>5, <2>6, <2>7, <2>8, <2>9, SessionStep
<1> QED
  BY <1>1, <1>2

-----------------------------------------------------------------------------
(***************************************************************************)
(* The steps of others, and the invariant                                  *)
(***************************************************************************)

LEMMA OtherStep ==
  ASSUME ReplayInv, Typed', Stored', Grows, UNCHANGED session,
         \A r \in Runs : published'[r] \in {published[r], NoResult}
  PROVE  ReplayInv'
PROOF
<1>1. \A q \in Sessions : Keeps(q)
  BY DEF session, Keeps
<1>2. \A q \in Sessions : SessionInv(q)'
  BY <1>1, OthersKeep DEF ReplayInv
<1>3. Apart'
  BY ApartKeeps DEF ReplayInv, session
<1>4. Published'
  <2> SUFFICES ASSUME NEW r \in Runs, published'[r] # NoResult
               PROVE  \E w \in Sessions : ResultOf(r, w)'
    BY DEF Published
  <2>1. published'[r] = published[r]
    OBVIOUS
  <2>2. PICK w \in Sessions : ResultOf(r, w)
    BY <2>1 DEF ReplayInv, Published
  <2> QED
    BY <1>1, <2>1, <2>2, PublishedKeeps DEF ReplayInv
<1> QED
  BY <1>2, <1>3, <1>4 DEF ReplayInv

LEMMA DeleteStep ==
  ASSUME ReplayInv, NEW r \in Runs, Delete(r)
  PROVE  ReplayInv'
PROOF
<1>1. Typed'
  BY DEF ReplayInv, Typed, Delete, Tombstone, session, Status
<1>2. Stored' /\ Grows
  BY ReplayRuns DEF ReplayInv, Typed, Stored, Grows, Delete, Tombstone
<1> QED
  BY <1>1, <1>2, OtherStep DEF Delete

LEMMA DetachStep ==
  ASSUME ReplayInv, Detach
  PROVE  ReplayInv'
PROOF
<1>1. Typed'
  BY ReplayReruns DEF ReplayInv, Typed, Detach, Wipe, session, Status
<1>2. Stored' /\ Grows
  BY ReplayRuns DEF ReplayInv, Typed, Stored, Grows, Detach, Wipe
<1> QED
  BY <1>1, <1>2, OtherStep DEF Detach

LEMMA ReinitStep ==
  ASSUME ReplayInv, Reinit
  PROVE  ReplayInv'
PROOF
<1>1. Typed'
  BY DEF ReplayInv, Typed, Reinit, session
<1>2. Stored' /\ Grows
  BY StoredKeeps DEF ReplayInv, Reinit
<1> QED
  BY <1>1, <1>2, OtherStep DEF Reinit

LEMMA StutterStep ==
  ASSUME ReplayInv, UNCHANGED replayVars
  PROVE  ReplayInv'
PROOF
<1>1. Typed'
  BY DEF ReplayInv, Typed, replayVars, shared, session
<1>2. Stored' /\ Grows
  BY StoredKeeps DEF ReplayInv, replayVars, shared
<1> QED
  BY <1>1, <1>2, OtherStep DEF replayVars, shared

LEMMA ReplayInvInit == ReplayInit => ReplayInv
PROOF
<1> SUFFICES ASSUME ReplayInit PROVE ReplayInv
  OBVIOUS
<1>1. /\ status \in [Runs -> {"absent", "recorded"}] /\ content \in [Runs -> Records \cup {NoRecord}]
      /\ \A r \in Runs : (r > Old => status[r] = "absent") /\ (content[r] = NoRecord <=> status[r] = "absent")
  BY DEF ReplayInit
<1>2. 1 \in Runs /\ Old \in Old..Last /\ 0 \in 0..MaxResets
  BY ReplayRuns, ReplayReruns
<1>3. Typed
  BY <1>1, <1>2 DEF ReplayInit, Typed, Status, Phases
<1>4. Stored
  BY <1>1, ReplayRuns DEF Stored, ReplayInit
<1>5. \A s \in Sessions : /\ pc[s] = "idle" /\ asked[s] = 0
                          /\ attempts[s] = <<>> /\ happened[s] = <<>>
  BY DEF ReplayInit
<1>6. \A s \in Sessions : SessionInv(s)
  BY <1>5 DEF SessionInv, Accounted, Counted, Remembered
<1>7. Apart
  BY <1>5 DEF Apart
<1>8. Published
  BY DEF Published, ReplayInit
<1> QED
  BY <1>3, <1>4, <1>6, <1>7, <1>8 DEF ReplayInv

LEMMA ReplayInvStep == ReplayInv /\ [ReplayNext]_replayVars => ReplayInv'
PROOF
<1> SUFFICES ASSUME ReplayInv, [ReplayNext]_replayVars PROVE ReplayInv'
  OBVIOUS
<1>1. ASSUME NEW s \in Sessions, \E r \in Runs, k \in Reruns : Begin(s, r, k) PROVE ReplayInv'
  BY <1>1, BeginStep
<1>2. ASSUME NEW s \in Sessions, Step(s) PROVE ReplayInv'
  BY <1>2, ReconstructStep, ProbeStep, RerunCrashesStep, RerunParsesStep, KeepStep, StageStep, PublishStep DEF Step
<1> QED
  BY <1>1, <1>2, DieStep, DeleteStep, DetachStep, ReinitStep, StutterStep DEF ReplayNext

-----------------------------------------------------------------------------
(***************************************************************************)
(* What a session counts is evidence                                       *)
(***************************************************************************)

\* Every rerun that a session counts as parsed was stored, is not its
\* original, and is counted by no other session, whatever sessions, deletes
\* and resets go on beside it (_persist_replay_run, replay_run).
THEOREM AttemptsAreEvidenceHolds == ReplaySpec => []AttemptsAreEvidence
PROOF
<1>1. ReplayInv => AttemptsAreEvidence
  <2> SUFFICES ASSUME ReplayInv, NEW s \in Sessions, NEW i \in Parsed(attempts[s])
               PROVE  /\ status[attempts[s][i]] # "absent" /\ attempts[s][i] # orig[s]
                      /\ \A q \in Sessions : \A j \in Parsed(attempts[q]) :
                           attempts[q][j] = attempts[s][i] => q = s /\ j = i
    BY DEF AttemptsAreEvidence
  <2>1. i \in DOMAIN attempts[s] /\ attempts[s][i] # Crashed
    BY DEF Parsed
  <2>2. RerunOf(s, attempts[s][i]) /\ status[attempts[s][i]] # "absent"
    BY <2>1 DEF ReplayInv, SessionInv, Accounted
  <2>3. attempts[s][i] # orig[s]
    BY <2>2, ReplayRuns DEF RerunOf, ReplayInv, Typed
  <2>4. \A q \in Sessions : \A j \in Parsed(attempts[q]) :
          attempts[q][j] = attempts[s][i] => q = s /\ j = i
    BY <2>1 DEF ReplayInv, Apart, Parsed
  <2> QED
    BY <2>2, <2>3, <2>4
<1> QED
  BY <1>1, ReplayInvInit, ReplayInvStep, PTL DEF ReplaySpec

-----------------------------------------------------------------------------
(***************************************************************************)
(* The verdict                                                             *)
(***************************************************************************)

LEMMA ClassifyIsVerdictOn ==
  ASSUME NEW original, NEW tries, NEW bodies
  PROVE  Classify(original, tries, bodies) =
           VerdictOn(original, tries, [i \in DOMAIN tries |-> OutcomeOf(tries[i], bodies)],
                     {bodies[tries[i]] : i \in Parsed(tries)})
BY DEF Classify, VerdictOn

\* How each execution ended, and how the verdict counts it.
LEMMA OutcomesSaid ==
  ASSUME ReplayInv, NEW r \in Runs, NEW s \in Sessions, ResultOf(r, s)
  PROVE  /\ DOMAIN happened[s] = DOMAIN attempts[s] /\ Len(attempts[s]) = asked[s]
         /\ \A i \in DOMAIN attempts[s] :
              OutcomeOf(attempts[s][i], content) =
                IF happened[s][i] = "crashed" THEN "errored" ELSE happened[s][i]
         /\ content[r].status \in Verdicts /\ content[r] \in Records
PROOF
<1>1. attempts[s] \in Seq(Runs \cup {Crashed}) /\ happened[s] \in Seq(EndsOfRun)
  BY DEF ReplayInv, Typed
<1>2. Len(happened[s]) = Len(attempts[s]) /\ Len(happened[s]) = asked[s]
  BY DEF ResultOf
<1>3. content[r] \in Records
  BY DEF ResultOf, ReplayInv, SessionInv, Remembered
<1>4. \A i \in DOMAIN attempts[s] :
        OutcomeOf(attempts[s][i], content) = IF happened[s][i] = "crashed" THEN "errored" ELSE happened[s][i]
  <2> SUFFICES ASSUME NEW i \in DOMAIN attempts[s]
               PROVE  OutcomeOf(attempts[s][i], content) =
                        IF happened[s][i] = "crashed" THEN "errored" ELSE happened[s][i]
    OBVIOUS
  <2>1. happened[s][i] = EndOf(attempts[s][i])
    BY DEF ReplayInv, SessionInv, Accounted
  <2>2. attempts[s][i] # Crashed => content[attempts[s][i]].status # "crashed"
    BY RecordFacts DEF ReplayInv, SessionInv, Accounted, RerunOf, Verdicts
  <2> QED
    BY <2>1, <2>2 DEF EndOf, OutcomeOf
<1>5. DOMAIN happened[s] = DOMAIN attempts[s] /\ Len(attempts[s]) = asked[s]
  <2>1. DOMAIN happened[s] = 1..Len(happened[s]) /\ DOMAIN attempts[s] = 1..Len(attempts[s])
    BY <1>1
  <2> QED
    BY <1>2, <2>1
<1>6. content[r].status \in Verdicts
  BY <1>3, RecordFacts
<1> QED
  BY <1>3, <1>4, <1>5, <1>6

\* The class of a verdict, from how its executions were counted.
LEMMA VerdictClass ==
  ASSUME NEW original, NEW tries, NEW outcomes, NEW reruns
  PROVE  LET v == VerdictOn(original, tries, outcomes, reruns)
             same == \A i \in DOMAIN outcomes : outcomes[i] = original.status
             unable == \A i \in DOMAIN outcomes : outcomes[i] = "errored"
         IN  /\ v.total = Len(tries)
             /\ (v.class = "unable_to_replay") <=> unable
             /\ (v.class = "reproducible") <=> ~unable /\ same
             /\ (v.class = "inconsistent") <=> ~unable /\ ~same
             /\ v.test = IF unable \/ same THEN NoTest ELSE FocalTest(original, reruns)
PROOF
<1> DEFINE differ == {i \in DOMAIN outcomes : outcomes[i] # original.status}
<1>1. (\A i \in DOMAIN outcomes : outcomes[i] = original.status) <=> differ = {}
  OBVIOUS
<1> QED
  BY <1>1 DEF VerdictOn

\* The verdict accounts for every execution the session was asked for, and is
\* strict: one that differs is enough, a crash is one, and nothing is concluded
\* when none of them said anything (classify_replay_consistency, replay_run).
THEOREM StrictVerdictHolds == ReplaySpec => []StrictVerdict
PROOF
<1>1. ReplayInv => StrictVerdict
  <2> DEFINE ends(r) == {happened[published[r].by][i] : i \in DOMAIN happened[published[r].by]}
             said(r) == ends(r) \ {"errored", "crashed"}
             V(r) == published[r].verdict
  <2> SUFFICES ASSUME ReplayInv, NEW r \in Runs, published[r] # NoResult
               PROVE  /\ V(r).total = asked[published[r].by]
                      /\ Len(happened[published[r].by]) = asked[published[r].by]
                      /\ (V(r).class = "reproducible") <=> (ends(r) = {content[r].status} /\ said(r) # {})
                      /\ (V(r).class = "unable_to_replay") <=> (said(r) = {})
    BY Zenon DEF StrictVerdict
  <2>1. PICK s \in Sessions : ResultOf(r, s)
    BY DEF ReplayInv, Published
  <2> DEFINE o == [i \in DOMAIN attempts[s] |-> OutcomeOf(attempts[s][i], content)]
             E == {happened[s][i] : i \in DOMAIN happened[s]}
             S == E \ {"errored", "crashed"}
             same == \A i \in DOMAIN attempts[s] : o[i] = content[r].status
             unable == \A i \in DOMAIN attempts[s] : o[i] = "errored"
  <2>2. published[r].by = s /\ Len(happened[s]) = asked[s]
        /\ published[r].verdict = Classify(content[r], attempts[s], content)
    BY <2>1 DEF ResultOf
  <2>3. /\ V(r).total = Len(attempts[s])
        /\ (V(r).class = "unable_to_replay") <=> unable
        /\ (V(r).class = "reproducible") <=> ~unable /\ same
    <3>1. V(r) = VerdictOn(content[r], attempts[s], o, {content[attempts[s][i]] : i \in Parsed(attempts[s])})
      BY <2>2, ClassifyIsVerdictOn
    <3>2. DOMAIN o = DOMAIN attempts[s]
      OBVIOUS
    <3> HIDE DEF o, V
    <3> QED
      BY <3>1, <3>2, VerdictClass
  <2>4. /\ DOMAIN happened[s] = DOMAIN attempts[s] /\ Len(attempts[s]) = asked[s]
        /\ \A i \in DOMAIN attempts[s] : o[i] = IF happened[s][i] = "crashed" THEN "errored" ELSE happened[s][i]
        /\ content[r].status \in Verdicts
    BY <2>1, OutcomesSaid
  <2> HIDE DEF o
  <2>5. unable <=> S = {}
    BY <2>4
  <2>6. ~unable => (same <=> E = {content[r].status})
    <3> HAVE ~unable
    <3>1. PICK k \in DOMAIN attempts[s] : o[k] # "errored"
      OBVIOUS
    <3>2. ASSUME same PROVE E = {content[r].status}
      <4>1. o[k] = content[r].status /\ content[r].status # "errored"
        BY <3>1, <3>2
      <4>2. \A i \in DOMAIN happened[s] : happened[s][i] = content[r].status
        BY <2>4, <3>2, <4>1
      <4> QED
        BY <2>4, <4>2
    <3>3. ASSUME E = {content[r].status} PROVE same
      <4>1. \A i \in DOMAIN attempts[s] : happened[s][i] = content[r].status
        BY <2>4, <3>3
      <4> QED
        BY <2>4, <4>1 DEF Verdicts
    <3> QED
      BY <3>2, <3>3
  <2>7. S # {} => ~unable
    BY <2>5
  <2>8. ends(r) = E /\ said(r) = S
    BY <2>2
  <2> HIDE DEF E, S, ends, said, V, unable, same
  <2> QED
    BY <2>2, <2>3, <2>4, <2>5, <2>6, <2>7, <2>8
<1> QED
  BY <1>1, ReplayInvInit, ReplayInvStep, PTL DEF ReplaySpec

-----------------------------------------------------------------------------
(***************************************************************************)
(* The test a verdict blames                                               *)
(***************************************************************************)

\* A non-empty set of positions has a first and a last.
LEMMA FirstAndLast ==
  ASSUME NEW n \in Nat, NEW S \in SUBSET (1..n), S # {}
  PROVE  /\ \E x \in S : \A y \in S : x <= y
         /\ \E x \in S : \A y \in S : y <= x
PROOF
<1>1. \A T \in SUBSET Nat : T # {} => \E x \in T : \A y \in T : x <= y
  <2> SUFFICES ASSUME NEW T \in SUBSET Nat, T # {} PROVE \E x \in T : \A y \in T : x <= y
    OBVIOUS
  <2>1. PICK x \in T : \A y \in T : <<y, x>> \notin OpToRel(<, Nat)
    BY WFMin, NatLessThanWellFounded
  <2>2. \A y \in T : ~(y < x)
    BY <2>1, Zenon DEF OpToRel
  <2> QED
    BY <2>2
<1>2. \E x \in S : \A y \in S : x <= y
  BY <1>1
<1> DEFINE T == {n - y : y \in S}
<1>3. T \in SUBSET Nat /\ T # {}
  <2>1. \A y \in S : n - y \in Nat
    OBVIOUS
  <2>2. PICK y \in S : TRUE
    OBVIOUS
  <2>3. n - y \in T
    BY <2>2
  <2> QED
    BY <2>1, <2>3
<1>4. PICK t \in T : \A u \in T : t <= u
  <2> HIDE DEF T
  <2> QED
    BY <1>1, <1>3
<1>5. PICK x \in S : t = n - x
  OBVIOUS
<1>6. \A y \in S : y <= x
  <2> SUFFICES ASSUME NEW y \in S PROVE y <= x
    OBVIOUS
  <2>1. n - x <= n - y
    BY <1>4, <1>5
  <2> QED
    BY <2>1
<1> QED
  BY <1>2, <1>6

\* What counts of a test in a record: its failures, if there are some.
Counts(rec, t) ==
  LET all == Ends(rec, t)
  IN  IF all \cap FailLikeOutcomes # {} THEN all \cap FailLikeOutcomes ELSE all

LEMMA OriginalOutcomeCounts ==
  ASSUME NEW rec \in Records, NEW t \in Named(rec.results)
  PROVE  OriginalOutcome(rec.results, t) \in Counts(rec, t)
PROOF
<1> DEFINE results == rec.results
           here == {i \in DOMAIN results : results[i].test = t}
           fails == {i \in here : results[i].outcome \in FailLikeOutcomes}
           class == IF fails # {} THEN fails ELSE here
           last == CHOOSE i \in class : \A j \in class : j <= i
<1>1. Len(results) \in Nat /\ DOMAIN results = 1..Len(results)
  BY ReplayRecords
<1>2. here # {}
  BY DEF Named
<1>3. class \in SUBSET (1..Len(results)) /\ class # {}
  BY <1>1, <1>2
<1>4. last \in class
  <2> HIDE DEF class
  <2>1. \E i \in class : \A j \in class : j <= i
    BY <1>1, <1>3, FirstAndLast
  <2> QED
    BY <2>1
<1>5. OriginalOutcome(results, t) = results[last].outcome
  BY DEF OriginalOutcome
<1>6. Ends(rec, t) = {results[i].outcome : i \in here}
  BY DEF Ends
<1> HIDE DEF last, results
<1>7. fails # {} <=> Ends(rec, t) \cap FailLikeOutcomes # {}
  BY <1>6
<1>8. results[last].outcome \in Ends(rec, t)
  BY <1>4, <1>6
<1>9. fails # {} => results[last].outcome \in FailLikeOutcomes
  BY <1>4
<1> QED
  BY <1>5, <1>7, <1>8, <1>9 DEF Counts, results

\* A test counts for something in a record exactly if the record names it.
LEMMA CountsAreOutcomes ==
  ASSUME NEW rec \in Records, NEW t
  PROVE  /\ Counts(rec, t) \subseteq {"passed", "failed", "errored", "skipped"}
         /\ Counts(rec, t) # {} <=> t \in Named(rec.results)
         /\ Named(rec.results) \subseteq Tests
PROOF
<1>1. \A i \in DOMAIN rec.results : /\ rec.results[i].test \in Tests
                                    /\ rec.results[i].outcome \in {"passed", "failed", "errored", "skipped"}
  <2>1. rec.results \in Seq([test : Tests, outcome : {"passed", "failed", "errored", "skipped"}])
    BY ReplayRecords
  <2> DEFINE results == rec.results
             Result == [test : Tests, outcome : {"passed", "failed", "errored", "skipped"}]
  <2>2. results \in Seq(Result)
    BY <2>1
  <2>3. \A i \in DOMAIN results : results[i] \in Result
    <3> HIDE DEF results, Result
    <3> QED
      BY <2>2
  <2> QED
    BY <2>3
<1>2. Ends(rec, t) \subseteq {"passed", "failed", "errored", "skipped"}
  BY <1>1 DEF Ends
<1>3. Ends(rec, t) # {} <=> t \in Named(rec.results)
  BY DEF Ends, Named
<1> QED
  BY <1>1, <1>2, <1>3 DEF Counts, Named

LEMMA AtMostOne ==
  ASSUME NEW S, IsFiniteSet(S), Cardinality(S) <= 1, NEW x \in S
  PROVE  S = {x}
PROOF
<1>1. IsFiniteSet({x}) /\ Cardinality({x}) = 1
  BY FS_Singleton
<1>2. Cardinality({x}) <= Cardinality(S)
  BY FS_Subset
<1>3. Cardinality(S) \in Nat
  BY FS_CardinalityType
<1> QED
  BY <1>1, <1>2, <1>3, FS_Subset

\* When no test has two outcomes that count, the divergent tests of a record
\* are those with another outcome in some rerun.
LEMMA DivergentIsMoved ==
  ASSUME NEW rec \in Records, NEW reruns,
         \A t \in Tests : Cardinality(Counts(rec, t)) <= 1
  PROVE  Divergent(rec, reruns) =
           {t \in Tests : Counts(rec, t) # {} /\ \E new \in reruns : ~(Ends(new, t) \subseteq Counts(rec, t))}
PROOF
<1>1. \A t \in Named(rec.results) : t \in Tests /\ Counts(rec, t) = {OriginalOutcome(rec.results, t)}
  <2> SUFFICES ASSUME NEW t \in Named(rec.results)
               PROVE  t \in Tests /\ Counts(rec, t) = {OriginalOutcome(rec.results, t)}
    OBVIOUS
  <2>1. t \in Tests /\ OriginalOutcome(rec.results, t) \in Counts(rec, t)
    BY CountsAreOutcomes, OriginalOutcomeCounts
  <2>2. IsFiniteSet(Counts(rec, t))
    <3>1. IsFiniteSet({"passed"} \cup {"failed"} \cup {"errored"} \cup {"skipped"})
      BY FS_Singleton, FS_Union
    <3> QED
      BY <3>1, CountsAreOutcomes, FS_Subset
  <2> QED
    BY <2>1, <2>2, AtMostOne
<1>2. \A t : Counts(rec, t) # {} <=> t \in Named(rec.results)
  BY CountsAreOutcomes
<1>3. \A new, t : Ends(new, t) = {new.results[i].outcome : i \in {j \in DOMAIN new.results : new.results[j].test = t}}
  BY DEF Ends
<1>4. ASSUME NEW t \in Named(rec.results), NEW new
      PROVE  (\E i \in DOMAIN new.results : new.results[i].test = t /\ new.results[i].outcome # OriginalOutcome(rec.results, t))
             <=> ~(Ends(new, t) \subseteq Counts(rec, t))
  BY <1>1, <1>3
<1> QED
  BY <1>1, <1>2, <1>4 DEF Divergent

\* The test a verdict blames is the only one that ended in some rerun of the
\* session as it did not end in the original, in whatever order the results
\* came (_focal_test_key, _original_outcomes).
THEOREM FocalTestDivergedHolds == ReplaySpec => []FocalTestDiverged
PROOF
<1>1. ReplayInv => FocalTestDiverged
  <2> DEFINE V(r) == published[r].verdict
             movedOf(r) == {t \in Tests : Counts(content[r], t) # {} /\
                              \E i \in Parsed(attempts[published[r].by]) :
                                ~(Ends(content[attempts[published[r].by][i]], t) \subseteq Counts(content[r], t))}
  <2> SUFFICES ASSUME ReplayInv, NEW r \in Runs, published[r] # NoResult,
                      \A t \in Tests : Cardinality(Counts(content[r], t)) <= 1
               PROVE  V(r).test = IF V(r).class = "inconsistent" /\ Cardinality(movedOf(r)) = 1
                                  THEN CHOOSE t \in movedOf(r) : TRUE ELSE NoTest
    BY DEF FocalTestDiverged, Counts
  <2>1. PICK s \in Sessions : ResultOf(r, s)
    BY DEF ReplayInv, Published
  <2> DEFINE o == [i \in DOMAIN attempts[s] |-> OutcomeOf(attempts[s][i], content)]
             reruns == {content[attempts[s][i]] : i \in Parsed(attempts[s])}
             same == \A i \in DOMAIN o : o[i] = content[r].status
             unable == \A i \in DOMAIN o : o[i] = "errored"
  <2>2. published[r].by = s /\ V(r) = VerdictOn(content[r], attempts[s], o, reruns)
    BY <2>1, ClassifyIsVerdictOn DEF ResultOf
  <2>3. content[r] \in Records
    BY <2>1, OutcomesSaid
  <2>4. Divergent(content[r], reruns) = movedOf(r)
    <3>1. movedOf(r) = {t \in Tests : Counts(content[r], t) # {} /\
                           \E new \in reruns : ~(Ends(new, t) \subseteq Counts(content[r], t))}
      BY <2>2
    <3> HIDE DEF movedOf, reruns
    <3> QED
      BY <2>3, <3>1, DivergentIsMoved
  <2>5. /\ V(r).class = "inconsistent" <=> ~unable /\ ~same
        /\ V(r).test = IF unable \/ same THEN NoTest ELSE FocalTest(content[r], reruns)
    <3> HIDE DEF o, reruns, V
    <3> QED
      BY <2>2, VerdictClass
  <2> HIDE DEF V, movedOf, reruns, same, unable
  <2> QED
    BY <2>4, <2>5 DEF FocalTest
<1> QED
  BY <1>1, ReplayInvInit, ReplayInvStep, PTL DEF ReplaySpec

\* What a session knows fits where it is, and what is published is a verdict
\* of the closed vocabulary over the attempts it counted, with a rerun to look
\* at unless it is unable to say anything (ReplayResult).
THEOREM ReplayTypeOKHolds == ReplaySpec => []ReplayTypeOK
PROOF
<1>1. ASSUME ReplayInv, NEW r \in Runs, published[r] # NoResult
      PROVE  /\ published[r].verdict.class \in {"reproducible", "inconsistent", "unable_to_replay"}
             /\ published[r].verdict.failed \in 0..published[r].verdict.total
             /\ published[r].verdict.test \in Tests \cup {NoTest}
             /\ published[r].verdict.class # "unable_to_replay" => published[r].verdict.replayed \in Runs
  <2>1. PICK s \in Sessions : ResultOf(r, s)
    BY <1>1 DEF ReplayInv, Published
  <2> DEFINE tries == attempts[s]
             o == [i \in DOMAIN tries |-> OutcomeOf(tries[i], content)]
             reruns == {content[tries[i]] : i \in Parsed(tries)}
             differ == {i \in DOMAIN o : o[i] # content[r].status}
             v == VerdictOn(content[r], tries, o, reruns)
  <2>2. published[r].verdict = v
    BY <2>1, ClassifyIsVerdictOn DEF ResultOf
  <2>3. tries \in Seq(Runs \cup {Crashed}) /\ DOMAIN o = DOMAIN tries /\ content[r] \in Records
    BY <1>1, <2>1, OutcomesSaid DEF ReplayInv, Typed
  <2>4. DOMAIN tries = 1..Len(tries) /\ Len(tries) \in Nat
    BY <2>3
  <2>5. v.class \in {"reproducible", "inconsistent", "unable_to_replay"} /\ v.total = Len(tries)
    BY DEF VerdictOn
  <2>6. v.failed \in 0..Len(tries)
    <3>1. v.failed \in {0, Cardinality(differ)}
      BY DEF VerdictOn
    <3>2. differ \subseteq 1..Len(tries)
      BY <2>3, <2>4
    <3>3. IsFiniteSet(1..Len(tries)) /\ Cardinality(1..Len(tries)) = Len(tries)
      BY <2>4, FS_Interval
    <3>4. Cardinality(differ) \in Nat /\ Cardinality(differ) <= Len(tries)
      <4> HIDE DEF differ
      <4> QED
        BY <3>2, <3>3, FS_Subset, FS_CardinalityType
    <3> QED
      BY <2>4, <3>1, <3>4
  <2>7. v.test \in Tests \cup {NoTest}
    <3>1. v.test \in {NoTest, FocalTest(content[r], reruns)}
      BY DEF VerdictOn
    <3>2. FocalTest(content[r], reruns) \in Tests \cup {NoTest}
      <4> DEFINE d == Divergent(content[r], reruns)
      <4>1. d \subseteq Tests
        BY <2>3, CountsAreOutcomes DEF Divergent
      <4> HIDE DEF d
      <4>2. Cardinality(d) = 1 => d # {}
        BY FS_EmptySet
      <4> QED
        BY <4>1, <4>2 DEF FocalTest, d
    <3> QED
      BY <3>1, <3>2
  <2>8. ASSUME v.class # "unable_to_replay" PROVE v.replayed \in Runs
    <3>1. v.replayed = FirstParsed(tries)
      BY DEF VerdictOn
    <3>2. Parsed(tries) # {}
      <4>1. \E i \in DOMAIN o : o[i] # "errored"
        BY <2>8 DEF VerdictOn
      <4> QED
        BY <4>1 DEF Parsed, OutcomeOf
    <3> DEFINE P == Parsed(tries)
               first == CHOOSE i \in P : \A j \in P : i <= j
    <3>3. P \in SUBSET (1..Len(tries))
      BY <2>4 DEF Parsed
    <3>4. first \in P
      <4> HIDE DEF P
      <4>1. \E i \in P : \A j \in P : i <= j
        BY <2>4, <3>2, <3>3, FirstAndLast DEF P
      <4> QED
        BY <4>1
    <3>5. FirstParsed(tries) = tries[first]
      BY <3>2 DEF FirstParsed
    <3>6. tries[first] # Crashed /\ first \in DOMAIN tries
      BY <3>4 DEF Parsed
    <3> HIDE DEF first, tries
    <3>7. tries[first] \in Runs \cup {Crashed}
      BY <2>3, <3>6
    <3> QED
      BY <3>1, <3>5, <3>6, <3>7
  <2> HIDE DEF v
  <2> QED
    BY <2>2, <2>5, <2>6, <2>7, <2>8
<1>2. ReplayInv => ReplayTypeOK
  <2> SUFFICES ASSUME ReplayInv PROVE ReplayTypeOK
    OBVIOUS
  <2>1. Typed
    BY DEF ReplayInv
  <2>2. ASSUME NEW s \in Sessions
        PROVE  /\ pc[s] \in {"idle", "begun", "probe", "loop", "store", "publish", "ended"}
               /\ orig[s] \in Runs /\ context[s] \in Records \cup {NoRecord}
               /\ \A i \in DOMAIN attempts[s] : attempts[s][i] \in Runs \cup {Crashed}
    <3>1. attempts[s] \in Seq(Runs \cup {Crashed})
      BY <2>1 DEF Typed
    <3>2. \A i \in DOMAIN attempts[s] : attempts[s][i] \in Runs \cup {Crashed}
      BY <3>1
    <3> QED
      BY <2>1, <3>2 DEF Typed, Phases
  <2> QED
    BY <1>1, <2>1, <2>2 DEF ReplayTypeOK, Typed, LedgerTypeOK
<1> QED
  BY <1>2, ReplayInvInit, ReplayInvStep, PTL DEF ReplaySpec

-----------------------------------------------------------------------------
(***************************************************************************)
(* Evidence while sessions run                                             *)
(***************************************************************************)

\* Sessions, deletes and resets together do to evidence what Memory promises
\* of it, and nothing else: a rerun is recorded once, as a run of its own
\* (write_evidence, mark_tombstone, _detach_store).
THEOREM ReplayKeepsLedger == ReplaySpec => LedgerSpec
PROOF
<1>1. ReplayInit => LedgerInit
  BY DEF ReplayInit, LedgerInit
<1>2. ReplayInv /\ [ReplayNext]_replayVars => [LedgerNext]_status
  <2> SUFFICES ASSUME ReplayInv, ReplayNext, status' # status PROVE LedgerNext
    BY DEF replayVars, shared
  <2>1. ASSUME NEW s \in Sessions, Keep(s) PROVE LedgerNext
    <3>1. Record(rerun[s])
      BY <2>1 DEF Keep, Persist
    <3>2. rerun[s] \in Runs
      BY <2>1 DEF Keep, Persist, ReplayInv, SessionInv, Remembered, RerunOf
    <3> QED
      BY <3>1, <3>2 DEF LedgerNext
  <2>2. ASSUME NEW r \in Runs, Delete(r) PROVE LedgerNext
    BY <2>2 DEF Delete, LedgerNext
  <2>3. ASSUME Detach PROVE LedgerNext
    BY <2>3 DEF Detach, LedgerNext
  <2>4. ASSUME NEW s \in Sessions, Step(s), ~Keep(s) PROVE FALSE
    BY <2>4 DEF Step, Reconstruct, Probe, RerunCrashes, RerunParses, Stage, Publish, shared
  <2>5. ASSUME NEW s \in Sessions, Die(s) \/ \E r \in Runs, k \in Reruns : Begin(s, r, k) PROVE FALSE
    BY <2>5 DEF Die, Begin, shared
  <2>6. ~Reinit
    BY DEF Reinit
  <2> QED
    BY <2>1, <2>2, <2>3, <2>4, <2>5, <2>6 DEF ReplayNext
<1> QED
  BY <1>1, <1>2, ReplayInvInit, ReplayInvStep, PTL DEF ReplaySpec, LedgerSpec
=============================================================================
