------------------------------- MODULE Replay -------------------------------
(***************************************************************************)
(* replay/: re-executing a run some times and saying whether it is         *)
(* reproducible. A session reads its original once, runs its engine again  *)
(* and again, stores each rerun as a run of its own, and publishes one     *)
(* result under the original's id at the end. Other sessions, deletes and  *)
(* resets go on meanwhile, and a session may die anywhere.                 *)
(*                                                                         *)
(* Evidence is RunLedger's. A rerun is one step: how an engine gets to a   *)
(* record is RunEngine's business.                                         *)
(***************************************************************************)
EXTENDS RunLedger, Sequences, Integers, FiniteSets, FiniteSetsExt

CONSTANTS
  Old,        \* the runs 1..Old may be there at the start
  Last,       \* bound: the last run id
  Sessions,   \* replay invocations, one session each
  Reruns,     \* what --reruns may say, negative numbers included
  Records,    \* [status, results]: run records, results in the engine's order
  Tests,      \* test node ids
  MaxResets   \* bound on resets

ASSUME ReplayRuns == Old \in Nat /\ Last \in Nat \ {0} /\ Old <= Last /\ Runs = 1..Last
ASSUME ReplayReruns == Reruns \subseteq Int /\ MaxResets \in Nat /\ IsFiniteSet(Sessions)
ASSUME ReplayRecords ==
  \A rec \in Records :
    /\ rec.status \in {"passed", "failed", "errored"}
    /\ rec.results \in Seq([test : Tests, outcome : {"passed", "failed", "errored", "skipped"}])

VARIABLES
  store,      \* "ready", or "gone" while a reset is under way
  resets,     \* the number of resets so far
  content,    \* [Runs -> the record of the run, or NoRecord]
  minted,     \* the last run id that got a record
  published,  \* [Runs -> replay_result.json of that original, or NoResult]
  pc,         \* [Sessions -> where the session is]
  orig,       \* [Sessions -> its original]
  context,    \* [Sessions -> the original's record as it read it]
  left,       \* [Sessions -> executions to go]
  attempts,   \* [Sessions -> the reruns so far: runs, or Crashed]
  rerun,      \* [Sessions -> the rerun that is not stored yet]
  staged,     \* [Sessions -> the store its temporary file is in, and the result]
  answer,     \* [Sessions -> what the session answered: a result, a
              \* ReplayUnavailable of whatever reason, or an exception]
  asked,      \* history: [Sessions -> the executions it was asked for]
  happened    \* history: [Sessions -> how each execution ended]

shared == <<status, store, resets, content, minted, published>>
session == <<pc, orig, context, left, attempts, rerun, staged, answer, asked, happened>>
replayVars == <<shared, session>>

Crashed == 0
NoRecord == [status |-> "none", results |-> <<>>]
NoResult == [by |-> "nobody"]
NotStaged == [tree |-> 0, result |-> NoResult]

ReplayInit ==
  /\ status \in {f \in [Runs -> {"absent", "recorded"}] : \A r \in Runs : r > Old => f[r] = "absent"}
  /\ store = "ready" /\ resets = 0 /\ minted = Old
  /\ content \in {f \in [Runs -> Records \cup {NoRecord}] :
                    \A r \in Runs : f[r] = NoRecord <=> status[r] = "absent"}
  /\ published = [r \in Runs |-> NoResult]
  /\ pc = [s \in Sessions |-> "idle"]
  /\ orig = [s \in Sessions |-> 1]
  /\ context = [s \in Sessions |-> NoRecord]
  /\ left = [s \in Sessions |-> 0]
  /\ attempts = [s \in Sessions |-> <<>>]
  /\ rerun = [s \in Sessions |-> Crashed]
  /\ staged = [s \in Sessions |-> NotStaged]
  /\ answer = [s \in Sessions |-> "none"]
  /\ asked = [s \in Sessions |-> 0]
  /\ happened = [s \in Sessions |-> <<>>]

-----------------------------------------------------------------------------
(***************************************************************************)
(* The classifier.                                                         *)
(***************************************************************************)
FailLikeOutcomes == {"failed", "errored"}

\* Mutant: a duplicated test id keeps its last outcome.
LastOutcome(results, t) ==
  LET here == {i \in DOMAIN results : results[i].test = t}
  IN  results[CHOOSE i \in here : \A j \in here : j <= i].outcome

\* One outcome per test id of the original: a failure beats anything else,
\* then the last occurrence wins.
OriginalOutcome(results, t) ==
  LET here == {i \in DOMAIN results : results[i].test = t}
      fails == {i \in here : results[i].outcome \in FailLikeOutcomes}
      class == IF fails # {} THEN fails ELSE here
  IN  results[CHOOSE i \in class : \A j \in class : j <= i].outcome

Named(results) == {results[i].test : i \in DOMAIN results}

Divergent(original, replayed) ==
  {t \in Named(original.results) :
     \E rec \in replayed : \E i \in DOMAIN rec.results :
       rec.results[i].test = t /\ rec.results[i].outcome # OriginalOutcome(original.results, t)}

NoTest == "none"

\* The one divergent test, if it is one.
FocalTest(original, replayed) ==
  LET d == Divergent(original, replayed)
  IN  IF Cardinality(d) = 1 THEN CHOOSE t \in d : TRUE ELSE NoTest

Parsed(tries) == {i \in DOMAIN tries : tries[i] # Crashed}

OutcomeOf(try, bodies) == IF try = Crashed THEN "errored" ELSE bodies[try].status

FirstParsed(tries) ==
  IF Parsed(tries) = {} THEN Crashed ELSE tries[CHOOSE i \in Parsed(tries) : \A j \in Parsed(tries) : i <= j]

\* classify_replay_consistency: strict, and over every attempt.
Classify(original, tries, bodies) ==
  LET outcomes == [i \in DOMAIN tries |-> OutcomeOf(tries[i], bodies)]
      differ == {i \in DOMAIN outcomes : outcomes[i] # original.status}
      unable == \A i \in DOMAIN outcomes : outcomes[i] = "errored"
  IN  [class |-> IF unable THEN "unable_to_replay"
                 ELSE IF differ = {} THEN "reproducible" ELSE "inconsistent",
       total |-> Len(tries),
       failed |-> IF unable THEN 0 ELSE Cardinality(differ),
       outcomes |-> outcomes,
       test |-> IF unable \/ differ = {} THEN NoTest
                ELSE FocalTest(original, {bodies[tries[i]] : i \in Parsed(tries)}),
       replayed |-> FirstParsed(tries)]

-----------------------------------------------------------------------------
\* A session's own memory ends with it.
locals == <<context, left, rerun, staged>>

End(s, how) ==
  /\ pc' = [pc EXCEPT ![s] = "ended"]
  /\ answer' = [answer EXCEPT ![s] = how]
  /\ context' = [context EXCEPT ![s] = NoRecord]
  /\ left' = [left EXCEPT ![s] = 0]
  /\ rerun' = [rerun EXCEPT ![s] = Crashed]
  /\ staged' = [staged EXCEPT ![s] = NotStaged]

\* Bound: there are run ids for every execution asked for.
Room(k) == Old + MapThenSumSet(LAMBDA s : asked[s], Sessions) + k <= Last

\* The command line finds the store and a run of that id, deleted or not.
Begin(s, r, k) ==
  /\ pc[s] = "idle" /\ store = "ready" /\ status[r] \in {"recorded", "tombstoned"} /\ Room(k)
  /\ pc' = [pc EXCEPT ![s] = "begun"]
  /\ orig' = [orig EXCEPT ![s] = r]
  /\ left' = [left EXCEPT ![s] = k]
  /\ asked' = [asked EXCEPT ![s] = IF k > 0 THEN k ELSE 0]
  /\ UNCHANGED <<shared, context, attempts, rerun, staged, answer, happened>>

Replayable(r) == status[r] = "recorded"

\* reconstruct_replay_context: original gone, tombstoned, or its workspace
\* gone; else everything the session will ever know of it.
Reconstruct(s) ==
  /\ pc[s] = "begun"
  /\ \/ End(s, "unavailable")   \* refused, or the workspace is gone
     \/ /\ Replayable(orig[s])
        /\ context' = [context EXCEPT ![s] = content[orig[s]]]
        /\ pc' = [pc EXCEPT ![s] = "probe"]
        /\ UNCHANGED <<left, rerun, staged, answer>>
  /\ UNCHANGED <<shared, orig, attempts, asked, happened>>

\* The recorded engine is probed, not the workspace's first choice.
Probe(s) ==
  /\ pc[s] = "probe"
  /\ \/ End(s, "unavailable")
     \/ pc' = [pc EXCEPT ![s] = "loop"] /\ UNCHANGED <<locals, answer>>
  /\ UNCHANGED <<shared, orig, attempts, asked, happened>>

\* Mutant: a rerun that could not be run is dropped, as releases before
\* S38 did.
DropCrashed(s) == attempts

CountCrashed(s) == [attempts EXCEPT ![s] = Append(@, Crashed)]

\* An adapter error is an errored attempt: counted, not stored.
RerunCrashes(s) ==
  /\ pc[s] = "loop" /\ left[s] > 0
  /\ left' = [left EXCEPT ![s] = @ - 1]
  /\ attempts' = CountCrashed(s)
  /\ happened' = [happened EXCEPT ![s] = Append(@, "crashed")]
  /\ UNCHANGED <<shared, pc, orig, context, rerun, staged, answer, asked>>

\* Bound: a run id is left, which Room sees to for every session.
RerunParses(s, rec) ==
  /\ pc[s] = "loop" /\ left[s] > 0 /\ minted < Last
  /\ left' = [left EXCEPT ![s] = @ - 1]
  /\ minted' = minted + 1
  /\ rerun' = [rerun EXCEPT ![s] = minted']
  /\ content' = [content EXCEPT ![minted'] = rec]
  /\ happened' = [happened EXCEPT ![s] = Append(@, rec.status)]
  /\ pc' = [pc EXCEPT ![s] = "store"]
  /\ UNCHANGED <<status, store, resets, published,
                 orig, context, attempts, staged, answer, asked>>

\* Mutant: a rerun that Memory refuses is counted all the same.
PersistAnyway(s) ==
  /\ pc[s] = "store"
  /\ IF store = "ready" THEN Record(rerun[s]) ELSE UNCHANGED status
  /\ attempts' = [attempts EXCEPT ![s] = Append(@, rerun[s])]
  /\ pc' = [pc EXCEPT ![s] = "loop"]
  /\ UNCHANGED <<locals, answer>>

\* _persist_replay_run: Memory refuses when the store was detached.
Persist(s) ==
  /\ pc[s] = "store"
  /\ IF store = "ready"
     THEN /\ Record(rerun[s])
          /\ attempts' = [attempts EXCEPT ![s] = Append(@, rerun[s])]
          /\ pc' = [pc EXCEPT ![s] = "loop"]
          /\ UNCHANGED <<locals, answer>>
     ELSE End(s, "raised") /\ UNCHANGED <<status, attempts>>

Keep(s) ==
  /\ Persist(s)
  /\ UNCHANGED <<store, resets, content, minted, published, orig, asked, happened>>

\* Mutant: the loop ends when the count is zero.
AllTried(s) == left[s] = 0

NothingLeft(s) == left[s] <= 0

\* The verdict, and a temporary file of its own in whatever tree is there.
Stage(s) ==
  /\ pc[s] = "loop" /\ NothingLeft(s)
  /\ staged' = [staged EXCEPT ![s] = [tree |-> resets, result |->
                  [by |-> s, verdict |-> Classify(context[s], attempts[s], content)]]]
  /\ pc' = [pc EXCEPT ![s] = "publish"]
  /\ UNCHANGED <<shared, orig, context, left, attempts, rerun, answer, asked, happened>>

\* os.replace: it fails when a reset took the temporary file away.
Publish(s) ==
  /\ pc[s] = "publish"
  /\ IF staged[s].tree = resets
     THEN /\ published' = [published EXCEPT ![orig[s]] = staged[s].result]
          /\ End(s, "result")
     ELSE End(s, "raised") /\ UNCHANGED published
  /\ UNCHANGED <<status, store, resets, content, minted, orig, attempts, asked, happened>>

\* The process is killed, or an adapter raises something else than its own
\* error: the reruns stored so far stay, and no result is written.
Die(s) ==
  /\ pc[s] \notin {"idle", "ended"}
  /\ End(s, "raised")
  /\ UNCHANGED <<shared, orig, attempts, asked, happened>>

-----------------------------------------------------------------------------
\* Other processes.
Delete(r) ==
  /\ store = "ready"
  /\ Tombstone(r)
  /\ UNCHANGED <<store, resets, content, minted, published, session>>

\* reset renames the whole tree away, replay results included, ...
Detach ==
  /\ store = "ready" /\ resets < MaxResets
  /\ Wipe({})
  /\ store' = "gone" /\ resets' = resets + 1
  /\ published' = [r \in Runs |-> NoResult]
  /\ UNCHANGED <<content, minted, session>>

\* ... and makes a new store, in the directory a session may have made.
Reinit ==
  /\ store = "gone"
  /\ store' = "ready"
  /\ UNCHANGED <<status, resets, content, minted, published, session>>

Step(s) ==
  \/ Reconstruct(s) \/ Probe(s)
  \/ RerunCrashes(s) \/ \E rec \in Records : RerunParses(s, rec)
  \/ Keep(s) \/ Stage(s) \/ Publish(s)

ReplayNext ==
  \/ \E s \in Sessions :
       \/ \E r \in Runs, k \in Reruns : Begin(s, r, k)
       \/ Step(s)
       \/ Die(s)
  \/ \E r \in Runs : Delete(r)
  \/ Detach
  \/ Reinit

ReplaySpec == ReplayInit /\ [][ReplayNext]_replayVars /\ \A s \in Sessions : WF_replayVars(Step(s))

-----------------------------------------------------------------------------
\* Types: what a session knows fits where it is, and whatever is published
\* is a verdict of the closed vocabulary over counted attempts, with a rerun to
\* look at if it concludes anything.
ReplayTypeOK ==
  /\ LedgerTypeOK
  /\ store \in {"ready", "gone"} /\ resets \in 0..MaxResets
  /\ minted \in Old..Last
  /\ content \in [Runs -> Records \cup {NoRecord}]
  /\ \A s \in Sessions :
       /\ pc[s] \in {"idle", "begun", "probe", "loop", "store", "publish", "ended"}
       /\ orig[s] \in Runs /\ context[s] \in Records \cup {NoRecord}
       /\ \A i \in DOMAIN attempts[s] : attempts[s][i] \in Runs \cup {Crashed}
  /\ \A r \in Runs : published[r] # NoResult =>
       LET v == published[r].verdict IN
       /\ v.class \in {"reproducible", "inconsistent", "unable_to_replay"}
       /\ v.failed \in 0..v.total /\ v.test \in Tests \cup {NoTest}
       /\ v.class # "unable_to_replay" => v.replayed \in Runs

\* The verdict accounts for every execution the session was asked for, however
\* each ended: it is strict (one differing execution is enough), a crash is
\* an execution, and nothing is concluded when none of them said anything.
StrictVerdict ==
  \A r \in Runs : published[r] # NoResult =>
    LET v == published[r].verdict
        s == published[r].by
        ends == {happened[s][i] : i \in DOMAIN happened[s]}
        said == ends \ {"errored", "crashed"}
    IN  /\ v.total = asked[s] /\ Len(happened[s]) = asked[s]
        /\ v.class = "reproducible" <=> ends = {content[r].status} /\ said # {}
        /\ v.class = "unable_to_replay" <=> said = {}

\* How the occurrences of a test ended in a record.
Ends(rec, t) == {rec.results[i].outcome : i \in {j \in DOMAIN rec.results : rec.results[j].test = t}}

\* The test a verdict blames is the only one that ended in some rerun of the
\* session in a way it did not end in the original, and the order of results
\* plays no part: what counts in the original is a failure, if there is one.
\* (A test whose occurrences differ within a class is left to their order.)
FocalTestDiverged ==
  \A r \in Runs : published[r] # NoResult =>
    LET v == published[r].verdict
        s == published[r].by
        Seen(t) == LET all == Ends(content[r], t)
                   IN  IF all \cap FailLikeOutcomes # {} THEN all \cap FailLikeOutcomes ELSE all
        moved == {t \in Tests : Seen(t) # {} /\ \E i \in Parsed(attempts[s]) :
                    ~(Ends(content[attempts[s][i]], t) \subseteq Seen(t))}
    IN  (\A t \in Tests : Cardinality(Seen(t)) <= 1)
          => v.test = IF v.class = "inconsistent" /\ Cardinality(moved) = 1
                      THEN CHOOSE t \in moved : TRUE ELSE NoTest

\* Every rerun that a session counts as parsed is evidence of its own: it was
\* stored before the next began, no other session counts it, and it stays
\* when the session fails later on.
AttemptsAreEvidence ==
  \A s \in Sessions : \A i \in Parsed(attempts[s]) :
    LET r == attempts[s][i] IN
    /\ status[r] # "absent" /\ r # orig[s]
    /\ \A q \in Sessions : \A j \in Parsed(attempts[q]) : attempts[q][j] = r => q = s /\ j = i

\* A session that goes on comes to an end, whatever --reruns said.
SessionEnds == \A s \in Sessions : pc[s] = "begun" ~> pc[s] = "ended"
=============================================================================
