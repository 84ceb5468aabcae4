-------------------------- MODULE ProjectStoreProofs --------------------------
(***************************************************************************)
(* Proofs about ProjectStore: for any verbs, engines, pins and lengths of  *)
(* metadata, crashes anywhere.  That a torn store.json takes two writers   *)
(* is proved of verbs that overlap in any way; what a verb alone           *)
(* guarantees is proved of Overlap = FALSE.                                *)
(***************************************************************************)
EXTENDS ProjectStore, TLAPS

(* Which verb may be where.                                                *)
Roles ==
  \A p \in Procs :
    /\ pc[p] \in {"idle", "peek", "choose", "locate", "load"} => want[p] = AutoEngine
    /\ pc[p] \in {"peek", "choose"} => p \in Inits
    /\ pc[p] \in {"locate", "load"} => p \in Resets \cup Runners
    /\ pc[p] \in {"wipe_sweep", "wipe_check", "wipe_read", "detach", "rmtree"} =>
         p \in Resets /\ want[p] # AutoEngine
    /\ pc[p] \in {"sweep", "exists", "readback", "skeleton", "open", "write", "replace"} =>
         p \in Inits \cup Resets /\ (want[p] = AutoEngine => p \in Inits)
    /\ pc[p] \in {"check", "mkdir"} => p \in Runners /\ want[p] # AutoEngine
    /\ pc[p] \in {"pin_read", "pin_open", "pin_write", "pin_replace"} => want[p] # AutoEngine

(* What is about to be written is metadata.                                *)
Writing == {"open", "pin_open"} \cup Staging
TextInv == \A p \in Procs : pc[p] \in Writing => text[p] \in Metadata

(* The trees and files that a verb has not made yet.                       *)
Unused(f) == \A t \in Trees : meta[t] # f /\ tmp[t] # f
Unmade(t) == live # t /\ meta[t] = NoFile /\ tmp[t] = NoFile
BeforeTree == {"idle", "peek", "sweep", "exists", "skeleton", "locate", "load",
               "wipe_sweep", "wipe_check", "wipe_read", "detach", "rmtree"}
BeforePin == BeforeTree \cup {"choose", "open", "readback", "write", "replace", "pin_read", "pin_open"}
Fresh(p) ==
  /\ pc[p] \in BeforeTree \/ (p \in Runners /\ pc[p] \in Steps) => Unmade(Call(p))
  /\ pc[p] \in BeforeTree \cup {"open"} => Unused(Call(p))
  /\ want[p] = AutoEngine => Unmade(<<p, "chosen">>) /\ Unused(<<p, "chosen">>)
  /\ pc[p] \in BeforePin => Unused(<<p, "pin">>)

(* store.json is whole, and no staging name is store.json's, or that of    *)
(* another tree.                                                           *)
Names ==
  /\ \A t \in Trees : meta[t] # NoFile => file[meta[t]].born # "torn"
  /\ \A t, u \in Trees : meta[t] # NoFile => meta[t] # tmp[u]
  /\ \A t, u \in Trees : tmp[t] = tmp[u] /\ tmp[t] # NoFile => t = u

(* A verb alone between its open and its replace: its file is still the    *)
(* staging file of the tree it opened it in, and no other tree has one.    *)
Lone == \A p, q \in Procs : pc[p] \in Staging /\ pc[q] \in Staging => p = q
Staged(p) ==
  pc[p] \in Staging =>
    /\ fd[p] # NoFile
    /\ \E t \in Trees : tmp[t] = fd[p]
    /\ live # NoTree => tmp[live] \in {fd[p], NoFile}
    /\ file[fd[p]] = IF pc[p] \in {"write", "pin_write"} THEN Opened ELSE text[p]
Solo == Lone /\ Names /\ \A p \in Procs : Staged(p)

StoreInv == StoreTypeOK /\ Roles /\ TextInv /\ (\A p \in Procs : Fresh(p)) /\ (~crossed => Solo)

(* One verb at a time.                                                     *)
Alone == \A p, q \in Procs : InFlight(p) /\ InFlight(q) => p = q

(* What a verb in flight has in hand.                                      *)
Held(p) ==
  /\ pc[p] \in {"readback", "pin_read", "load", "wipe_read"} => IsStore
  /\ pc[p] \in Writing => live # NoTree
  /\ pc[p] \in Staging => tmp[live] = fd[p]
  /\ pc[p] = "rmtree" => cut[p] \in staged /\ live = NoTree

(* A reset knows which pin it found, and what it has rebuilt so far.       *)
Rebuilding == {"rmtree", "sweep", "exists", "skeleton", "pin_read"} \cup Writing
ResetInv(p) ==
  /\ pc[p] \in {"idle", "locate", "load", "wipe_sweep", "wipe_check", "wipe_read", "detach"} => cut[p] = NoTree
  /\ pc[p] \in {"wipe_sweep", "wipe_check", "wipe_read", "detach"} \cup Rebuilding =>
       /\ want[p] = IF pinned[p] # NoPin THEN pinned[p] ELSE Choice
       /\ want[p] # NoPin
  /\ pc[p] \in {"sweep", "exists", "skeleton"} => live = NoTree
  /\ pc[p] \in {"open", "write", "replace"} => text[p].pin = NoPin
  /\ pc[p] = "pin_read" => OnDisk.pin = NoPin
  /\ pc[p] \in {"pin_open", "pin_write", "pin_replace"} => text[p].pin = want[p]
  /\ pc[p] \notin {"peek", "choose", "readback", "check", "mkdir"}

SerialInv ==
  /\ StoreInv /\ ~crossed /\ Alone
  /\ \A p \in Procs : Held(p)
  /\ \A p \in Resets : ResetInv(p)

-----------------------------------------------------------------------------
(***************************************************************************)
(* Typing                                                                  *)
(***************************************************************************)

LEMMA ConstantFacts ==
  /\ \A p \in Procs : /\ <<p, "existing">> \in Trees /\ <<p, "chosen">> \in Trees
                      /\ <<p, "existing">> \in Files /\ <<p, "chosen">> \in Files /\ <<p, "pin">> \in Files
                      /\ First \notin {<<p, "existing">>, <<p, "chosen">>, <<p, "pin">>}
  /\ NoTree \notin Trees /\ NoFile \notin Files /\ First \in Trees /\ First \in Files
  /\ Choice \in Pins /\ NoPin \in Pins /\ AutoEngine \notin Pins
  /\ Supported \subseteq Pins /\ FirstPins \subseteq Pins /\ NoPin \notin Supported
  /\ Inits \cap Resets = {} /\ Inits \cap Runners = {} /\ Resets \cap Runners = {}
BY StoreConstants DEF Procs, Trees, Pins, Files, Calls

LEMMA TornFacts ==
  /\ Opened \notin Metadata /\ Opened.born = "torn"
  /\ \A c \in Metadata : c.born \in Trees /\ c.born # "torn" /\ c.pin \in Pins
  /\ \A c \in Torn : c.born = "torn"
  /\ \A c \in Metadata, e \in Pins : [c EXCEPT !.pin = e] \in Metadata /\ [c EXCEPT !.pin = e].pin = e
  /\ \A t \in Trees, e \in Pins : [born |-> t, pin |-> e] \in Metadata
BY StoreConstants DEF Opened, Metadata, Torn

LEMMA CallFacts ==
  \A p \in Procs : /\ Call(p) \in Trees /\ Call(p) \in Files /\ Call(p) # First
                   /\ Call(p) \in {<<p, "existing">>, <<p, "chosen">>}
                   /\ want[p] # AutoEngine => Call(p) = <<p, "chosen">>
BY ConstantFacts DEF Call

\* A readable store has metadata.
LEMMA ReadableIsTyped ==
  ASSUME StoreTypeOK, IsReadable
  PROVE  live \in Trees /\ meta[live] \in Files /\ OnDisk \in Metadata /\ OnDisk.pin \in Pins
BY TornFacts DEF StoreTypeOK, IsReadable, IsStore, OnDisk

\* A step is of one verb in flight, and leaves the others what they have.
Others(p) ==
  \A q \in Procs : q # p =>
    /\ pc'[q] = pc[q] /\ want'[q] = want[q] /\ text'[q] = text[q] /\ fd'[q] = fd[q]
    /\ cut'[q] = cut[q] /\ pinned'[q] = pinned[q]

Begins(p) == (p \in Inits /\ BeginInit(p)) \/ (p \in Resets \cup Runners /\ BeginOther(p))

LEMMA StepMoves ==
  ASSUME StoreTypeOK, NEW p \in Procs, Step(p) \/ Crash(p)
  PROVE  InFlight(p) /\ Others(p)
PROOF
<1> USE DEF Goes, diskVars
<1>1. InFlight(p)
  BY DEF Step, Crash, Peek, Choose, Locate, Load, Sweep, Exists, ReadBack, MakeSkeleton, Create, Pin, PinRead,
         OpenTmp, WriteTmp, Replace, Wipe, WipeSweep, WipeCheck, WipeRead, Detach, Rmtree, Check, StoreRun,
         InFlight, Steps, Staging
<1> SUFFICES ASSUME NEW q \in Procs, q # p
             PROVE  /\ pc'[q] = pc[q] /\ want'[q] = want[q] /\ text'[q] = text[q]
                    /\ fd'[q] = fd[q] /\ cut'[q] = cut[q] /\ pinned'[q] = pinned[q]
  BY <1>1 DEF Others
<1>2. CASE Peek(p) \/ Choose(p) \/ Locate(p) \/ Load(p)
  BY <1>2 DEF Peek, Choose, Locate, Load, StoreTypeOK
<1>3. CASE Sweep(p) \/ Exists(p) \/ ReadBack(p) \/ MakeSkeleton(p)
  BY <1>3 DEF Sweep, Exists, ReadBack, MakeSkeleton, StoreTypeOK
<1>4. CASE Create(p) \/ Pin(p)
  BY <1>4 DEF Create, Pin, PinRead, OpenTmp, WriteTmp, Replace, StoreTypeOK
<1>5. CASE Wipe(p) \/ Check(p) \/ StoreRun(p) \/ Crash(p)
  BY <1>5 DEF Wipe, WipeSweep, WipeCheck, WipeRead, Detach, Rmtree, Check, StoreRun, Crash, StoreTypeOK
<1> QED
  BY <1>2, <1>3, <1>4, <1>5 DEF Step

LEMMA BeginMoves ==
  ASSUME StoreTypeOK, NEW p \in Procs, Begins(p)
  PROVE  /\ Others(p) /\ pc[p] = "idle" /\ pc'[p] \in (IF p \in Inits THEN {"peek", "sweep"} ELSE {"locate"})
         /\ UNCHANGED <<live, staged, meta, tmp, file, runs, text, fd, cut, pinned, crossed>>
         /\ want' \in [Procs -> Pins \cup {AutoEngine}]
         /\ pc'[p] = "peek" => want'[p] = AutoEngine
         /\ pc'[p] = "locate" => want' = want
BY ConstantFacts DEF Begins, Others, BeginInit, BeginOther, Begin, Goes, diskVars, StoreTypeOK

LEMMA StoreInitTyped == Init => StoreTypeOK /\ Roles
PROOF
<1> SUFFICES ASSUME Init PROVE StoreTypeOK /\ Roles
  OBVIOUS
<1>1. file \in [Files -> Metadata \cup Torn]
  BY ConstantFacts, TornFacts DEF Init, Torn
<1> QED
  BY <1>1, ConstantFacts DEF Init, StoreTypeOK, Roles, Steps, Ended, Staging

\* Which steps keep everything typed, and every verb on its own way.
TypedAfter == StoreTypeOK' /\ Roles'

LEMMA BeginTyped ==
  ASSUME StoreTypeOK, Roles, NEW p \in Procs, Begins(p)
  PROVE  TypedAfter
PROOF
<1>1. StoreTypeOK'
  BY BeginMoves DEF StoreTypeOK, Steps, Ended, Staging, Begins, BeginInit, BeginOther, Begin, Goes
<1>2. Roles'
  <2>1. p \in Inits \/ (p \notin Inits /\ p \in Resets \cup Runners)
    BY DEF Procs
  <2> QED
    BY <2>1, BeginMoves DEF Roles, Others
<1> QED
  BY <1>1, <1>2 DEF TypedAfter

LEMMA OpenTyped ==
  ASSUME StoreTypeOK, Roles, NEW p \in Procs, NEW mine \in Files,
         NEW from, NEW to, (from = "open" /\ to = "write") \/ (from = "pin_open" /\ to = "pin_write"),
         OpenTmp(p, from, to, mine)
  PROVE  TypedAfter
PROOF
<1>1. /\ (from = "open" /\ to = "write") \/ (from = "pin_open" /\ to = "pin_write")
      /\ Opened \in Torn
  BY DEF Torn
<1>2. StoreTypeOK'
  <2>1. pc' \in [Procs -> {"idle"} \cup Steps \cup Ended] /\ crossed' \in BOOLEAN
    BY <1>1 DEF OpenTmp, StoreTypeOK, Steps, Ended, Staging, Goes, Crosses
  <2>2. CASE live = NoTree
    BY <2>1, <2>2 DEF OpenTmp, StoreTypeOK
  <2>3. CASE live # NoTree
    <3> DEFINE f == IF tmp[live] = NoFile THEN mine ELSE tmp[live]
    <3>1. f \in Files
      BY <2>3 DEF StoreTypeOK
    <3>2. tmp' = [tmp EXCEPT ![live] = f] /\ file' = [file EXCEPT ![f] = Opened] /\ fd' = [fd EXCEPT ![p] = f]
      BY <2>3 DEF OpenTmp
    <3> HIDE DEF f
    <3> QED
      BY <1>1, <2>1, <3>1, <3>2 DEF OpenTmp, StoreTypeOK
  <2> QED
    BY <2>2, <2>3
<1>3. Roles'
  BY <1>1 DEF OpenTmp, StoreTypeOK, Roles, Goes
<1> QED
  BY <1>2, <1>3 DEF TypedAfter

LEMMA OverTyped ==
  ASSUME NEW old \in Metadata \cup Torn, NEW new \in Metadata
  PROVE  Over(old, new) \in Metadata \cup Torn
BY DEF Over, Metadata, Torn

LEMMA WriteTyped ==
  ASSUME StoreTypeOK, Roles, TextInv, NEW p \in Procs,
         NEW from, NEW to, (from = "write" /\ to = "replace") \/ (from = "pin_write" /\ to = "pin_replace"),
         WriteTmp(p, from, to)
  PROVE  TypedAfter
PROOF
<1>1. /\ (from = "write" /\ to = "replace") \/ (from = "pin_write" /\ to = "pin_replace")
      /\ pc[p] = from
  BY DEF WriteTmp, Goes
<1>2. text[p] \in Metadata
  BY <1>1 DEF TextInv, Writing, Staging
<1>3. file' \in [Files -> Metadata \cup Torn]
  BY <1>2, OverTyped DEF WriteTmp, StoreTypeOK
<1> QED
  BY <1>1, <1>3 DEF WriteTmp, StoreTypeOK, Roles, Steps, Ended, Staging, Goes, TypedAfter

LEMMA ReplaceTyped ==
  ASSUME StoreTypeOK, Roles, NEW p \in Procs,
         NEW from, NEW to, \/ from = "replace" /\ to = Created(p)
                           \/ from = "pin_replace" /\ to = IF p \in Runners THEN "check" ELSE "done",
         Replace(p, from, to)
  PROVE  TypedAfter
PROOF
<1>1. to \in {"choose", "pin_read", "check", "done"} /\ pc[p] = from
  BY DEF Created, Replace, Goes
<1>2. StoreTypeOK'
  BY <1>1, ConstantFacts DEF Replace, StoreTypeOK, Steps, Ended, Staging, Goes
<1>3. pc'[p] \in {to, "failed"} /\ want' = want /\ \A q \in Procs : q # p => pc'[q] = pc[q]
  BY DEF Replace, Goes, StoreTypeOK
<1>4. from = "pin_replace" => want[p] # AutoEngine
  BY <1>1 DEF Roles
<1>5. Roles'
  BY <1>1, <1>3, <1>4 DEF Roles, Created
<1> QED
  BY <1>2, <1>5 DEF TypedAfter

LEMMA ResolveTyped ==
  ASSUME StoreTypeOK, Roles, NEW p \in Procs, Peek(p) \/ Choose(p) \/ Locate(p) \/ Load(p)
  PROVE  TypedAfter
PROOF
<1> USE DEF StoreTypeOK, Roles, Steps, Ended, Staging, Goes, Sweeps, diskVars, TypedAfter
<1>1. CASE Peek(p)
  BY <1>1, ConstantFacts DEF Peek
<1>2. CASE Choose(p)
  BY <1>2, ConstantFacts DEF Choose
<1>3. CASE Locate(p)
  BY <1>3, ConstantFacts DEF Locate
<1>4. CASE Load(p)
  <2>1. CASE IsReadable
    <3>1. OnDisk.pin \in Pins
      BY <2>1, ReadableIsTyped
    <3> QED
      BY <1>4, <2>1, <3>1, ConstantFacts DEF Load
  <2>2. CASE ~IsReadable
    BY <1>4, <2>2 DEF Load
  <2> QED
    BY <2>1, <2>2
<1> QED
  BY <1>1, <1>2, <1>3, <1>4

LEMMA PinReadTyped ==
  ASSUME StoreTypeOK, Roles, NEW p \in Procs, PinRead(p)
  PROVE  TypedAfter
PROOF
<1> USE DEF StoreTypeOK, Roles, Steps, Ended, Staging, Goes, TypedAfter
<1>1. text' \in [Procs -> Metadata \cup {Opened}]
  BY ConstantFacts, ReadableIsTyped, TornFacts DEF PinRead
<1> QED
  BY <1>1 DEF PinRead, diskVars

LEMMA StepTyped ==
  ASSUME StoreTypeOK, Roles, TextInv, NEW p \in Procs, Step(p) \/ Crash(p)
  PROVE  TypedAfter
PROOF
<1>1. CASE Sweep(p) \/ Exists(p)
  BY <1>1 DEF Sweep, Exists, StoreTypeOK, Roles, Steps, Ended, Staging, Goes, Sweeps, diskVars, TypedAfter
<1>2. CASE ReadBack(p)
  <2>1. pc[p] = "readback" /\ UNCHANGED <<diskVars, want, text, fd, cut, pinned, crossed>>
        /\ pc' = [pc EXCEPT ![p] = pc'[p]]
        /\ pc'[p] \in {"corrupt", "done"} \cup (IF want[p] = AutoEngine THEN {"choose"} ELSE {"pin_read"})
    BY <1>2 DEF ReadBack, Goes, StoreTypeOK, Created
  <2>2. StoreTypeOK'
    BY <2>1 DEF StoreTypeOK, Steps, Ended, diskVars
  <2>3. Roles'
    BY <2>1 DEF StoreTypeOK, Roles
  <2> QED
    BY <2>2, <2>3 DEF TypedAfter
<1>3. CASE MakeSkeleton(p)
  <2>1. [born |-> Call(p), pin |-> NoPin] \in Metadata /\ Call(p) \in Trees
    BY ConstantFacts, TornFacts, CallFacts
  <2> QED
    BY <1>3, <2>1 DEF MakeSkeleton, StoreTypeOK, Roles, Steps, Ended, Staging, Goes, TypedAfter
<1>4. CASE Wipe(p)
  <2> USE DEF StoreTypeOK, Roles, Steps, Ended, Staging, Goes, Sweeps, diskVars, TypedAfter
  <2>1. CASE WipeSweep(p)
    BY <2>1 DEF WipeSweep
  <2>2. CASE WipeCheck(p) \/ WipeRead(p)
    BY <2>2 DEF WipeCheck, WipeRead
  <2>3. CASE Detach(p)
    BY <2>3 DEF Detach
  <2>4. CASE Rmtree(p)
    BY <2>4 DEF Rmtree
  <2> QED
    BY <1>4, <2>1, <2>2, <2>3, <2>4 DEF Wipe
<1>5. CASE Check(p)
  BY <1>5 DEF Check, StoreTypeOK, Roles, Steps, Ended, Staging, Goes, diskVars, TypedAfter
<1>6. CASE StoreRun(p)
  <2>1. p \in Runners /\ live' \in Trees
    BY <1>6, CallFacts DEF StoreRun, Roles, Goes, StoreTypeOK
  <2>2. runs[live'] \cup {p} \in SUBSET Runners
    BY <2>1 DEF StoreTypeOK
  <2>3. runs' \in [Trees -> SUBSET Runners]
    BY <1>6, <2>1, <2>2 DEF StoreRun, StoreTypeOK
  <2> QED
    BY <1>6, <2>1, <2>3 DEF StoreRun, StoreTypeOK, Roles, Steps, Ended, Staging, Goes, TypedAfter
<1>7. CASE Crash(p)
  BY <1>7 DEF Crash, InFlight, StoreTypeOK, Roles, Steps, Ended, Staging, diskVars, TypedAfter
<1>8. CASE Create(p)
  BY <1>8, CallFacts, OpenTyped, WriteTyped, ReplaceTyped DEF Create
<1>9. CASE Pin(p)
  <2>1. CASE PinRead(p)
    BY <2>1, PinReadTyped
  <2>2. CASE OpenTmp(p, "pin_open", "pin_write", <<p, "pin">>)
    <3>1. <<p, "pin">> \in Files
      BY ConstantFacts
    <3> QED
      BY <2>2, <3>1, OpenTyped
  <2>3. CASE WriteTmp(p, "pin_write", "pin_replace")
    BY <2>3, WriteTyped
  <2>4. CASE Replace(p, "pin_replace", IF p \in Runners THEN "check" ELSE "done")
    <3> DEFINE to == IF p \in Runners THEN "check" ELSE "done"
    <3>1. Replace(p, "pin_replace", to) /\ to = IF p \in Runners THEN "check" ELSE "done"
      BY <2>4
    <3> HIDE DEF to
    <3> QED
      BY <3>1, ReplaceTyped
  <2> QED
    BY <1>9, <2>1, <2>2, <2>3, <2>4 DEF Pin
<1> QED
  BY <1>1, <1>2, <1>3, <1>4, <1>5, <1>6, <1>7, <1>8, <1>9, ResolveTyped DEF Step

LEMMA StepText ==
  ASSUME StoreTypeOK, TextInv, NEW p \in Procs, Step(p) \/ Crash(p)
  PROVE  TextInv'
PROOF
<1>1. Others(p)
  BY StepMoves
<1> SUFFICES pc'[p] \in Writing => text'[p] \in Metadata
  BY <1>1 DEF TextInv, Others
<1>2. CASE PinRead(p)
  <2> HAVE pc'[p] \in Writing
  <2>1. want[p] \in Supported /\ IsReadable /\ text'[p] = [OnDisk EXCEPT !.pin = want[p]]
    BY <1>2 DEF PinRead, Goes, StoreTypeOK, Writing, Staging
  <2> QED
    BY <2>1, ReadableIsTyped, TornFacts, ConstantFacts
<1>3. CASE MakeSkeleton(p)
  BY <1>3, CallFacts, ConstantFacts, TornFacts DEF MakeSkeleton, StoreTypeOK
<1>4. CASE OpenTmp(p, "open", "write", Call(p)) \/ OpenTmp(p, "pin_open", "pin_write", <<p, "pin">>)
  BY <1>4 DEF OpenTmp, Goes, StoreTypeOK, TextInv, Writing, Staging
<1>5. CASE WriteTmp(p, "write", "replace") \/ WriteTmp(p, "pin_write", "pin_replace")
  BY <1>5 DEF WriteTmp, Goes, StoreTypeOK, TextInv, Writing, Staging
<1>6. CASE Replace(p, "replace", Created(p)) \/ Replace(p, "pin_replace", IF p \in Runners THEN "check" ELSE "done")
  BY <1>6 DEF Replace, Created, Goes, StoreTypeOK, Writing, Staging
<1>7. CASE Peek(p) \/ Choose(p) \/ Locate(p) \/ Load(p) \/ Sweep(p) \/ Exists(p) \/ ReadBack(p)
  BY <1>7 DEF Peek, Choose, Locate, Load, Sweep, Exists, ReadBack, Created, Goes, StoreTypeOK, Writing, Staging
<1>8. CASE Wipe(p) \/ Check(p) \/ StoreRun(p) \/ Crash(p)
  BY <1>8 DEF Wipe, WipeSweep, WipeCheck, WipeRead, Detach, Rmtree, Check, StoreRun, Crash, Goes, StoreTypeOK,
              Writing, Staging
<1> QED
  BY <1>2, <1>3, <1>4, <1>5, <1>6, <1>7, <1>8 DEF Step, Create, Pin

-----------------------------------------------------------------------------
(***************************************************************************)
(* Names, and verbs that overlap                                           *)
(***************************************************************************)

\* Where a step may change what the names refer to.
Moves(p, mine) ==
  /\ live' \in {live, NoTree, Call(p)}
  /\ \/ UNCHANGED <<meta, tmp>>
     \/ live \in Trees /\ meta' = meta /\ \E f \in {mine, tmp[live]} : tmp' = [tmp EXCEPT ![live] = f]
     \/ live \in Trees /\ tmp' = [tmp EXCEPT ![live] = NoFile] /\ meta' = [meta EXCEPT ![live] = tmp[live]]

LEMMA MovesKeep ==
  ASSUME StoreTypeOK, NEW p \in Procs, NEW mine \in Files, Moves(p, mine)
  PROVE  /\ \A f \in Files : Unused(f) /\ f # mine => Unused(f)'
         /\ \A t \in Trees : Unmade(t) /\ live' # t => Unmade(t)'
BY ConstantFacts DEF Moves, Unused, Unmade, StoreTypeOK

\* A step of p keeps what the other verbs have not made.
LEMMA OthersFresh ==
  ASSUME StoreTypeOK, \A q \in Procs : Fresh(q), NEW p \in Procs, Others(p),
         NEW mine \in {Call(p), <<p, "pin">>}, Moves(p, mine),
         NEW q \in Procs, q # p
  PROVE  Fresh(q)'
PROOF
<1>1. mine \in Files
  BY CallFacts, ConstantFacts
<1>2. /\ pc'[q] = pc[q] /\ want'[q] = want[q] /\ Call(q)' = Call(q)
      /\ Call(q) \in {<<q, "existing">>, <<q, "chosen">>} /\ Call(q) \in Trees /\ Call(q) \in Files
  BY CallFacts DEF Others, Call
<1>3. /\ mine \in {<<p, "existing">>, <<p, "chosen">>, <<p, "pin">>}
      /\ Call(p) \in {<<p, "existing">>, <<p, "chosen">>}
  BY CallFacts
<1>4. ASSUME NEW t, t \in {<<q, "existing">>, <<q, "chosen">>, <<q, "pin">>} PROVE t # Call(p) /\ t # mine
  <2>1. t[1] = q
    BY <1>4
  <2>2. Call(p)[1] = p /\ mine[1] = p
    BY <1>3
  <2> QED
    BY <2>1, <2>2
<1>5. /\ Call(q) # Call(p) /\ <<q, "chosen">> # Call(p)
      /\ Call(q) # mine /\ <<q, "chosen">> # mine /\ <<q, "pin">> # mine
      /\ <<q, "chosen">> \in Trees /\ <<q, "chosen">> \in Files /\ <<q, "pin">> \in Files
  BY <1>2, <1>4, ConstantFacts
<1> QED
  BY <1>1, <1>2, <1>5, MovesKeep, ConstantFacts DEF Fresh, Moves, Unmade

\* A step that leaves every name alone, but for the directory it may make.
LEMMA QuietFresh ==
  ASSUME StoreTypeOK, \A q \in Procs : Fresh(q), NEW p \in Procs, Others(p),
         UNCHANGED <<meta, tmp>>, live' \in {live, NoTree},
         want'[p] = want[p] \/ want[p] = AutoEngine,
         pc'[p] \in BeforeTree =>
           pc[p] \in BeforeTree \/ (pc[p] = "choose" /\ want[p] = AutoEngine /\ want'[p] # AutoEngine),
         p \in Runners /\ pc'[p] \in Steps => pc[p] \in Steps \/ pc[p] = "idle",
         pc'[p] = "open" => pc[p] = "open",
         pc'[p] \in BeforePin => pc[p] \in BeforePin
  PROVE  \A q \in Procs : Fresh(q)'
PROOF
<1>1. Moves(p, Call(p)) /\ Call(p) \in Files /\ Call(p) \in Trees
  BY CallFacts DEF Moves
<1>2. ASSUME NEW q \in Procs, q # p PROVE Fresh(q)'
  BY <1>1, <1>2, OthersFresh
<1>3. /\ \A f \in Files : Unused(f) => Unused(f)'
      /\ \A t \in Trees : Unmade(t) => Unmade(t)'
  BY ConstantFacts DEF Unused, Unmade
<1>4. Fresh(p)'
  <2>1. Fresh(p)
    OBVIOUS
  <2>2. CASE want'[p] = want[p]
    <3>1. Call(p)' = Call(p)
      BY <2>2 DEF Call
    <3> QED
      BY <1>1, <1>3, <2>1, <2>2, <3>1, ConstantFacts DEF Fresh, BeforeTree, BeforePin
  <2>3. CASE want[p] = AutoEngine /\ want'[p] # want[p]
    <3>1. Call(p)' = <<p, "chosen">>
      BY <2>3 DEF Call
    <3>2. Unmade(<<p, "chosen">>)' /\ Unused(<<p, "chosen">>)'
      BY <1>3, <2>1, <2>3, ConstantFacts DEF Fresh
    <3> QED
      BY <1>1, <1>3, <2>1, <2>3, <3>1, <3>2, ConstantFacts DEF Fresh, BeforeTree, BeforePin
  <2> QED
    BY <2>2, <2>3
<1> QED
  BY <1>2, <1>4

\* A step that opens, writes and replaces nothing.
LEMMA QuietSolo ==
  ASSUME StoreTypeOK, Solo, NEW p \in Procs, Others(p), pc'[p] \notin Staging,
         UNCHANGED <<meta, tmp, file, fd>>,
         live' \in {live, NoTree} \/ (live' \in Trees /\ tmp[live'] = NoFile)
  PROVE  Solo'
PROOF
<1>1. Lone'
  BY DEF Solo, Lone, Others
<1>2. Names'
  BY DEF Solo, Names
<1>3. ASSUME NEW q \in Procs, pc'[q] \in Staging PROVE Staged(q)'
  <2>1. q # p /\ pc[q] \in Staging /\ pc'[q] = pc[q] /\ text'[q] = text[q]
    BY <1>3 DEF Others
  <2>2. Staged(q)
    BY DEF Solo
  <2> QED
    BY <2>1, <2>2 DEF Staged
<1> QED
  BY <1>1, <1>2, <1>3 DEF Solo, Staged

LEMMA OpenSolo ==
  ASSUME StoreInv, NEW p \in Procs, NEW from, NEW to, NEW mine \in {Call(p), <<p, "pin">>},
         \/ from = "open" /\ to = "write" /\ mine = Call(p)
         \/ from = "pin_open" /\ to = "pin_write" /\ mine = <<p, "pin">>,
         OpenTmp(p, from, to, mine), ~crossed'
  PROVE  Solo'
PROOF
<1> USE DEF Goes
<1>1. /\ pc[p] = from /\ from \notin Staging /\ to \in {"write", "pin_write"} /\ to \in Staging
      /\ mine \in Files /\ Unused(mine) /\ StoreTypeOK
      /\ UNCHANGED <<live, meta, text>> /\ \A q \in Procs : q # p => pc'[q] = pc[q]
  BY CallFacts, ConstantFacts DEF OpenTmp, Staging, StoreInv, StoreTypeOK, Fresh, BeforePin, BeforeTree
<1>2. Solo /\ ~Crosses(p)
  BY DEF OpenTmp, StoreInv, StoreTypeOK, Crosses
<1>3. CASE live = NoTree
  <2>1. Others(p) /\ pc'[p] \notin Staging /\ UNCHANGED <<meta, tmp, file, fd>> /\ live' = live
    BY <1>1, <1>3 DEF OpenTmp, StoreTypeOK, Others, Staging
  <2> QED
    BY <1>1, <1>2, <2>1, QuietSolo
<1>4. CASE live # NoTree
  <2> DEFINE f == IF tmp[live] = NoFile THEN mine ELSE tmp[live]
  <2>1. /\ f \in Files /\ live \in Trees
        /\ tmp' = [tmp EXCEPT ![live] = f] /\ file' = [file EXCEPT ![f] = Opened]
        /\ fd'[p] = f /\ pc'[p] = to
    BY <1>1, <1>4 DEF OpenTmp, StoreTypeOK
  <2>2. f = tmp[live] \/ (f = mine /\ tmp[live] = NoFile)
    OBVIOUS
  <2> HIDE DEF f
  <2>3. \A t \in Trees : meta[t] # f /\ (t # live => tmp[t] # f)
    BY <1>1, <1>2, <2>1, <2>2, ConstantFacts DEF Solo, Names, Unused
  <2>4. Names'
    BY <1>1, <1>2, <2>1, <2>3, ConstantFacts DEF Solo, Names, StoreTypeOK
  <2>5. \A q \in Procs : pc'[q] \in Staging => q = p
    BY <1>1, <1>2, <1>4 DEF Crosses
  <2>6. Staged(p)'
    BY <1>1, <2>1, ConstantFacts DEF Staged, StoreTypeOK
  <2> QED
    BY <2>4, <2>5, <2>6 DEF Solo, Lone, Staged
<1> QED
  BY <1>3, <1>4

LEMMA WriteSolo ==
  ASSUME StoreInv, NEW p \in Procs,
         NEW from, NEW to, (from = "write" /\ to = "replace") \/ (from = "pin_write" /\ to = "pin_replace"),
         WriteTmp(p, from, to), ~crossed'
  PROVE  Solo'
PROOF
<1>1. /\ (from = "write" /\ to = "replace") \/ (from = "pin_write" /\ to = "pin_replace")
      /\ StoreTypeOK /\ Solo /\ pc[p] = from /\ from \in {"write", "pin_write"} /\ to \in Staging \ {"write", "pin_write"}
  BY DEF StoreInv, WriteTmp, Goes, Staging
<1>2. /\ text[p] \in Metadata /\ fd[p] \in Files /\ file[fd[p]] = Opened
      /\ \A t \in Trees : meta[t] # fd[p]
  <2>1. Staged(p) /\ pc[p] \in Staging
    BY <1>1 DEF Solo, Staging
  <2>2. text[p] \in Metadata
    BY <1>1 DEF StoreInv, TextInv, Writing, Staging
  <2>3. fd[p] \in Files /\ file[fd[p]] = Opened /\ \E t \in Trees : tmp[t] = fd[p]
    BY <1>1, <2>1 DEF Staged, StoreTypeOK
  <2> QED
    BY <1>1, <2>2, <2>3, ConstantFacts DEF Solo, Names
<1>3. /\ UNCHANGED <<live, meta, tmp, text, fd>> /\ pc'[p] = to /\ \A q \in Procs : q # p => pc'[q] = pc[q]
      /\ file' = [file EXCEPT ![fd[p]] = text[p]]
  BY <1>1, <1>2 DEF WriteTmp, Goes, StoreTypeOK, Over
<1>4. Names'
  BY <1>1, <1>2, <1>3 DEF Solo, Names, StoreTypeOK
<1>5. Lone' /\ \A q \in Procs : pc'[q] \in Staging => q = p
  BY <1>1, <1>3 DEF Solo, Lone, Staging
<1>6. Staged(p)'
  BY <1>1, <1>2, <1>3 DEF Solo, Staged, Staging, StoreTypeOK
<1> QED
  BY <1>4, <1>5, <1>6 DEF Solo, Staged

LEMMA ReplaceSolo ==
  ASSUME StoreInv, NEW p \in Procs, NEW from \in {"replace", "pin_replace"}, NEW to, to \notin Staging,
         Replace(p, from, to), ~crossed'
  PROVE  Solo'
PROOF
<1>1. /\ StoreTypeOK /\ Solo /\ pc[p] = from /\ Others(p) /\ pc'[p] \notin Staging
      /\ UNCHANGED <<live, file, text, fd>>
  BY DEF StoreInv, Replace, Goes, Staging, StoreTypeOK, Others
<1>2. CASE live # NoTree /\ tmp[live] # NoFile
  <2>1. Staged(p) /\ text[p] \in Metadata
    BY <1>1 DEF Solo, StoreInv, TextInv, Writing, Staging
  <2>2. live \in Trees /\ tmp[live] = fd[p] /\ fd[p] \in Files /\ file[fd[p]] = text[p]
    BY <1>1, <1>2, <2>1 DEF Staged, Staging, StoreTypeOK
  <2>3. meta' = [meta EXCEPT ![live] = fd[p]] /\ tmp' = [tmp EXCEPT ![live] = NoFile]
    BY <1>2, <2>2 DEF Replace
  <2>4. Names'
    BY <1>1, <2>1, <2>2, <2>3, TornFacts, ConstantFacts DEF Solo, Names, StoreTypeOK
  <2>5. \A q \in Procs : pc'[q] \notin Staging
    BY <1>1 DEF Solo, Lone, Others, Staging
  <2> QED
    BY <2>4, <2>5 DEF Solo, Lone, Staged
<1>3. CASE ~(live # NoTree /\ tmp[live] # NoFile)
  <2>1. UNCHANGED <<meta, tmp>>
    BY <1>3 DEF Replace
  <2> QED
    BY <1>1, <2>1, QuietSolo
<1> QED
  BY <1>2, <1>3

\* The files and directories p makes are the ones no name refers to yet.
LEMMA BeginFresh ==
  ASSUME StoreInv, NEW p \in Procs, Begins(p)
  PROVE  \A q \in Procs : Fresh(q)'
BY BeginMoves, QuietFresh DEF StoreInv, Roles, BeforeTree, BeforePin

LEMMA StepFresh ==
  ASSUME StoreInv, NEW p \in Procs, Step(p) \/ Crash(p)
  PROVE  \A q \in Procs : Fresh(q)'
PROOF
<1> USE DEF Goes, diskVars
<1>1. /\ StoreTypeOK /\ Roles /\ Others(p) /\ InFlight(p) /\ Fresh(p) /\ \A q \in Procs : Fresh(q)
      /\ Call(p) \in Trees /\ Call(p) \in Files /\ Call(p) # <<p, "pin">>
      /\ want[p] = AutoEngine => Call(p) # <<p, "chosen">>
      /\ <<p, "chosen">> \in Trees /\ <<p, "chosen">> \in Files /\ <<p, "pin">> \in Files
  BY StepMoves, CallFacts, ConstantFacts DEF StoreInv, Call
<1> DEFINE Ahead ==
       /\ pc'[p] \in BeforeTree =>
            pc[p] \in BeforeTree \/ (pc[p] = "choose" /\ want[p] = AutoEngine /\ want'[p] # AutoEngine)
       /\ p \in Runners /\ pc'[p] \in Steps => pc[p] \in Steps \/ pc[p] = "idle"
       /\ pc'[p] = "open" => pc[p] = "open"
       /\ pc'[p] \in BeforePin => pc[p] \in BeforePin
<1>2. CASE Peek(p) \/ Choose(p) \/ Locate(p) \/ Load(p)
  <2>1. UNCHANGED <<live, meta, tmp>> /\ want[p] = AutoEngine /\ pc[p] \in {"peek", "choose", "locate", "load"}
    BY <1>1, <1>2 DEF Peek, Choose, Locate, Load, Roles
  <2>2. pc[p] = "choose" => want'[p] # AutoEngine
    BY <1>1, <1>2, ConstantFacts DEF Peek, Choose, Locate, Load, StoreTypeOK
  <2>3. Ahead
    <3>1. CASE Peek(p)
      BY <1>1, <3>1 DEF BeforeTree, BeforePin, InFlight, Peek, StoreTypeOK
    <3>2. CASE Choose(p)
      BY <1>1, <2>1, <2>2, <3>2 DEF BeforeTree, BeforePin, InFlight, Choose, StoreTypeOK
    <3>3. CASE Locate(p)
      BY <1>1, <3>3 DEF BeforeTree, BeforePin, InFlight, Locate, StoreTypeOK
    <3>4. CASE Load(p)
      BY <1>1, <3>4 DEF BeforeTree, BeforePin, InFlight, Load, StoreTypeOK
    <3> QED
      BY <1>2, <3>1, <3>2, <3>3, <3>4
  <2> QED
    BY <1>1, <2>1, <2>3, QuietFresh
<1>3. CASE Sweep(p) \/ Exists(p) \/ ReadBack(p) \/ Check(p) \/ Crash(p)
  <2>1. UNCHANGED <<live, meta, tmp, want>>
    BY <1>3 DEF Sweep, Exists, ReadBack, Check, Crash
  <2>2. Ahead
    BY <1>1, <1>3 DEF BeforeTree, BeforePin, InFlight, Sweep, Exists, ReadBack, Created, Check, Crash, StoreTypeOK, Steps,
                      Staging
  <2> QED
    BY <1>1, <2>1, <2>2, QuietFresh
<1>4. CASE Wipe(p)
  <2>1. UNCHANGED <<meta, tmp, want>> /\ live' \in {live, NoTree}
    BY <1>4 DEF Wipe, WipeSweep, WipeCheck, WipeRead, Detach, Rmtree
  <2>2. Ahead
    BY <1>1, <1>4 DEF BeforeTree, BeforePin, InFlight, Wipe, WipeSweep, WipeCheck, WipeRead, Detach, Rmtree, StoreTypeOK
  <2> QED
    BY <1>1, <2>1, <2>2, QuietFresh
<1>5. CASE PinRead(p)
  <2>1. UNCHANGED <<live, meta, tmp, want>>
    BY <1>5 DEF PinRead
  <2>2. Ahead
    BY <1>1, <1>5 DEF BeforeTree, BeforePin, InFlight, PinRead, StoreTypeOK
  <2> QED
    BY <1>1, <2>1, <2>2, QuietFresh
<1>6. CASE MakeSkeleton(p) \/ StoreRun(p)
  <2>1. /\ UNCHANGED <<meta, tmp, want>> /\ live' \in {live, Call(p)} /\ Call(p)' = Call(p)
        /\ \/ pc[p] = "skeleton" /\ pc'[p] = "open" /\ p \notin Runners
           \/ pc[p] = "mkdir" /\ pc'[p] = "done" /\ want[p] # AutoEngine
    BY <1>1, <1>6, ConstantFacts DEF MakeSkeleton, StoreRun, StoreTypeOK, Roles, Call
  <2>2. Moves(p, Call(p))
    BY <2>1 DEF Moves
  <2>3. \A q \in Procs : q # p => Fresh(q)'
    BY <1>1, <2>2, OthersFresh
  <2>4. Fresh(p)'
    <3>1. \A f \in Files : Unused(f) => Unused(f)'
      BY <2>1 DEF Unused
    <3>2. \A t \in Trees : Unmade(t) /\ t # Call(p) => Unmade(t)'
      BY <2>1 DEF Unmade
    <3>3. CASE pc[p] = "skeleton" /\ pc'[p] = "open" /\ p \notin Runners
      BY <1>1, <2>1, <3>1, <3>2, <3>3 DEF Fresh, BeforeTree, BeforePin
    <3>4. CASE pc[p] = "mkdir" /\ pc'[p] = "done" /\ want[p] # AutoEngine
      BY <2>1, <3>4 DEF Fresh, BeforeTree, BeforePin, Steps, Staging
    <3> QED
      BY <2>1, <3>3, <3>4
  <2> QED
    BY <2>3, <2>4
<1>7. ASSUME NEW from, NEW to, NEW mine \in {Call(p), <<p, "pin">>},
             \/ from = "open" /\ to = "write" /\ mine = Call(p)
             \/ from = "pin_open" /\ to = "pin_write" /\ mine = <<p, "pin">>,
             OpenTmp(p, from, to, mine)
      PROVE  \A q \in Procs : Fresh(q)'
  <2>1. /\ pc[p] = from /\ pc'[p] \in {to, "failed"} /\ UNCHANGED <<live, want, meta>> /\ Call(p)' = Call(p)
        /\ mine \in Files
    BY <1>1, <1>7 DEF OpenTmp, StoreTypeOK, Call
  <2>2. Moves(p, mine)
    BY <1>1, <1>7, <2>1 DEF OpenTmp, Moves, StoreTypeOK
  <2>3. \A q \in Procs : q # p => Fresh(q)'
    BY <1>1, <2>2, OthersFresh
  <2>4. Fresh(p)'
    BY <1>1, <1>7, <2>1, <2>2, MovesKeep DEF Fresh, BeforeTree, BeforePin, Unmade, Steps, Staging
  <2> QED
    BY <2>3, <2>4
<1>8. ASSUME NEW from, NEW to, (from = "write" /\ to = "replace") \/ (from = "pin_write" /\ to = "pin_replace"),
             WriteTmp(p, from, to)
      PROVE  \A q \in Procs : Fresh(q)'
  <2>1. UNCHANGED <<live, meta, tmp, want>>
    BY <1>8 DEF WriteTmp
  <2>2. Ahead
    BY <1>1, <1>8 DEF BeforeTree, BeforePin, InFlight, WriteTmp, StoreTypeOK
  <2> QED
    BY <1>1, <2>1, <2>2, QuietFresh
<1>9. ASSUME NEW from, NEW to, \/ from = "replace" /\ to = Created(p)
                               \/ from = "pin_replace" /\ to = IF p \in Runners THEN "check" ELSE "done",
             Replace(p, from, to)
      PROVE  \A q \in Procs : Fresh(q)'
  <2>1. /\ pc[p] = from /\ pc'[p] \in {to, "failed"} /\ UNCHANGED <<live, want>> /\ Call(p)' = Call(p)
        /\ to \in {"choose", "pin_read", "check", "done"}
    BY <1>1, <1>9 DEF Replace, StoreTypeOK, Call, Created
  <2>2. /\ \A f \in Files : Unused(f) => Unused(f)'
        /\ \A t \in Trees : Unmade(t) => Unmade(t)'
    <3>1. CASE live # NoTree /\ tmp[live] # NoFile
      BY <1>1, <1>9, <3>1, ConstantFacts DEF Replace, Unused, Unmade, StoreTypeOK
    <3>2. CASE ~(live # NoTree /\ tmp[live] # NoFile)
      BY <1>9, <3>2 DEF Replace, Unused, Unmade
    <3> QED
      BY <3>1, <3>2
  <2>3. Moves(p, Call(p))
    BY <1>1, <1>9, <2>1 DEF Replace, Moves, StoreTypeOK
  <2>4. \A q \in Procs : q # p => Fresh(q)'
    BY <1>1, <2>3, OthersFresh
  <2>5. Fresh(p)'
    BY <1>1, <1>9, <2>1, <2>2 DEF Fresh, BeforeTree, BeforePin, Steps, Staging, Created
  <2> QED
    BY <2>4, <2>5
<1>10. CASE Create(p)
  BY <1>7, <1>8, <1>9, <1>10 DEF Create
<1>11. CASE Pin(p)
  BY <1>5, <1>7, <1>8, <1>9, <1>11 DEF Pin
<1> QED
  BY <1>2, <1>3, <1>4, <1>6, <1>10, <1>11 DEF Step

LEMMA StepSolo ==
  ASSUME StoreInv, NEW p \in Procs, Step(p) \/ Crash(p), ~crossed'
  PROVE  Solo'
PROOF
<1> USE DEF Goes, diskVars
<1>1. /\ StoreTypeOK /\ Others(p) /\ Fresh(p) /\ Roles
      /\ Call(p) \in Trees
  BY StepMoves, CallFacts DEF StoreInv
<1>2. CASE Create(p)
  BY <1>2, OpenSolo, WriteSolo, ReplaceSolo DEF Create, Created, Staging
<1>3. CASE Pin(p) /\ ~PinRead(p)
  BY <1>3, OpenSolo, WriteSolo, ReplaceSolo DEF Pin, Staging
<1>4. ASSUME UNCHANGED <<meta, tmp, file, fd, crossed>>, pc'[p] \notin Staging,
             live' \in {live, NoTree} \/ (live' \in Trees /\ tmp[live'] = NoFile)
      PROVE  Solo'
  BY <1>1, <1>4, QuietSolo DEF StoreInv
<1>5. CASE Peek(p) \/ Choose(p) \/ Locate(p) \/ Load(p) \/ Sweep(p) \/ Exists(p) \/ ReadBack(p) \/ PinRead(p)
  <2>1. UNCHANGED <<live, meta, tmp, file, fd, crossed>>
    BY <1>5 DEF Peek, Choose, Locate, Load, Sweep, Exists, ReadBack, PinRead
  <2>2. pc'[p] \notin Staging
    BY <1>1, <1>5 DEF Peek, Choose, Locate, Load, Sweep, Exists, ReadBack, Created, PinRead, Staging, StoreTypeOK
  <2> QED
    BY <1>4, <2>1, <2>2
<1>6. CASE Wipe(p) \/ Check(p) \/ Crash(p)
  <2>1. UNCHANGED <<meta, tmp, file, fd, crossed>> /\ live' \in {live, NoTree}
    BY <1>6 DEF Wipe, WipeSweep, WipeCheck, WipeRead, Detach, Rmtree, Check, Crash
  <2>2. pc'[p] \notin Staging
    BY <1>1, <1>6 DEF Wipe, WipeSweep, WipeCheck, WipeRead, Detach, Rmtree, Check, Crash, Staging, StoreTypeOK
  <2> QED
    BY <1>4, <2>1, <2>2
<1>7. CASE MakeSkeleton(p) \/ StoreRun(p)
  <2>1. UNCHANGED <<meta, tmp, file, fd, crossed>> /\ live' \in {live, Call(p)} /\ pc[p] \in {"skeleton", "mkdir"}
    BY <1>7 DEF MakeSkeleton, StoreRun
  <2>2. pc'[p] \notin Staging /\ tmp[Call(p)] = NoFile
    BY <1>1, <1>7, <2>1 DEF MakeSkeleton, StoreRun, Staging, StoreTypeOK, Fresh, BeforeTree, Unmade, Roles, Steps
  <2> QED
    BY <1>1, <1>4, <2>1, <2>2
<1> QED
  BY <1>2, <1>3, <1>5, <1>6, <1>7 DEF Step, Pin

LEMMA StoreInvInit == Init => StoreInv
PROOF
<1> SUFFICES ASSUME Init PROVE StoreInv
  OBVIOUS
<1>1. StoreTypeOK /\ Roles
  BY StoreInitTyped
<1>2. TextInv
  BY DEF Init, TextInv, Writing, Staging
<1>3. file[First] \in Metadata /\ file[First].born # "torn"
  BY ConstantFacts, TornFacts DEF Init
<1>4. \A p \in Procs : Fresh(p)
  <2> SUFFICES ASSUME NEW p \in Procs PROVE Fresh(p)
    OBVIOUS
  <2>1. /\ Call(p) \notin {First, NoTree, NoFile} /\ <<p, "chosen">> \notin {First, NoTree, NoFile}
        /\ <<p, "pin">> \notin {First, NoFile} /\ Call(p) \in Trees /\ <<p, "chosen">> \in Trees
    BY ConstantFacts, CallFacts
  <2> QED
    BY <2>1 DEF Init, Fresh, Unmade, Unused
<1>5. Names
  BY <1>3, ConstantFacts DEF Init, Names
<1>6. Solo
  BY <1>5 DEF Init, Solo, Lone, Staged, Staging
<1> QED
  BY <1>1, <1>2, <1>4, <1>6 DEF StoreInv

LEMMA StoreInvStep == StoreInv /\ [Next]_vars => StoreInv'
PROOF
<1> SUFFICES ASSUME StoreInv, [Next]_vars PROVE StoreInv'
  OBVIOUS
<1> USE DEF StoreInv
<1>1. CASE UNCHANGED vars
  <2>1. StoreTypeOK' /\ Roles' /\ TextInv'
    BY <1>1 DEF vars, StoreTypeOK, Roles, TextInv
  <2>2. \A p \in Procs : Fresh(p)'
    BY <1>1 DEF vars, Fresh, Unmade, Unused, Call
  <2>3. ~crossed' => Solo'
    BY <1>1 DEF vars, Solo, Lone, Names, Staged
  <2> QED
    BY <2>1, <2>2, <2>3
<1>2. ASSUME NEW p \in Procs, Begins(p) PROVE StoreInv'
  <2>1. StoreTypeOK' /\ Roles'
    BY <1>2, BeginTyped DEF TypedAfter
  <2>2. TextInv'
    BY <1>2, BeginMoves DEF TextInv, Others, Writing, Staging
  <2>3. \A q \in Procs : Fresh(q)'
    BY <1>2, BeginFresh
  <2>4. ~crossed' => Solo'
    BY <1>2, BeginMoves, QuietSolo DEF Staging
  <2> QED
    BY <2>1, <2>2, <2>3, <2>4
<1>3. ASSUME NEW p \in Procs, Step(p) \/ Crash(p) PROVE StoreInv'
  BY <1>3, StepTyped, StepText, StepFresh, StepSolo DEF TypedAfter
<1> QED
  BY <1>1, <1>2, <1>3 DEF Next, Procs, Begins

\* Whatever verbs run beside each other and crash: store.json is torn only if
\* a verb opened its staging file before another one had replaced it
\* (_atomic_write_json).
THEOREM TornNeedsTwoWritersHolds == Spec => []TornNeedsTwoWriters
PROOF
<1>1. StoreInv => TornNeedsTwoWriters
  BY DEF StoreInv, StoreTypeOK, Solo, Names, TornNeedsTwoWriters, IsStore, IsReadable, OnDisk
<1> QED
  BY <1>1, StoreInvInit, StoreInvStep, PTL DEF Spec

\* Every system call of every verb keeps the store and the verbs typed.
THEOREM StoreTypeOKHolds == Spec => []StoreTypeOK
PROOF
<1>1. StoreInv => StoreTypeOK
  BY DEF StoreInv
<1> QED
  BY <1>1, StoreInvInit, StoreInvStep, PTL DEF Spec

-----------------------------------------------------------------------------
(***************************************************************************)
(* Verbs one after the other                                               *)
(***************************************************************************)

\* store.json is whole when it is there.
LEMMA WholeStore == StoreInv /\ ~crossed => (IsStore <=> IsReadable)
BY DEF StoreInv, Solo, Names, StoreTypeOK, IsStore, IsReadable, OnDisk

\* It is enough to look at the verb that runs.
LEMMA OnlyTheRunner ==
  ASSUME SerialInv, NEW p \in Procs, Step(p) \/ Crash(p), StoreInv', ~crossed',
         Held(p)', p \in Resets => ResetInv(p)'
  PROVE  SerialInv'
PROOF
<1>1. InFlight(p) /\ Others(p)
  BY StepMoves DEF SerialInv, StoreInv
<1>2. Alone'
  BY <1>1 DEF SerialInv, Alone, InFlight, Others
<1>3. ASSUME NEW q \in Procs, q # p PROVE Held(q)' /\ (q \in Resets => ResetInv(q)')
  <2>1. /\ pc'[q] = pc[q] /\ want'[q] = want[q] /\ text'[q] = text[q] /\ fd'[q] = fd[q]
        /\ cut'[q] = cut[q] /\ pinned'[q] = pinned[q] /\ pc[q] \notin Steps
    BY <1>1, <1>3 DEF SerialInv, Alone, InFlight, Others
  <2>2. Held(q)'
    BY <2>1 DEF Held, Steps, Writing, Staging
  <2>3. ASSUME q \in Resets PROVE ResetInv(q)'
    <3>1. ResetInv(q)
      BY <2>3 DEF SerialInv
    <3> QED
      BY <2>1, <3>1 DEF ResetInv, Steps, Staging, Rebuilding, Writing
  <2> QED
    BY <2>2, <2>3
<1> QED
  BY <1>2, <1>3 DEF SerialInv, Procs

\* Nobody is writing beside the verb that runs.
LEMMA NeverCrosses ==
  ASSUME SerialInv, NEW p \in Procs, Step(p) \/ Crash(p)
  PROVE  ~crossed'
PROOF
<1>1. InFlight(p) /\ ~Crosses(p)
  BY StepMoves DEF SerialInv, StoreInv, Alone, Crosses, InFlight, Steps
<1>2. CASE Create(p) \/ Pin(p)
  BY <1>1, <1>2 DEF SerialInv, Create, Pin, PinRead, OpenTmp, WriteTmp, Replace
<1>3. CASE Wipe(p) \/ Check(p) \/ StoreRun(p) \/ Crash(p)
  BY <1>3 DEF SerialInv, Wipe, WipeSweep, WipeCheck, WipeRead, Detach, Rmtree, Check, StoreRun, Crash
<1>4. CASE Peek(p) \/ Choose(p) \/ Locate(p) \/ Load(p) \/ Sweep(p) \/ Exists(p) \/ ReadBack(p) \/ MakeSkeleton(p)
  BY <1>4 DEF SerialInv, Peek, Choose, Locate, Load, Sweep, Exists, ReadBack, MakeSkeleton
<1> QED
  BY <1>2, <1>3, <1>4 DEF Step

LEMMA QuietSteps ==
  ASSUME SerialInv, NEW p \in Procs, Step(p) \/ Crash(p), ~Create(p), ~Pin(p)
  PROVE  Held(p)' /\ (p \in Resets => ResetInv(p)')
PROOF
<1> USE DEF Goes, diskVars
<1>2. Held(p) /\ (p \in Resets => ResetInv(p)) /\ StoreTypeOK /\ Roles /\ (IsStore <=> IsReadable)
  BY WholeStore DEF SerialInv, StoreInv
<1>3. CASE Peek(p) \/ Choose(p)
  <2>1. pc[p] \in {"peek", "choose"} /\ pc'[p] \in {"sweep", "choose", "refused"}
    BY <1>2, <1>3 DEF Peek, Choose, StoreTypeOK
  <2>2. p \notin Resets
    BY <1>2, <2>1, ConstantFacts DEF Roles
  <2> QED
    BY <2>1, <2>2 DEF Held, Writing, Staging
<1>4. CASE Locate(p)
  <2>1. /\ UNCHANGED <<live, meta, tmp, file, want, text, fd, cut, pinned>> /\ pc[p] = "locate"
        /\ pc'[p] = IF IsStore THEN "load" ELSE "refused"
    BY <1>2, <1>4 DEF Locate, StoreTypeOK
  <2> QED
    BY <1>2, <2>1 DEF Held, ResetInv, Rebuilding, Writing, Staging, IsStore
<1>5. CASE Load(p)
  <2>1. UNCHANGED <<live, meta, tmp, file, text, fd, cut>> /\ pc[p] = "load" /\ IsReadable
        /\ pc'[p] \in {"refused", "wipe_sweep", "pin_read", "check"}
    BY <1>2, <1>5 DEF Load, StoreTypeOK, Held
  <2>2. Held(p)'
    BY <1>2, <2>1 DEF Held, Writing, Staging, IsStore, IsReadable
  <2>3. ASSUME p \in Resets PROVE ResetInv(p)'
    <3>1. cut'[p] = NoTree /\ pc'[p] \in {"refused", "wipe_sweep"}
      BY <1>2, <1>5, <2>1, <2>3 DEF Load, StoreTypeOK, ResetInv
    <3>2. pc'[p] = "wipe_sweep" => /\ want'[p] = IF pinned'[p] # NoPin THEN pinned'[p] ELSE Choice
                                   /\ want'[p] # NoPin
      BY <1>2, <1>5 DEF Load, StoreTypeOK
    <3> QED
      BY <3>1, <3>2 DEF ResetInv, Rebuilding, Writing, Staging
  <2> QED
    BY <2>2, <2>3
<1>6. CASE Sweep(p) \/ Exists(p) \/ ReadBack(p)
  <2>1. UNCHANGED <<live, meta, tmp, file, want, text, fd, cut, pinned>>
    BY <1>6 DEF Sweep, Exists, ReadBack
  <2>2. \/ pc[p] = "sweep" /\ pc'[p] = "exists"
        \/ pc[p] = "exists" /\ pc'[p] = IF IsStore THEN "readback" ELSE "skeleton"
        \/ pc[p] = "readback" /\ pc'[p] \in {"done", "choose", "pin_read"}
    BY <1>2, <1>6 DEF Sweep, Exists, ReadBack, Created, StoreTypeOK, Held
  <2>3. Held(p)'
    BY <1>2, <2>1, <2>2 DEF Held, Writing, Staging, IsStore
  <2>4. p \in Resets => ResetInv(p)'
    BY <1>2, <2>1, <2>2 DEF ResetInv, Rebuilding, Writing, Staging, IsStore
  <2> QED
    BY <2>3, <2>4
<1>7. CASE MakeSkeleton(p)
  <2>1. /\ UNCHANGED <<meta, tmp, file, want, fd, cut, pinned>> /\ pc[p] = "skeleton" /\ pc'[p] = "open" /\ live' # NoTree
        /\ text'[p] = [born |-> Call(p), pin |-> NoPin]
    BY <1>2, <1>7, ConstantFacts, CallFacts DEF MakeSkeleton, StoreTypeOK
  <2>2. Held(p)'
    BY <2>1 DEF Held, Writing, Staging
  <2>3. p \in Resets => ResetInv(p)'
    BY <1>2, <2>1 DEF ResetInv, Rebuilding, Writing, Staging
  <2> QED
    BY <2>2, <2>3
<1>8. CASE WipeSweep(p) \/ WipeCheck(p) \/ WipeRead(p)
  <2>1. UNCHANGED <<live, meta, tmp, file, want, text, fd, cut, pinned>>
    BY <1>8 DEF WipeSweep, WipeCheck, WipeRead
  <2>2. \/ pc[p] = "wipe_sweep" /\ pc'[p] = "wipe_check"
        \/ pc[p] = "wipe_check" /\ pc'[p] = IF IsStore THEN "wipe_read" ELSE "refused"
        \/ pc[p] = "wipe_read" /\ pc'[p] \in {"corrupt", "detach"}
    BY <1>2, <1>8 DEF WipeSweep, WipeCheck, WipeRead, StoreTypeOK
  <2> QED
    BY <1>2, <2>1, <2>2 DEF Held, ResetInv, Rebuilding, Writing, Staging, IsStore
<1>9. CASE Detach(p)
  <2>1. /\ UNCHANGED <<meta, tmp, file, want, text, fd, pinned>> /\ pc[p] = "detach" /\ live' = NoTree
        /\ cut'[p] = live /\ staged' = staged \cup ({live} \ {NoTree})
        /\ pc'[p] = IF live # NoTree THEN "rmtree" ELSE "wipe_failed"
    BY <1>2, <1>9 DEF Detach, StoreTypeOK
  <2> QED
    BY <1>2, <2>1 DEF Held, ResetInv, Rebuilding, Writing, Staging
<1>10. CASE Rmtree(p)
  <2>1. UNCHANGED <<live, meta, tmp, file, want, text, fd, cut, pinned>> /\ pc[p] = "rmtree" /\ pc'[p] = "sweep"
        /\ live = NoTree
    BY <1>2, <1>10 DEF Rmtree, StoreTypeOK, Held
  <2> QED
    BY <1>2, <2>1 DEF Held, ResetInv, Rebuilding, Writing, Staging
<1>11. CASE Check(p) \/ StoreRun(p)
  <2>1. pc[p] \in {"check", "mkdir"} /\ pc'[p] \in {"mkdir", "refused", "done"}
    BY <1>2, <1>11 DEF Check, StoreRun, StoreTypeOK
  <2>2. p \notin Resets
    BY <1>2, <2>1, ConstantFacts DEF Roles
  <2> QED
    BY <2>1, <2>2 DEF Held, Writing, Staging
<1>12. CASE Crash(p)
  <2>1. pc'[p] = "crashed"
    BY <1>2, <1>12 DEF Crash, StoreTypeOK
  <2> QED
    BY <2>1 DEF Held, ResetInv, Rebuilding, Writing, Staging
<1> QED
  BY <1>3, <1>4, <1>5, <1>6, <1>7, <1>8, <1>9, <1>10, <1>11, <1>12 DEF Step, Wipe

LEMMA PinReadKeeps ==
  ASSUME SerialInv, NEW p \in Procs, PinRead(p)
  PROVE  Held(p)' /\ (p \in Resets => ResetInv(p)')
PROOF
<1> USE DEF Goes, diskVars
<1>2. Held(p) /\ (p \in Resets => ResetInv(p)) /\ StoreTypeOK /\ IsReadable /\ pc[p] = "pin_read"
  BY WholeStore DEF SerialInv, StoreInv, PinRead, Held
<1>3. /\ UNCHANGED <<live, meta, tmp, file, want, fd, cut, pinned>>
      /\ pc'[p] = IF want[p] \in Supported THEN "pin_open" ELSE "failed"
      /\ want[p] \in Supported => text'[p] = [OnDisk EXCEPT !.pin = want[p]]
  BY <1>2 DEF PinRead, StoreTypeOK
<1>4. want[p] \in Supported => text'[p].pin = want[p]
  <2> HAVE want[p] \in Supported
  <2>1. OnDisk \in Metadata /\ want[p] \in Pins
    BY <1>2, ReadableIsTyped, ConstantFacts
  <2>2. [OnDisk EXCEPT !.pin = want[p]].pin = want[p]
    BY <2>1, TornFacts
  <2> QED
    BY <1>3, <2>2
<1>5. Held(p)'
  BY <1>2, <1>3 DEF Held, Writing, Staging, IsReadable, IsStore
<1>6. p \in Resets => ResetInv(p)'
  BY <1>2, <1>3, <1>4 DEF ResetInv, Rebuilding, Writing, Staging
<1> QED
  BY <1>5, <1>6

LEMMA OpenKeeps ==
  ASSUME SerialInv, NEW p \in Procs, NEW from, NEW to, NEW mine \in Files,
         (from = "open" /\ to = "write") \/ (from = "pin_open" /\ to = "pin_write"),
         OpenTmp(p, from, to, mine)
  PROVE  Held(p)' /\ (p \in Resets => ResetInv(p)')
PROOF
<1>1. /\ Held(p) /\ (p \in Resets => ResetInv(p)) /\ StoreTypeOK /\ pc[p] = from /\ live # NoTree
      /\ live \in Trees
  BY DEF SerialInv, StoreInv, OpenTmp, Goes, Held, Writing, StoreTypeOK
<1>2. /\ UNCHANGED <<live, meta, want, text, cut, pinned>> /\ pc'[p] = to
      /\ tmp'[live] = fd'[p]
  BY <1>1 DEF OpenTmp, Goes, StoreTypeOK
<1>3. Held(p)'
  BY <1>1, <1>2 DEF Held, Writing, Staging
<1>4. p \in Resets => ResetInv(p)'
  BY <1>1, <1>2 DEF ResetInv, Rebuilding, Writing, Staging
<1> QED
  BY <1>3, <1>4

LEMMA WriteKeeps ==
  ASSUME SerialInv, NEW p \in Procs, NEW from, NEW to,
         (from = "write" /\ to = "replace") \/ (from = "pin_write" /\ to = "pin_replace"),
         WriteTmp(p, from, to)
  PROVE  Held(p)' /\ (p \in Resets => ResetInv(p)')
PROOF
<1>1. Held(p) /\ (p \in Resets => ResetInv(p)) /\ StoreTypeOK /\ pc[p] = from
  BY DEF SerialInv, StoreInv, WriteTmp, Goes
<1>2. UNCHANGED <<live, meta, tmp, want, text, fd, cut, pinned>> /\ pc'[p] = to
  BY <1>1 DEF WriteTmp, Goes, StoreTypeOK
<1>3. Held(p)'
  BY <1>1, <1>2 DEF Held, Writing, Staging
<1>4. p \in Resets => ResetInv(p)'
  BY <1>1, <1>2 DEF ResetInv, Rebuilding, Writing, Staging
<1> QED
  BY <1>3, <1>4

\* The replace names the file just written, and that is what is read then.
LEMMA ReplaceNames ==
  ASSUME SerialInv, NEW p \in Procs, NEW from \in {"replace", "pin_replace"}, NEW to, Replace(p, from, to)
  PROVE  /\ pc[p] = from /\ pc'[p] = to /\ live \in Trees /\ meta'[live] = fd[p] /\ fd[p] \in Files
         /\ OnDisk' = text[p] /\ IsReadable'
         /\ UNCHANGED <<live, want, text, fd, cut, pinned>>
PROOF
<1>1. StoreTypeOK /\ pc[p] = from /\ text[p] \in Metadata /\ Held(p) /\ Staged(p) /\ from \in Staging
  BY DEF SerialInv, StoreInv, Solo, TextInv, Writing, Staging, Replace, Goes
<1>2. live \in Trees /\ tmp[live] = fd[p] /\ fd[p] \in Files /\ file[fd[p]] = text[p] /\ fd[p] # NoFile
  BY <1>1 DEF Held, Staged, Writing, Staging, StoreTypeOK
<1>3. /\ pc'[p] = to /\ meta'[live] = fd[p]
      /\ UNCHANGED <<live, file, want, text, fd, cut, pinned>>
  BY <1>1, <1>2, ConstantFacts DEF Replace, Goes, StoreTypeOK
<1>4. OnDisk' = text[p]
  BY <1>2, <1>3 DEF OnDisk
<1>5. IsReadable'
  BY <1>1, <1>2, <1>3, <1>4, TornFacts, ConstantFacts DEF IsReadable, IsStore
<1> QED
  BY <1>1, <1>2, <1>3, <1>4, <1>5

LEMMA ReplaceKeeps ==
  ASSUME SerialInv, NEW p \in Procs, NEW from, NEW to,
         \/ from = "replace" /\ to = Created(p)
         \/ from = "pin_replace" /\ to = IF p \in Runners THEN "check" ELSE "done",
         Replace(p, from, to)
  PROVE  Held(p)' /\ (p \in Resets => ResetInv(p)')
PROOF
<1>1. Held(p) /\ (p \in Resets => ResetInv(p)) /\ StoreTypeOK /\ Roles
  BY DEF SerialInv, StoreInv
<1>2. /\ pc[p] = from /\ pc'[p] = to /\ IsReadable' /\ OnDisk' = text[p]
      /\ UNCHANGED <<live, want, text, fd, cut, pinned>>
  BY ReplaceNames
<1>3. Held(p)'
  BY <1>2 DEF Held, Writing, Staging, Created, IsReadable
<1>4. ASSUME p \in Resets PROVE ResetInv(p)'
  <2>1. p \notin Inits /\ p \notin Runners
    BY <1>4, ConstantFacts
  <2>2. from = "replace" => to = "pin_read"
    BY <1>1, <1>2, <2>1 DEF Roles, Created
  <2> QED
    BY <1>1, <1>2, <1>4, <2>1, <2>2 DEF ResetInv, Rebuilding, Writing, Staging
<1> QED
  BY <1>3, <1>4

LEMMA SerialStep ==
  ASSUME SerialInv, NEW p \in Procs, Step(p) \/ Crash(p)
  PROVE  SerialInv'
PROOF
<1>1. StoreInv' /\ ~crossed'
  BY StoreInvStep, NeverCrosses DEF SerialInv, Next
<1>2. Call(p) \in Files /\ <<p, "pin">> \in Files
  BY CallFacts, ConstantFacts
<1>3. CASE ~Create(p) /\ ~Pin(p)
  BY <1>1, <1>3, QuietSteps, OnlyTheRunner
<1>4. CASE Create(p)
  <2>1. Held(p)' /\ (p \in Resets => ResetInv(p)')
    BY <1>2, <1>4, OpenKeeps, WriteKeeps, ReplaceKeeps DEF Create
  <2> QED
    BY <1>1, <2>1, OnlyTheRunner
<1>5. CASE Pin(p)
  <2> DEFINE Kept == Held(p)' /\ (p \in Resets => ResetInv(p)')
  <2>1. ASSUME PinRead(p) PROVE Kept
    BY <2>1, PinReadKeeps
  <2>2. ASSUME OpenTmp(p, "pin_open", "pin_write", <<p, "pin">>) PROVE Kept
    BY <1>2, <2>2, OpenKeeps
  <2>3. ASSUME WriteTmp(p, "pin_write", "pin_replace") PROVE Kept
    BY <2>3, WriteKeeps
  <2>4. ASSUME Replace(p, "pin_replace", IF p \in Runners THEN "check" ELSE "done") PROVE Kept
    <3> DEFINE to == IF p \in Runners THEN "check" ELSE "done"
    <3>1. Replace(p, "pin_replace", to) /\ to = IF p \in Runners THEN "check" ELSE "done"
      BY <2>4
    <3> HIDE DEF to
    <3> QED
      BY <3>1, ReplaceKeeps
  <2>5. Kept
    BY <1>5, <2>1, <2>2, <2>3, <2>4 DEF Pin
  <2> QED
    BY <1>1, <2>5, OnlyTheRunner
<1> QED
  BY <1>3, <1>4, <1>5

LEMMA SerialBegin ==
  ASSUME SerialInv, ~Overlap, NEW p \in Procs, Begins(p)
  PROVE  SerialInv'
PROOF
<1>1. StoreInv'
  BY StoreInvStep DEF SerialInv, Next, Begins, Procs
<1>2. /\ pc[p] = "idle" /\ UNCHANGED <<live, staged, meta, tmp, file, text, fd, cut, pinned, crossed>>
      /\ Others(p) /\ pc'[p] \in (IF p \in Inits THEN {"peek", "sweep"} ELSE {"locate"})
  BY BeginMoves DEF SerialInv, StoreInv
<1>3. \A q \in Procs : ~InFlight(q)
  BY DEF Begins, BeginInit, BeginOther, Begin
<1>4. Alone'
  BY <1>2, <1>3 DEF Alone, InFlight, Others
<1>5. ASSUME NEW q \in Procs PROVE Held(q)'
  <2>1. CASE q = p
    BY <1>2, <2>1 DEF Held, Writing, Staging
  <2>2. CASE q # p
    BY <1>2, <1>3, <2>2 DEF Held, Others, InFlight, Steps, Writing, Staging
  <2> QED
    BY <2>1, <2>2
<1>6. ASSUME NEW q \in Resets PROVE ResetInv(q)'
  <2>1. q \in Procs /\ ResetInv(q)
    BY DEF SerialInv, Procs
  <2>2. CASE q = p
    BY <1>2, <2>1, <2>2, ConstantFacts DEF ResetInv, Rebuilding, Writing, Staging
  <2>3. CASE q # p
    BY <1>2, <1>3, <2>1, <2>3 DEF ResetInv, Others, InFlight, Steps, Rebuilding, Writing, Staging
  <2> QED
    BY <2>2, <2>3
<1> QED
  BY <1>1, <1>2, <1>4, <1>5, <1>6 DEF SerialInv

LEMMA SerialInvInit == Init => SerialInv
PROOF
<1> SUFFICES ASSUME Init PROVE SerialInv
  OBVIOUS
<1>1. StoreInv
  BY StoreInvInit
<1>2. ~crossed /\ \A p \in Procs : pc[p] = "idle" /\ cut[p] = NoTree
  BY DEF Init
<1>3. Alone /\ \A p \in Procs : Held(p)
  BY <1>2 DEF Alone, InFlight, Steps, Held, Writing, Staging
<1>4. \A p \in Resets : ResetInv(p)
  BY <1>2 DEF ResetInv, Rebuilding, Writing, Staging, Procs
<1> QED
  BY <1>1, <1>2, <1>3, <1>4 DEF SerialInv

LEMMA SerialInvNext == ~Overlap /\ SerialInv /\ [Next]_vars => SerialInv'
PROOF
<1> SUFFICES ASSUME ~Overlap, SerialInv, [Next]_vars PROVE SerialInv'
  OBVIOUS
<1>1. CASE UNCHANGED vars
  <2>1. StoreInv'
    BY <1>1, StoreInvStep DEF SerialInv
  <2>2. Alone' /\ ~crossed'
    BY <1>1 DEF SerialInv, vars, Alone, InFlight
  <2>3. \A p \in Procs : Held(p)'
    BY <1>1 DEF SerialInv, vars, Held, IsStore
  <2>4. \A p \in Resets : ResetInv(p)'
    BY <1>1 DEF SerialInv, vars, ResetInv, OnDisk
  <2> QED
    BY <2>1, <2>2, <2>3, <2>4 DEF SerialInv
<1>2. CASE Next
  BY <1>2, SerialStep, SerialBegin DEF Next, Procs, Begins
<1> QED
  BY <1>1, <1>2

\* Verbs one after the other never leave a torn store.json, wherever they
\* crash (_atomic_write_json).
THEOREM MetaNeverTornHolds ==
  ASSUME ~Overlap
  PROVE  Spec => []MetaNeverTorn
PROOF
<1>1. SerialInv => MetaNeverTorn
  BY WholeStore DEF SerialInv, MetaNeverTorn
<1>2. SerialInv /\ [Next]_vars => SerialInv'
  BY SerialInvNext
<1> QED
  BY <1>1, <1>2, SerialInvInit, PTL DEF Spec

\* The last step of a reset: it re-pins, unless the pin is refused.
LEMMA ResetEnds ==
  ASSUME SerialInv, Next, NEW p \in Resets, InFlight(p), cut[p] # NoTree \/ pc'[p] = "done",
         pc'[p] \in Ended \ {"crashed"}
  PROVE  PinRead(p) \/ Replace(p, "pin_replace", "done")
PROOF
<1> USE DEF Goes
<1>1. p \in Procs /\ StoreTypeOK /\ ResetInv(p) /\ Roles /\ Held(p) /\ p \notin Inits /\ p \notin Runners
  BY ConstantFacts DEF Procs, SerialInv, StoreInv
<1>2. Step(p)
  <2>1. ASSUME NEW q \in Procs, Step(q) \/ Crash(q) PROVE q = p /\ ~Crash(q)
    <3>1. InFlight(q)
      BY <1>1, <2>1, StepMoves
    <3>2. q = p
      BY <1>1, <3>1 DEF SerialInv, Alone
    <3> QED
      BY <1>1, <3>2 DEF Crash, StoreTypeOK
  <2>2. ASSUME NEW q \in Procs, BeginInit(q) \/ BeginOther(q) PROVE FALSE
    BY <1>1, <2>2 DEF BeginInit, BeginOther, Begin, StoreTypeOK, InFlight, Steps, Ended, Staging
  <2> QED
    BY <2>1, <2>2 DEF Next, Procs
<1>3. ~Peek(p) /\ ~Choose(p) /\ ~ReadBack(p) /\ ~Check(p) /\ ~StoreRun(p)
  BY <1>1 DEF Peek, Choose, ReadBack, Check, StoreRun, ResetInv
<1>4. ~Locate(p) /\ ~Load(p) /\ ~WipeSweep(p) /\ ~WipeCheck(p) /\ ~WipeRead(p)
  BY <1>1 DEF Locate, Load, WipeSweep, WipeCheck, WipeRead, ResetInv, StoreTypeOK, Ended
<1>5. ~Detach(p) /\ ~Rmtree(p) /\ ~Sweep(p) /\ ~Exists(p) /\ ~MakeSkeleton(p)
  BY <1>1 DEF Detach, Rmtree, Sweep, Exists, MakeSkeleton, ResetInv, Held, StoreTypeOK, Ended
<1>6. ASSUME NEW from, NEW to, NEW mine, WriteTmp(p, from, to), to \in Staging PROVE FALSE
  BY <1>1, <1>6 DEF WriteTmp, StoreTypeOK, Staging, Ended
<1>7. ASSUME NEW from \in {"open", "pin_open"}, NEW to \in Staging, NEW mine, OpenTmp(p, from, to, mine) PROVE FALSE
  BY <1>1, <1>7 DEF OpenTmp, StoreTypeOK, Staging, Ended, Held, Writing
<1>8. ~Replace(p, "replace", Created(p))
  <2> SUFFICES ASSUME Replace(p, "replace", Created(p)) PROVE FALSE
    OBVIOUS
  <2>1. pc'[p] = Created(p)
    BY <1>1, ReplaceNames
  <2> QED
    BY <2>1 DEF Created, Ended
<1>9. ~Create(p)
  BY <1>6, <1>7, <1>8 DEF Create, Staging
<1>10. Pin(p)
  BY <1>2, <1>3, <1>4, <1>5, <1>9 DEF Step, Wipe
<1> QED
  BY <1>1, <1>6, <1>7, <1>10 DEF Pin, Staging

\* A reset alone that took the store away re-creates it, readable, unless it
\* crashes, whatever pins a store may have; it fails only on a pin that may not
\* be pinned, which is lost then (wipe_project_store, reset_project_store).
THEOREM ResetRebuildsHolds ==
  ASSUME ~Overlap
  PROVE  Spec => ResetRebuilds
PROOF
<1> DEFINE Rebuilds == \A p \in Resets :
             InFlight(p) /\ cut[p] # NoTree /\ pc'[p] \in Ended \ {"crashed"} =>
               /\ IsReadable'
               /\ \/ pc'[p] = "done"
                  \/ pc'[p] = "failed" /\ pinned[p] \notin Supported \cup {NoPin} /\ OnDisk'.pin = NoPin
<1>1. ASSUME SerialInv, [Next]_vars PROVE [Rebuilds]_vars
  <2> SUFFICES ASSUME Next, NEW p \in Resets, InFlight(p), cut[p] # NoTree, pc'[p] \in Ended \ {"crashed"}
               PROVE  /\ IsReadable'
                      /\ \/ pc'[p] = "done"
                         \/ pc'[p] = "failed" /\ pinned[p] \notin Supported \cup {NoPin} /\ OnDisk'.pin = NoPin
    BY <1>1
  <2>1. p \in Procs /\ StoreTypeOK /\ ResetInv(p) /\ Held(p) /\ (IsStore <=> IsReadable)
    BY <1>1, WholeStore DEF Procs, SerialInv, StoreInv
  <2>2. CASE PinRead(p)
    <3>1. pc[p] = "pin_read" /\ IsReadable /\ OnDisk.pin = NoPin
      BY <2>1, <2>2 DEF PinRead, Goes, Held, ResetInv
    <3>2. UNCHANGED <<live, meta, file>> /\ pc'[p] = "failed" /\ want[p] \notin Supported
      BY <2>1, <2>2, <3>1 DEF PinRead, Goes, diskVars, StoreTypeOK, Ended
    <3>3. IsReadable' /\ OnDisk'.pin = NoPin
      BY <3>1, <3>2 DEF IsReadable, IsStore, OnDisk
    <3>4. pinned[p] \notin Supported \cup {NoPin}
      BY <2>1, <3>1, <3>2, StoreConstants DEF ResetInv, Rebuilding
    <3> QED
      BY <3>2, <3>3, <3>4
  <2>3. CASE Replace(p, "pin_replace", "done")
    BY <1>1, <2>1, <2>3, ReplaceNames
  <2> QED
    BY <1>1, <2>2, <2>3, ResetEnds
<1>2. SerialInv /\ [Next]_vars => SerialInv'
  BY SerialInvNext
<1> QED
  BY <1>1, <1>2, SerialInvInit, PTL DEF Spec, ResetRebuilds

\* The store a reset re-created carries the pin of the old one, or the choice
\* of the workspace when that had none (run_reset).
THEOREM PinSurvivesResetHolds ==
  ASSUME ~Overlap
  PROVE  Spec => PinSurvivesReset
PROOF
<1> DEFINE Survives == \A p \in Resets : Succeeds(p) =>
             OnDisk'.pin = IF pinned[p] # NoPin THEN pinned[p] ELSE Choice
<1>1. ASSUME SerialInv, [Next]_vars PROVE [Survives]_vars
  <2> SUFFICES ASSUME Next, NEW p \in Resets, InFlight(p), pc'[p] = "done"
               PROVE  OnDisk'.pin = IF pinned[p] # NoPin THEN pinned[p] ELSE Choice
    BY <1>1 DEF Succeeds
  <2>1. p \in Procs /\ StoreTypeOK /\ ResetInv(p)
    BY <1>1 DEF Procs, SerialInv, StoreInv
  <2>2. ~PinRead(p)
    BY <2>1 DEF PinRead, Goes, StoreTypeOK
  <2>3. Replace(p, "pin_replace", "done")
    BY <1>1, <2>2, ResetEnds DEF Ended
  <2>4. pc[p] = "pin_replace" /\ OnDisk' = text[p]
    BY <1>1, <2>1, <2>3, ReplaceNames
  <2>5. text[p].pin = want[p] /\ want[p] = IF pinned[p] # NoPin THEN pinned[p] ELSE Choice
    BY <2>1, <2>4 DEF ResetInv, Rebuilding, Writing, Staging
  <2> QED
    BY <2>4, <2>5
<1>2. SerialInv /\ [Next]_vars => SerialInv'
  BY SerialInvNext
<1> QED
  BY <1>1, <1>2, SerialInvInit, PTL DEF Spec, PinSurvivesReset
=============================================================================
