-------------------------- MODULE RunEvidenceProofs --------------------------
(***************************************************************************)
(* Proofs about RunEvidence, for any number of runs, deletes and readers,  *)
(* and about RunHistory's walks over it.                                   *)
(***************************************************************************)
EXTENDS RunHistory, TLAPS

(***************************************************************************)
(* Typing                                                                  *)
(***************************************************************************)

\* What a record leads to is one of the steps that follow a read.
LEMMA AfterReadStep ==
  ASSUME NEW c \in Clients, NEW r, NEW where, NEW next,
         next \in {"stat_live", "open_tmp", "ok"}
  PROVE  AfterRead(r, where, next) \in {"oserror", "corrupt", "stat_live", "open_tmp", "ok"}
BY DEF AfterRead

LEMMA AfterParseStep ==
  ASSUME NEW c \in Clients
  PROVE  AfterParse(c) \in {"stat_live", "open_tmp", "ok"}
BY DEF AfterParse

\* The record a process sees at a place is a written file or an empty one.
LEMMA RecordIsAFile ==
  ASSUME TypeOK, NEW r \in Runs, NEW where, HasRecord(r, where)
  PROVE  file[record[r]] \in Contents
BY DEF TypeOK, HasRecord

\* Every step of every process keeps every variable in its range, whatever
\* files, stamps and places the processes meet.
THEOREM TypeOKHolds == Spec => []TypeOK
<1>1. Init => TypeOK
  BY ConstantsAssumption
  DEF Init, TypeOK, Stores, Places, Instants, Contents, Inodes, Clients, RecSteps,
      Empty, LegacyBody, Busy, Ended
<1>2. TypeOK /\ [Next]_vars => TypeOK'
  <2> SUFFICES ASSUME TypeOK, [Next]_vars PROVE TypeOK'
    OBVIOUS
  <2> USE DEF TypeOK
  <2>1. ASSUME NEW r \in Runs, Recorder(r) PROVE TypeOK'
    <3>1. CASE Execute(r)
      BY <3>1 DEF Execute, RecMoves, RecSteps, diskVars, clientVars
    <3>2. CASE PrepareArtifacts(r)
      BY <3>2 DEF PrepareArtifacts, RecMoves, RecSteps, WithParents, Stores, clientVars
    <3>3. CASE CheckStore(r)
      BY <3>3 DEF CheckStore, RecMoves, RecSteps, diskVars, clientVars
    <3>4. CASE MakeRunDir(r)
      BY <3>4 DEF MakeRunDir, RecMoves, RecSteps, WithParents, Stores, Places, clientVars
    <3>5. CASE OpenRecord(r)
      BY <3>5 DEF OpenRecord, RecMoves, RecSteps, Inodes, Empty, Contents, Instants,
                  clientVars
    <3>6. CASE WriteRecord(r)
      BY <3>6 DEF WriteRecord, RecMoves, RecSteps, Inodes, NewBody, Contents, Instants,
                  clientVars
    <3> QED BY <2>1, <3>1, <3>2, <3>3, <3>4, <3>5, <3>6 DEF Recorder
  <2>2. ASSUME NEW r \in Runs, CrashRecorder(r) PROVE TypeOK'
    BY <2>2 DEF CrashRecorder, RecSteps, diskVars, clientVars
  <2>3. ASSUME NEW c \in Clients, Begin(c) PROVE TypeOK'
    <3>1. Evident(target[c]) \in BOOLEAN
      BY DEF Evident, HasRecord
    <3> QED BY <2>3, <3>1 DEF Begin, Goes, Busy, diskVars
  <2>4. ASSUME NEW c \in Clients, Resolve(c) PROVE TypeOK'
    <3>1. CASE ProbeLive(c)
      BY <3>1 DEF ProbeLive, Goes, Busy, diskVars
    <3>2. CASE ReadLive(c)
      <4>1. pc' \in [Clients -> {"idle"} \cup Busy \cup Ended]
        BY <3>2, AfterReadStep, AfterParseStep DEF ReadLive, Goes, Busy, Ended
      <4>2. stamp' \in [Clients -> Instants]
        BY <3>2, RecordIsAFile DEF ReadLive, Contents
      <4> QED BY <3>2, <4>1, <4>2 DEF ReadLive, diskVars
    <3>3. CASE StatLive(c)
      <4>1. stamp' \in [Clients -> Instants]
        BY <3>3, RecordIsAFile DEF StatLive, Contents, Instants
      <4> QED BY <3>3, <4>1 DEF StatLive, Goes, Busy, Ended, diskVars
    <3>4. CASE ProbeTomb(c)
      BY <3>4 DEF ProbeTomb, Goes, Busy, Ended, diskVars
    <3>5. CASE ReadTomb(c)
      <4>1. pc' \in [Clients -> {"idle"} \cup Busy \cup Ended]
        BY <3>5, AfterReadStep DEF ReadTomb, Goes, Busy, Ended
      <4>2. stamp' \in [Clients -> Instants]
        BY <3>5, RecordIsAFile DEF ReadTomb, StoredAtOf, Contents, Instants
      <4> QED BY <3>5, <4>1, <4>2 DEF ReadTomb, diskVars
    <3> QED BY <2>4, <3>1, <3>2, <3>3, <3>4, <3>5 DEF Resolve
  <2>5. ASSUME NEW c \in Clients, CrashClient(c) PROVE TypeOK'
    BY <2>5 DEF CrashClient, Ended, diskVars
  <2>6. ASSUME NEW d \in Deleters, Delete(d) PROVE TypeOK'
    <3>0. d \in Clients /\ d \in Inodes
      BY DEF Clients, Inodes
    <3>1. CASE OpenTmp(d)
      <4>1. Empty \in Contents
        BY DEF Empty, Contents, Instants
      <4>2. target[d] \in Runs
        BY <3>0
      <4>3. pc' \in [Clients -> {"idle"} \cup Busy \cup Ended]
        BY <3>0, <3>1 DEF OpenTmp, Goes, Busy, Ended
      <4>4. /\ staged' \in [Runs -> Inodes \cup {NoFile}]
            /\ file' \in [Inodes -> Contents]
            /\ fd' \in [Clients -> Inodes \cup {NoFile}]
        BY <3>0, <3>1, <4>1, <4>2 DEF OpenTmp
      <4> QED BY <3>1, <4>3, <4>4 DEF OpenTmp
    <3>2. CASE WriteTmp(d)
      BY <3>0, <3>2 DEF WriteTmp, Goes, Busy, Contents
    <3>3. CASE Replace(d)
      BY <3>0, <3>3 DEF Replace, Goes, Busy, Ended
    <3>4. CASE MakeTombstoneRoot(d)
      BY <3>0, <3>4 DEF MakeTombstoneRoot, Goes, Busy, WithParents, Stores
    <3>5. CASE RenameToTombstone(d)
      BY <3>0, <3>5 DEF RenameToTombstone, Goes, Ended, Places
    <3> QED BY <2>6, <3>1, <3>2, <3>3, <3>4, <3>5 DEF Delete
  <2>7. CASE Detach
    BY <2>7 DEF Detach, Stores, Places, clientVars
  <2>8. CASE Reinit
    BY <2>8 DEF Reinit, Stores, clientVars
  <2>9. CASE UNCHANGED vars
    BY <2>9 DEF vars
  <2> QED BY <2>1, <2>2, <2>3, <2>4, <2>5, <2>6, <2>7, <2>8, <2>9 DEF Next
<1> QED BY <1>1, <1>2, PTL DEF Spec

(***************************************************************************)
(* Directories only move forward                                           *)
(***************************************************************************)

\* A recorder past its already-exists check has no directory yet: nobody but
\* the recorder makes it.
CheckedHasNoDir == \A r \in Runs : rec[r] = "checked" => place[r] = "none"

\* What one step may do to a run's directory and to its record.
Moves(r) ==
  /\ \/ place'[r] = place[r]
     \/ place[r] = "none" /\ place'[r] = "live" /\ rec[r] = "checked"
     \/ place[r] = "live" /\ place'[r] \in {"tomb", "wiped"}
     \/ place[r] = "tomb" /\ place'[r] = "wiped"
  /\ record[r] # NoFile => record'[r] # NoFile

LEMMA CheckedHasNoDirHolds == Spec => []CheckedHasNoDir
<1>1. Init => CheckedHasNoDir
  BY DEF Init, CheckedHasNoDir
<1>2. TypeOK /\ CheckedHasNoDir /\ [Next]_vars => CheckedHasNoDir'
  <2> SUFFICES ASSUME TypeOK, CheckedHasNoDir, [Next]_vars PROVE CheckedHasNoDir'
    OBVIOUS
  <2> USE DEF TypeOK, CheckedHasNoDir
  <2>1. ASSUME NEW r \in Runs, Recorder(r) PROVE CheckedHasNoDir'
    BY <2>1 DEF Recorder, Execute, PrepareArtifacts, CheckStore, MakeRunDir, OpenRecord,
                WriteRecord, RecMoves, diskVars
  <2>2. ASSUME NEW r \in Runs, CrashRecorder(r) PROVE CheckedHasNoDir'
    BY <2>2 DEF CrashRecorder, diskVars
  <2>3. ASSUME NEW c \in Clients, Begin(c) \/ Resolve(c) \/ CrashClient(c)
        PROVE CheckedHasNoDir'
    BY <2>3 DEF Begin, Resolve, CrashClient, ProbeLive, ReadLive, StatLive, ProbeTomb,
                ReadTomb, diskVars
  <2>4. ASSUME NEW d \in Deleters, Delete(d) PROVE CheckedHasNoDir'
    <3> d \in Clients
      BY DEF Clients
    <3> QED BY <2>4 DEF Delete, OpenTmp, WriteTmp, Replace, MakeTombstoneRoot, RenameToTombstone
  <2>5. CASE Detach
    BY <2>5 DEF Detach
  <2>6. CASE Reinit
    BY <2>6 DEF Reinit
  <2>7. CASE UNCHANGED vars
    BY <2>7 DEF vars
  <2> QED BY <2>1, <2>2, <2>3, <2>4, <2>5, <2>6, <2>7 DEF Next
<1> QED BY <1>1, <1>2, TypeOKHolds, PTL DEF Spec

\* Every step moves every directory forward (none, live, tombstone, wiped), or
\* not at all, and no record.json that is there is ever removed from it.
LEMMA StepMoves ==
  ASSUME TypeOK, CheckedHasNoDir, [Next]_vars, NEW q \in Runs
  PROVE  Moves(q)
<1> USE DEF TypeOK, CheckedHasNoDir, Moves
<1>1. ASSUME NEW r \in Runs, Recorder(r) PROVE Moves(q)
  <2>1. r \in Inodes
    BY DEF Inodes
  <2> QED BY <1>1, <2>1, ConstantsAssumption
          DEF Recorder, Execute, PrepareArtifacts, CheckStore, MakeRunDir, OpenRecord,
              WriteRecord, RecMoves, diskVars
<1>2. ASSUME NEW r \in Runs, CrashRecorder(r) PROVE Moves(q)
  BY <1>2 DEF CrashRecorder, diskVars
<1>3. ASSUME NEW c \in Clients, Begin(c) \/ Resolve(c) \/ CrashClient(c) PROVE Moves(q)
  BY <1>3 DEF Begin, Resolve, CrashClient, ProbeLive, ReadLive, StatLive, ProbeTomb,
              ReadTomb, diskVars
<1>4. ASSUME NEW d \in Deleters, Delete(d) PROVE Moves(q)
  <2> d \in Clients
    BY DEF Clients
  <2> QED BY <1>4 DEF Delete, OpenTmp, WriteTmp, Replace, MakeTombstoneRoot, RenameToTombstone
<1>5. CASE Detach
  BY <1>5 DEF Detach, Places
<1>6. CASE Reinit
  BY <1>6 DEF Reinit
<1>7. CASE UNCHANGED vars
  BY <1>7 DEF vars
<1> QED BY <1>1, <1>2, <1>3, <1>4, <1>5, <1>6, <1>7 DEF Next

\* A process names the same run from its beginning to its end.
LEMMA TargetFixed ==
  ASSUME [Next]_vars
  PROVE  UNCHANGED target
BY DEF Next, vars, Recorder, Execute, PrepareArtifacts, CheckStore, MakeRunDir,
       OpenRecord, WriteRecord, CrashRecorder, clientVars, Begin, Resolve, ProbeLive,
       ReadLive, StatLive, ProbeTomb, ReadTomb, CrashClient, Delete, OpenTmp,
       WriteTmp, Replace, MakeTombstoneRoot, RenameToTombstone, Detach, Reinit

(***************************************************************************)
(* Deletes take effect, however they overlap                               *)
(***************************************************************************)

\* A run never leaves the places a successful delete left it in, and a delete
\* ends in "ok" only through a tombstone it saw or made.
THEOREM DeleteTakesEffectHolds == Spec => []DeleteTakesEffect
<1>1. Init => DeleteTakesEffect
  BY DEF Init, DeleteTakesEffect, Clients
<1>2. TypeOK /\ CheckedHasNoDir /\ DeleteTakesEffect /\ [Next]_vars => DeleteTakesEffect'
  <2> SUFFICES ASSUME TypeOK, CheckedHasNoDir, DeleteTakesEffect, [Next]_vars,
                      NEW d \in Deleters, pc'[d] = "ok"
               PROVE  place'[target'[d]] \in {"tomb", "wiped"}
    BY DEF DeleteTakesEffect
  <2>1. d \in Clients /\ target[d] \in Runs /\ target'[d] = target[d]
    BY TargetFixed DEF TypeOK, Clients
  <2>2. CASE pc[d] = "ok"
    BY <2>1, <2>2, StepMoves DEF DeleteTakesEffect, Moves
  <2>3. CASE pc[d] # "ok"
    <3> USE <2>1, <2>3 DEF TypeOK
    <3>1. ASSUME NEW r \in Runs, Recorder(r) \/ CrashRecorder(r) PROVE FALSE
      BY <3>1 DEF Recorder, Execute, PrepareArtifacts, CheckStore, MakeRunDir, OpenRecord,
                  WriteRecord, CrashRecorder, clientVars
    <3>2. ASSUME NEW c \in Clients, Begin(c) \/ Resolve(c) \/ CrashClient(c)
          PROVE  place'[target'[d]] \in {"tomb", "wiped"}
      <4>1. CASE ReadTomb(c)
        BY <4>1 DEF ReadTomb, Goes, AfterRead, HasRecord, diskVars
      <4>2. CASE ReadLive(c)
        BY <4>2, ConstantsAssumption DEF ReadLive, Goes, AfterRead, AfterParse
      <4>3. CASE StatLive(c)
        BY <4>3 DEF StatLive, Goes
      <4> QED BY <3>2, <4>1, <4>2, <4>3
              DEF Begin, Resolve, CrashClient, ProbeLive, ProbeTomb, Goes
    <3>3. ASSUME NEW e \in Deleters, Delete(e)
          PROVE  place'[target'[d]] \in {"tomb", "wiped"}
      BY <3>3 DEF Delete, OpenTmp, WriteTmp, Replace, MakeTombstoneRoot,
                  RenameToTombstone, Goes, Clients
    <3>4. ~ (Detach \/ Reinit \/ UNCHANGED vars)
      BY DEF Detach, Reinit, vars, clientVars
    <3> QED BY <3>1, <3>2, <3>3, <3>4 DEF Next
  <2> QED BY <2>2, <2>3
<1> QED BY <1>1, <1>2, TypeOKHolds, CheckedHasNoDirHolds, PTL DEF Spec

(***************************************************************************)
(* Lookups do not fall between the two trees                               *)
(***************************************************************************)

\* What a lookup relies on: a tombstone holds a record (its delete saw one),
\* evidence seen once has a directory and a record ever after, and a lookup
\* that left the live tree behind did so because the run had moved on.
LookupInv ==
  /\ \A r \in Runs : place[r] = "tomb" => record[r] # NoFile
  /\ \A d \in Deleters : pc[d] \in {"make_root", "rename"} => record[target[d]] # NoFile
  /\ \A c \in Clients : found[c] =>
       /\ record[target[c]] # NoFile
       /\ place[target[c]] # "none"
       /\ pc[c] = "probe_tomb" => place[target[c]] \in {"tomb", "wiped"}
       /\ pc[c] = "notfound" => place[target[c]] = "wiped"

LEMMA LookupInvHolds == Spec => []LookupInv
<1>1. Init => LookupInv
  BY ConstantsAssumption DEF Init, LookupInv, Clients, Inodes
<1>2. TypeOK /\ CheckedHasNoDir /\ LookupInv /\ [Next]_vars => LookupInv'
  <2> SUFFICES ASSUME TypeOK, CheckedHasNoDir, LookupInv, [Next]_vars PROVE LookupInv'
    OBVIOUS
  <2>1. \A r \in Runs : Moves(r)
    BY StepMoves
  <2>2. UNCHANGED target
    BY TargetFixed
  <2>3. ASSUME NEW r \in Runs, place'[r] = "tomb" PROVE record'[r] # NoFile
    <3>1. CASE place[r] = "tomb"
      BY <2>1, <3>1 DEF LookupInv, Moves
    <3>2. CASE place[r] # "tomb"
      <4>1. PICK d \in Deleters : RenameToTombstone(d) /\ target[d] = r
        <5>1. ASSUME NEW q \in Runs, Recorder(q) \/ CrashRecorder(q) PROVE FALSE
          BY <2>3, <3>2, <5>1
          DEF TypeOK, Recorder, Execute, PrepareArtifacts, CheckStore, MakeRunDir,
              OpenRecord, WriteRecord, CrashRecorder, diskVars
        <5>2. ASSUME NEW c \in Clients, Begin(c) \/ Resolve(c) \/ CrashClient(c) PROVE FALSE
          BY <2>3, <3>2, <5>2
          DEF Begin, Resolve, CrashClient, ProbeLive, ReadLive, StatLive, ProbeTomb,
              ReadTomb, diskVars
        <5>3. ~Detach
          BY <2>3, <3>2 DEF Detach
        <5>4. ~(Reinit \/ UNCHANGED vars)
          BY <2>3, <3>2 DEF Reinit, vars
        <5>5. PICK d \in Deleters : Delete(d)
          BY <5>1, <5>2, <5>3, <5>4 DEF Next
        <5> QED BY <2>3, <3>2, <5>5
                DEF TypeOK, Delete, OpenTmp, WriteTmp, Replace, MakeTombstoneRoot,
                    RenameToTombstone
      <4> QED BY <2>1, <4>1 DEF RenameToTombstone, Goes, LookupInv, Moves
    <3> QED BY <3>1, <3>2
  <2>4. ASSUME NEW d \in Deleters, pc'[d] \in {"make_root", "rename"}
        PROVE  record'[target[d]] # NoFile
    <3>0. d \in Clients /\ target[d] \in Runs
      BY DEF Clients, TypeOK
    <3>1. CASE pc[d] \in {"make_root", "rename"}
      BY <2>1, <3>0, <3>1 DEF LookupInv, Moves
    <3>2. CASE pc[d] \notin {"make_root", "rename"}
      <4> USE <2>4, <3>0, <3>2 DEF TypeOK
      <4>1. ASSUME NEW q \in Runs, Recorder(q) \/ CrashRecorder(q) PROVE FALSE
        BY <4>1 DEF Recorder, Execute, PrepareArtifacts, CheckStore, MakeRunDir,
                    OpenRecord, WriteRecord, CrashRecorder, clientVars
      <4>2. ASSUME NEW c \in Clients, Begin(c) \/ Resolve(c) \/ CrashClient(c) PROVE FALSE
        <5>1. ~ReadLive(c)
          BY AfterReadStep, AfterParseStep DEF ReadLive, Goes
        <5>2. ~ReadTomb(c)
          BY AfterReadStep DEF ReadTomb, Goes
        <5> QED BY <4>2, <5>1, <5>2
                DEF Begin, Resolve, CrashClient, ProbeLive, StatLive, ProbeTomb, Goes
      <4>3. ~(Detach \/ Reinit \/ UNCHANGED vars)
        BY DEF Detach, Reinit, vars, clientVars
      <4>4. PICK e \in Deleters : Delete(e)
        BY <4>1, <4>2, <4>3 DEF Next
      <4>5. e \in Clients
        BY DEF Clients
      <4>6. e = d
        BY <4>4, <4>5 DEF Delete, OpenTmp, WriteTmp, Replace, MakeTombstoneRoot,
                          RenameToTombstone, Goes
      <4> QED BY <4>4, <4>6 DEF Delete, OpenTmp, WriteTmp, Replace, MakeTombstoneRoot,
                                RenameToTombstone, Goes
    <3> QED BY <3>1, <3>2
  <2>5. ASSUME NEW c \in Clients, found'[c]
        PROVE  /\ record'[target[c]] # NoFile
               /\ place'[target[c]] # "none"
               /\ pc'[c] = "probe_tomb" => place'[target[c]] \in {"tomb", "wiped"}
               /\ pc'[c] = "notfound" => place'[target[c]] = "wiped"
    <3>0. target[c] \in Runs
      BY DEF TypeOK
    <3>1. CASE found[c] /\ pc'[c] = pc[c]
      BY <2>1, <3>0, <3>1 DEF LookupInv, Moves
    <3>2. CASE ~found[c]
      <4>1. Begin(c)
        BY <2>5, <3>2
        DEF TypeOK, Next, vars, Recorder, Execute, PrepareArtifacts, CheckStore, MakeRunDir,
            OpenRecord, WriteRecord, CrashRecorder, clientVars, Begin, Resolve, ProbeLive,
            ReadLive, StatLive, ProbeTomb, ReadTomb, CrashClient, Delete, OpenTmp,
            WriteTmp, Replace, MakeTombstoneRoot, RenameToTombstone, Detach, Reinit
      <4> QED BY <2>5, <4>1 DEF TypeOK, Begin, Goes, Evident, HasRecord, diskVars
    <3>3. CASE found[c] /\ pc'[c] # pc[c]
      <4> USE <2>5, <3>0, <3>3 DEF TypeOK
      <4>1. ASSUME NEW q \in Runs, Recorder(q) \/ CrashRecorder(q) PROVE FALSE
        BY <4>1 DEF Recorder, Execute, PrepareArtifacts, CheckStore, MakeRunDir,
                    OpenRecord, WriteRecord, CrashRecorder, clientVars
      <4>2. ~(Detach \/ Reinit \/ UNCHANGED vars)
        BY DEF Detach, Reinit, vars, clientVars
      <4>3. CASE \E d \in Deleters : Delete(d)
        <5>1. PICK d \in Deleters : Delete(d)
          BY <4>3
        <5>2. pc'[c] \notin {"probe_tomb", "notfound"}
          BY <5>1 DEF Clients, Delete, OpenTmp, WriteTmp, Replace, MakeTombstoneRoot,
                      RenameToTombstone, Goes
        <5> QED BY <2>1, <5>2 DEF LookupInv, Moves
      <4>4. CASE \E b \in Clients : Begin(b) \/ Resolve(b) \/ CrashClient(b)
        <5>1. PICK b \in Clients : Begin(b) \/ Resolve(b) \/ CrashClient(b)
          BY <4>4
        <5>2. b = c
          BY <5>1 DEF Begin, Resolve, CrashClient, ProbeLive, ReadLive, StatLive,
                      ProbeTomb, ReadTomb, Goes
        <5>3. CASE ProbeLive(c)
          BY <5>3 DEF ProbeLive, Goes, HasRecord, LookupInv, diskVars, Places
        <5>4. CASE ProbeTomb(c)
          BY <5>4 DEF ProbeTomb, Goes, HasRecord, LookupInv, diskVars, Places
        <5>5. CASE ReadLive(c) \/ ReadTomb(c) \/ StatLive(c)
          <6>1. pc'[c] \notin {"probe_tomb", "notfound"}
            BY <5>5, AfterReadStep, AfterParseStep DEF ReadLive, ReadTomb, StatLive, Goes
          <6> QED BY <2>1, <6>1 DEF LookupInv, Moves
        <5>6. CASE Begin(c) \/ CrashClient(c)
          <6>1. pc'[c] \notin {"probe_tomb", "notfound"}
            BY <5>6 DEF Begin, CrashClient, Goes
          <6> QED BY <2>1, <6>1 DEF LookupInv, Moves
        <5> QED BY <5>1, <5>2, <5>3, <5>4, <5>5, <5>6 DEF Resolve
      <4> QED BY <4>1, <4>2, <4>3, <4>4 DEF Next
    <3> QED BY <3>1, <3>2, <3>3
  <2> QED BY <2>2, <2>3, <2>4, <2>5 DEF LookupInv
<1> QED BY <1>1, <1>2, TypeOKHolds, CheckedHasNoDirHolds, PTL DEF Spec

\* Evidence that was there when a lookup began is reported missing only if a
\* reset carried it off, for any interleaving of deletes, crashes and resets.
THEOREM EvidenceIsFoundHolds == Spec => []EvidenceIsFound
<1>1. LookupInv => EvidenceIsFound
  BY DEF LookupInv, EvidenceIsFound
<1> QED BY <1>1, LookupInvHolds, PTL

(***************************************************************************)
(* MEM-01: only the check-to-mkdir window can orphan a run                 *)
(***************************************************************************)

\* Without a ready store, a recorder is past its check only if it was there
\* when the store was detached.
WindowInv ==
  store # "ready" => \A r \in Runs : rec[r] = "checked" \/ place[r] = "live" => r \in window

LEMMA WindowInvHolds == Spec => []WindowInv
<1>1. Init => WindowInv
  BY DEF Init, WindowInv
<1>2. TypeOK /\ WindowInv /\ [Next]_vars => WindowInv'
  <2> SUFFICES ASSUME TypeOK, WindowInv, [Next]_vars PROVE WindowInv'
    OBVIOUS
  <2> USE DEF TypeOK, WindowInv
  <2>1. ASSUME NEW r \in Runs, Recorder(r) PROVE WindowInv'
    BY <2>1 DEF Recorder, Execute, PrepareArtifacts, CheckStore, MakeRunDir, OpenRecord,
                WriteRecord, RecMoves, WithParents, diskVars
  <2>2. ASSUME NEW r \in Runs, CrashRecorder(r) PROVE WindowInv'
    BY <2>2 DEF CrashRecorder, diskVars
  <2>3. ASSUME NEW c \in Clients, Begin(c) \/ Resolve(c) \/ CrashClient(c)
        PROVE WindowInv'
    BY <2>3 DEF Begin, Resolve, CrashClient, ProbeLive, ReadLive, StatLive, ProbeTomb,
                ReadTomb, diskVars
  <2>4. ASSUME NEW d \in Deleters, Delete(d) PROVE WindowInv'
    BY <2>4 DEF Delete, OpenTmp, WriteTmp, Replace, MakeTombstoneRoot, RenameToTombstone,
                WithParents, Clients
  <2>5. CASE Detach
    BY <2>5 DEF Detach
  <2>6. CASE Reinit
    BY <2>6 DEF Reinit
  <2>7. CASE UNCHANGED vars
    BY <2>7 DEF vars
  <2> QED BY <2>1, <2>2, <2>3, <2>4, <2>5, <2>6, <2>7 DEF Next
<1> QED BY <1>1, <1>2, TypeOKHolds, PTL DEF Spec

\* A run left in a store that is no longer initialised was caught by the reset
\* between its check and its mkdir.
THEOREM OrphansWereInTheWindowHolds == Spec => []OrphansWereInTheWindow
<1>1. WindowInv => OrphansWereInTheWindow
  BY DEF WindowInv, OrphansWereInTheWindow
<1> QED BY <1>1, WindowInvHolds, PTL

(***************************************************************************)
(* Deletes that do not overlap: crash-safety of the delete protocol        *)
(*                                                                         *)
(* None of the four properties is inductive.  What makes them true is who  *)
(* may write which file: only the delete that holds the staging name       *)
(* writes it, and record.json never names the staged file before it holds  *)
(* the whole rewritten record.                                             *)
(***************************************************************************)

\* A written record that still says when the evidence was stored.
Whole(f) ==
  /\ f.body # "empty"
  /\ f.stored_at = "origin" \/ (f.stored_at = "none" /\ f.mtime = "origin")

\* Until a run's recorder is done its record is empty and nobody deletes it;
\* from then on record.json is a whole record, and in a tombstone the rewritten
\* one.
RecordInv(r) ==
  /\ rec[r] = "opened" => record[r] = r
  /\ rec[r] # "done" =>
       /\ record[r] \in {NoFile, r} /\ staged[r] = NoFile
       /\ file[r].body = "empty" /\ place[r] # "tomb"
       /\ \A d \in Deleters : target[d] = r => pc[d] = "idle"
  /\ rec[r] = "done" => record[r] # NoFile /\ Whole(file[record[r]])
  /\ place[r] = "tomb" => file[record[r]].body = "tombstoned"

\* Two names never share a file: record.json is the recorder's file or one a
\* delete of this run staged, and record.json.tmp is another delete's.
NamesInv(r) ==
  /\ record[r] \in {NoFile, r} \cup {d \in Deleters : target[d] = r}
  /\ staged[r] \in {NoFile} \cup {d \in Deleters : target[d] = r}
  /\ staged[r] # NoFile => staged[r] # record[r]

BeforeOpen == {"idle", "probe_live", "read_live", "stat_live", "probe_tomb", "read_tomb",
               "open_tmp"}
InLive     == {"read_live", "stat_live", "open_tmp", "write_tmp", "replace",
               "make_root", "rename"}

\* What a delete knows of its run at each of its steps.
DeleteInv(d) ==
  LET r == target[d]
  IN  /\ pc[d] \in BeforeOpen => staged[r] # d /\ record[r] # d
      /\ pc[d] \in InLive => place[r] \in {"live", "wiped"}
      /\ pc[d] = "probe_live" => place[r] # "none"
      /\ pc[d] \in {"probe_tomb", "read_tomb"} => place[r] \in {"tomb", "wiped"}
      /\ pc[d] \in {"notfound", "corrupt", "oserror"} => place[r] = "wiped"
      /\ pc[d] = "stat_live" => file[record[r]].stored_at = "none"
      /\ pc[d] \in {"open_tmp", "write_tmp"} => stamp[d] = "origin"
      /\ pc[d] \in {"write_tmp", "replace"} => fd[d] # NoFile /\ staged[r] = fd[d]
      /\ pc[d] = "replace" =>
           file[fd[d]].body = "tombstoned" /\ file[fd[d]].stored_at = "origin"
      /\ pc[d] \in {"make_root", "rename"} => file[record[r]].body = "tombstoned"

\* Deletes of one run do not overlap.
Solo ==
  \A d, e \in Deleters :
    target[d] = target[e] /\ pc[d] \in Busy /\ pc[e] \in Busy => d = e

SerialInv ==
  /\ \A r \in Runs : RecordInv(r) /\ NamesInv(r)
  /\ \A d \in Deleters : DeleteInv(d)
  /\ Solo

LEMMA SerialInvInit == Init => SerialInv
BY ConstantsAssumption
DEF Init, SerialInv, RecordInv, NamesInv, DeleteInv, Solo, Whole, BeforeOpen, InLive, Busy,
    Clients, Inodes, LegacyBody, Empty

LEMMA SerialInvRecorder ==
  ASSUME TypeOK, SerialInv, NEW r \in Runs, Recorder(r) \/ CrashRecorder(r)
  PROVE  SerialInv'
<1> USE DEF TypeOK, SerialInv
<1>0. /\ r \in Inodes
      /\ \A q \in Runs : q \in Inodes /\ q \notin Deleters /\ q # NoFile
      /\ \A d \in Deleters : d \in Clients /\ target[d] \in Runs /\ d \in Inodes
  BY ConstantsAssumption DEF Inodes, Clients
<1>1. UNCHANGED <<clientVars, staged>>
  BY DEF Recorder, Execute, PrepareArtifacts, CheckStore, MakeRunDir, OpenRecord,
         WriteRecord, CrashRecorder, diskVars
<1>2. /\ rec[r] # "done"
      /\ \A q \in Runs \ {r} :
           rec'[q] = rec[q] /\ record'[q] = record[q] /\ place'[q] = place[q]
      /\ \A f \in Inodes \ {r} : file'[f] = file[f]
  BY <1>0 DEF Recorder, Execute, PrepareArtifacts, CheckStore, MakeRunDir, OpenRecord,
              WriteRecord, CrashRecorder, RecMoves, diskVars
<1>3. ASSUME NEW q \in Runs PROVE RecordInv(q)' /\ NamesInv(q)'
  <2>1. CASE q # r
    <3>1. record[q] # r /\ (record[q] = NoFile \/ record[q] \in Inodes \ {r})
      BY <1>0, <2>1 DEF NamesInv
    <3>2. q \in Inodes \ {r}
      BY <1>0, <2>1
    <3> QED BY <1>0, <1>1, <1>2, <2>1, <3>1, <3>2
            DEF RecordInv, NamesInv, Whole, clientVars
  <2>2. CASE q = r
    <3>1. NamesInv(r)'
      BY <1>0, <1>1, <1>2 DEF NamesInv, RecordInv, Recorder, Execute, PrepareArtifacts,
        CheckStore, MakeRunDir, OpenRecord, WriteRecord, CrashRecorder, RecMoves, diskVars,
        clientVars
    <3>2. RecordInv(r)'
      <4> USE <1>0, <1>1, <1>2 DEF RecordInv, clientVars, RecMoves, diskVars
      <4>1. CASE Execute(r) \/ PrepareArtifacts(r) \/ CheckStore(r) \/ CrashRecorder(r)
        BY <4>1 DEF Execute, PrepareArtifacts, CheckStore, CrashRecorder
      <4>2. CASE MakeRunDir(r)
        BY <4>2 DEF MakeRunDir
      <4>3. CASE OpenRecord(r)
        BY <4>3 DEF OpenRecord, Empty
      <4>4. CASE WriteRecord(r)
        BY <4>4 DEF WriteRecord, NewBody, Whole
      <4> QED BY <4>1, <4>2, <4>3, <4>4 DEF Recorder
    <3> QED BY <2>2, <3>1, <3>2
  <2> QED BY <2>1, <2>2
<1>4. ASSUME NEW d \in Deleters PROVE DeleteInv(d)'
  <2>1. target[d] \in Runs /\ target'[d] = target[d]
    BY <1>0, <1>1 DEF clientVars
  <2>2. CASE target[d] = r
    <3>1. pc'[d] = "idle"
      BY <1>0, <1>1, <1>2, <2>2 DEF RecordInv, clientVars
    <3>2. d # NoFile /\ d # r
      BY <1>0, ConstantsAssumption
    <3>3. staged'[r] = NoFile
      BY <1>1, <1>2 DEF RecordInv
    <3>4. record'[r] \in {record[r], r}
      BY DEF Recorder, Execute, PrepareArtifacts, CheckStore, MakeRunDir, OpenRecord,
             WriteRecord, CrashRecorder, diskVars
    <3>5. record[r] \in {NoFile, r}
      BY <1>2 DEF RecordInv
    <3> QED BY <2>1, <2>2, <3>1, <3>2, <3>3, <3>4, <3>5 DEF DeleteInv, InLive, BeforeOpen
  <2>3. CASE target[d] # r
    <3>1. record[target[d]] # r
      BY <1>0, <2>1, <2>3 DEF NamesInv
    <3>2. pc[d] \in {"write_tmp", "replace"} => fd[d] \in Inodes \ {r}
      BY <1>0, <2>1 DEF DeleteInv, NamesInv
    <3>3. pc[d] \in {"stat_live", "make_root", "rename"} =>
            record[target[d]] \in Inodes \ {r}
      <4>1. pc[d] # "idle" => rec[target[d]] = "done"
        BY <2>1 DEF RecordInv
      <4> QED BY <1>0, <2>1, <3>1, <4>1 DEF RecordInv
    <3> QED BY <1>1, <1>2, <2>1, <2>3, <3>2, <3>3 DEF DeleteInv, clientVars
  <2> QED BY <2>2, <2>3
<1>5. Solo'
  BY <1>1 DEF Solo, clientVars
<1> QED BY <1>3, <1>4, <1>5

\* A lookup changes no file: it only has to be right about what it saw.
LEMMA SerialInvLookup ==
  ASSUME ~ConcurrentDeletes, TypeOK, SerialInv, NEW c \in Clients,
         Begin(c) \/ Resolve(c) \/ CrashClient(c)
  PROVE  SerialInv'
<1> USE DEF TypeOK, SerialInv
<1>0. /\ target[c] \in Runs
      /\ \A d \in Deleters : d \in Clients /\ target[d] \in Runs
  BY DEF Clients
<1>1. UNCHANGED <<diskVars, rec, target, fd>>
  BY DEF Begin, Resolve, CrashClient, ProbeLive, ReadLive, StatLive, ProbeTomb, ReadTomb
<1>2. \A b \in Clients \ {c} : pc'[b] = pc[b] /\ stamp'[b] = stamp[b]
  BY DEF Begin, Resolve, CrashClient, ProbeLive, ReadLive, StatLive, ProbeTomb, ReadTomb,
         Goes
<1>3. CASE c \notin Deleters
  <2>1. \A d \in Deleters : pc'[d] = pc[d] /\ stamp'[d] = stamp[d]
    BY <1>0, <1>2, <1>3
  <2>2. \A r \in Runs : RecordInv(r)' /\ NamesInv(r)'
    BY <1>1, <2>1 DEF RecordInv, NamesInv, Whole, diskVars
  <2>3. \A d \in Deleters : DeleteInv(d)'
    BY <1>1, <2>1 DEF DeleteInv, diskVars
  <2>4. Solo'
    BY <1>1, <2>1 DEF Solo
  <2> QED BY <2>2, <2>3, <2>4
<1>4. CASE c \in Deleters
  <2>1. rec[target[c]] = "done"
    <3>1. CASE Begin(c)
      BY <1>0, <1>4, <3>1 DEF Begin, Evident, HasRecord, BodyOf, RecordInv
    <3>2. CASE ~Begin(c)
      <4>1. pc[c] # "idle"
        BY <3>2 DEF Resolve, CrashClient, ProbeLive, ReadLive, StatLive, ProbeTomb,
                    ReadTomb, Goes, Busy
      <4> QED BY <1>0, <1>4, <4>1 DEF RecordInv
    <3> QED BY <3>1, <3>2
  <2>2. /\ record[target[c]] # NoFile
        /\ file[record[target[c]]] \in Contents
        /\ Whole(file[record[target[c]]])
    BY <1>0, <2>1 DEF RecordInv
  <2>3. pc'[c] \in {"notfound", "corrupt", "oserror"} => place[target[c]] = "wiped"
    <3> USE <1>0, <1>4, <2>2 DEF DeleteInv, InLive, HasRecord, AfterRead, BodyOf, Whole
    <3>1. CASE Begin(c) \/ CrashClient(c)
      BY <3>1 DEF Begin, CrashClient, Goes
    <3>2. CASE ProbeLive(c) \/ ProbeTomb(c)
      BY <3>2 DEF ProbeLive, ProbeTomb, Goes
    <3>3. CASE ReadLive(c)
      BY <3>3, AfterParseStep DEF ReadLive, Goes
    <3>4. CASE StatLive(c)
      BY <3>4 DEF StatLive, Goes
    <3>5. CASE ReadTomb(c)
      BY <3>5 DEF ReadTomb, Goes
    <3> QED BY <3>1, <3>2, <3>3, <3>4, <3>5 DEF Resolve
  <2>4. DeleteInv(c)'
    <3> USE <1>0, <1>1, <1>4, <2>2, <2>3 DEF DeleteInv, BeforeOpen, InLive, diskVars
    <3>1. CASE Begin(c)
      BY <3>1 DEF Begin, Goes, Evident, HasRecord
    <3>2. CASE ProbeLive(c)
      BY <3>2 DEF ProbeLive, Goes, HasRecord, Places
    <3>3. CASE ProbeTomb(c)
      BY <3>3 DEF ProbeTomb, Goes
    <3>4. CASE ReadLive(c)
      <4>1. pc[c] = "read_live" /\ pc'[c] = AfterRead(target[c], "live", AfterParse(c))
        BY <3>4 DEF ReadLive, Goes
      <4>2. CASE pc'[c] = "stat_live"
        <5>1. file[record[target[c]]].stored_at = "none"
          BY <4>1, <4>2 DEF AfterRead, AfterParse
        <5> QED BY <4>1, <4>2, <5>1
      <4>3. CASE pc'[c] = "open_tmp"
        <5>1. HasRecord(target[c], "live") /\ file[record[target[c]]].stored_at # "none"
          BY <4>1, <4>3 DEF AfterRead, AfterParse
        <5>2. stamp'[c] = "origin"
          BY <3>4, <5>1 DEF ReadLive, Whole
        <5> QED BY <4>1, <4>3, <5>2
      <4>4. CASE pc'[c] \in {"oserror", "corrupt"}
        BY <4>1, <4>4
      <4>5. pc'[c] # "ok"
        BY <4>1 DEF AfterRead, AfterParse
      <4> QED BY <4>1, <4>2, <4>3, <4>4, <4>5, AfterReadStep, AfterParseStep
    <3>5. CASE StatLive(c)
      <4>1. pc[c] = "stat_live"
        BY <3>5 DEF StatLive, Goes
      <4>2. pc'[c] = "open_tmp" => stamp'[c] = "origin"
        BY <3>5, <4>1 DEF StatLive, Goes, Whole
      <4> QED BY <3>5, <4>1, <4>2 DEF StatLive, Goes
    <3>6. CASE ReadTomb(c)
      <4>1. pc[c] = "read_tomb" /\ pc'[c] \in {"oserror", "corrupt", "ok"}
        BY <3>6 DEF ReadTomb, Goes, AfterRead
      <4> QED BY <4>1
    <3>7. CASE CrashClient(c)
      BY <3>7 DEF CrashClient
    <3> QED BY <3>1, <3>2, <3>3, <3>4, <3>5, <3>6, <3>7 DEF Resolve
  <2>5. \A d \in Deleters \ {c} : DeleteInv(d)'
    BY <1>0, <1>1, <1>2 DEF DeleteInv, diskVars
  <2>6. \A r \in Runs : RecordInv(r)' /\ NamesInv(r)'
    BY <1>0, <1>1, <1>2, <2>1 DEF RecordInv, NamesInv, Whole, diskVars
  <2>7. Solo'
    <3>1. CASE Begin(c)
      BY <1>0, <1>1, <1>2, <1>4, <3>1 DEF Begin, Goes, DeleteInFlight, Solo
    <3>2. CASE ~Begin(c)
      <4>1. pc[c] \in Busy
        BY <3>2 DEF Resolve, CrashClient, ProbeLive, ReadLive, StatLive, ProbeTomb,
                    ReadTomb, Goes, Busy
      <4> QED BY <1>0, <1>1, <1>2, <1>4, <4>1 DEF Solo
    <3> QED BY <3>1, <3>2
  <2> QED BY <2>4, <2>5, <2>6, <2>7
<1> QED BY <1>3, <1>4

\* The rewrite, its publication and the rename: one run's files, one writer.
LEMMA SerialInvDelete ==
  ASSUME TypeOK, SerialInv, NEW d \in Deleters, Delete(d)
  PROVE  SerialInv'
<1> USE DEF TypeOK, SerialInv
<1>r. PICK r \in Runs : r = target[d]
  BY DEF Clients
<1>0. /\ r = target[d]
      /\ d \in Clients /\ d \in Inodes /\ d # NoFile
      /\ \A e \in Deleters : e \in Clients /\ e \in Inodes /\ target[e] \in Runs /\ e # NoFile
      /\ \A q \in Runs : q \in Inodes /\ q \notin Deleters /\ q # NoFile
  BY <1>r, ConstantsAssumption DEF Clients, Inodes
<1>1. UNCHANGED <<rec, target, stamp>>
  BY DEF Delete, OpenTmp, WriteTmp, Replace, MakeTombstoneRoot, RenameToTombstone
<1>2. /\ pc[d] \in {"open_tmp", "write_tmp", "replace", "make_root", "rename"}
      /\ pc[d] \in Busy
  BY DEF Delete, OpenTmp, WriteTmp, Replace, MakeTombstoneRoot, RenameToTombstone, Goes, Busy
<1>3. /\ \A b \in Clients \ {d} : pc'[b] = pc[b] /\ fd'[b] = fd[b]
      /\ pc'[d] # "idle"
      /\ \A q \in Runs \ {r} :
           record'[q] = record[q] /\ staged'[q] = staged[q] /\ place'[q] = place[q]
  BY <1>0 DEF Delete, OpenTmp, WriteTmp, Replace, MakeTombstoneRoot, RenameToTombstone, Goes
<1>4. rec[r] = "done" /\ record[r] # NoFile /\ Whole(file[record[r]])
  BY <1>0, <1>2 DEF RecordInv
<1>5. /\ place[r] \in {"live", "wiped"}
      /\ pc[d] = "open_tmp" => staged[r] # d /\ record[r] # d
      /\ pc[d] \in {"open_tmp", "write_tmp"} => stamp[d] = "origin"
      /\ pc[d] \in {"write_tmp", "replace"} => fd[d] # NoFile /\ staged[r] = fd[d]
  BY <1>0, <1>2 DEF DeleteInv, BeforeOpen, InLive
\* The only file written is this run's staged one, or the delete's own.
<1>6. \A f \in Inodes : file'[f] # file[f] =>
        (f = staged[r] \/ (f = d /\ pc[d] = "open_tmp")) /\ f # record[r]
  BY <1>0, <1>5 DEF NamesInv, Delete, OpenTmp, WriteTmp, Replace, MakeTombstoneRoot,
                    RenameToTombstone, Goes
<1>7. ASSUME NEW q \in Runs, q # r
      PROVE  /\ record[q] # NoFile => file'[record[q]] = file[record[q]]
             /\ staged[q] # NoFile => file'[staged[q]] = file[staged[q]]
             /\ file'[q] = file[q]
  BY <1>0, <1>6, <1>7 DEF NamesInv
<1>8. NamesInv(r)'
  BY <1>0, <1>1, <1>5 DEF NamesInv, Delete, OpenTmp, WriteTmp, Replace, MakeTombstoneRoot,
                          RenameToTombstone, Goes
<1>9. DeleteInv(d)'
  <2> USE <1>0, <1>1, <1>5 DEF DeleteInv, BeforeOpen, InLive
  <2>1. CASE OpenTmp(d)
    BY <2>1 DEF OpenTmp, Goes
  <2>2. CASE WriteTmp(d)
    BY <2>2 DEF WriteTmp, Goes, NamesInv
  <2>3. CASE Replace(d)
    BY <2>3 DEF Replace, Goes
  <2>4. CASE MakeTombstoneRoot(d)
    BY <2>4 DEF MakeTombstoneRoot, Goes
  <2>5. CASE RenameToTombstone(d)
    BY <2>5 DEF RenameToTombstone, Goes
  <2> QED BY <2>1, <2>2, <2>3, <2>4, <2>5 DEF Delete
<1>10. RecordInv(r)'
  <2>1. /\ record'[r] # NoFile
        /\ Whole(file'[record'[r]])
        /\ place'[r] = "tomb" => file'[record'[r]].body = "tombstoned"
    <3> USE <1>0, <1>4, <1>5
    <3>1. CASE OpenTmp(d) \/ WriteTmp(d)
      <4>1. record' = record /\ place' = place
        BY <3>1 DEF OpenTmp, WriteTmp
      <4>2. file'[record[r]] = file[record[r]]
        BY <1>6
      <4> QED BY <4>1, <4>2
    <3>2. CASE Replace(d)
      BY <3>2 DEF Replace, Goes, DeleteInv, Whole
    <3>3. CASE MakeTombstoneRoot(d)
      BY <3>3 DEF MakeTombstoneRoot
    <3>4. CASE RenameToTombstone(d)
      BY <3>4 DEF RenameToTombstone, Goes, DeleteInv
    <3> QED BY <3>1, <3>2, <3>3, <3>4 DEF Delete
  <2> QED BY <1>1, <1>4, <2>1 DEF RecordInv
<1>11. ASSUME NEW q \in Runs, q # r PROVE RecordInv(q)' /\ NamesInv(q)'
  BY <1>0, <1>1, <1>3, <1>7, <1>11 DEF RecordInv, NamesInv
<1>12. ASSUME NEW e \in Deleters, e # d PROVE DeleteInv(e)'
  <2>1. CASE target[e] = r
    <3>1. pc[e] \notin Busy
      BY <1>0, <1>2, <1>12, <2>1 DEF Solo
    <3>2. pc[e] = "idle" => staged'[r] # e /\ record'[r] # e
      BY <1>0, <1>5, <1>12, <2>1
      DEF DeleteInv, BeforeOpen, Delete, OpenTmp, WriteTmp, Replace, MakeTombstoneRoot,
          RenameToTombstone
    <3>3. pc[e] \in {"notfound", "corrupt", "oserror"} => place'[r] = "wiped"
      BY <1>0, <2>1 DEF DeleteInv, Delete, OpenTmp, WriteTmp, Replace, MakeTombstoneRoot,
                        RenameToTombstone
    <3> QED BY <1>0, <1>1, <1>3, <1>12, <2>1, <3>1, <3>2, <3>3
            DEF DeleteInv, BeforeOpen, InLive, Busy
  <2>2. CASE target[e] # r
    <3>1. pc[e] # "idle" => record[target[e]] # NoFile
      BY <1>0 DEF RecordInv
    <3>2. pc[e] \in {"write_tmp", "replace"} => staged[target[e]] = fd[e] /\ fd[e] # NoFile
      BY DEF DeleteInv
    <3> QED BY <1>0, <1>1, <1>3, <1>7, <1>12, <2>2, <3>1, <3>2 DEF DeleteInv
  <2> QED BY <2>1, <2>2
<1>13. Solo'
  <2>1. \A e \in Deleters : pc'[e] \in Busy => pc[e] \in Busy
    BY <1>0, <1>2, <1>3
  <2> QED BY <1>1, <2>1 DEF Solo
<1> QED BY <1>8, <1>9, <1>10, <1>11, <1>12, <1>13

\* A reset moves directories; files and processes stay as they are.
LEMMA SerialInvReset ==
  ASSUME TypeOK, SerialInv, Detach \/ Reinit \/ UNCHANGED vars
  PROVE  SerialInv'
<1> USE DEF TypeOK, SerialInv
<1>1. /\ UNCHANGED <<record, staged, file, rec, clientVars>>
      /\ \A r \in Runs : \/ place'[r] = place[r]
                         \/ place[r] \in {"live", "tomb"} /\ place'[r] = "wiped"
  BY DEF Detach, Reinit, vars, clientVars
<1>2. \A r \in Runs : RecordInv(r)' /\ NamesInv(r)'
  BY <1>1 DEF RecordInv, NamesInv, Whole, clientVars
<1>3. \A d \in Deleters : DeleteInv(d)'
  BY <1>1 DEF DeleteInv, clientVars, Clients
<1>4. Solo'
  BY <1>1 DEF Solo, clientVars
<1> QED BY <1>2, <1>3, <1>4

LEMMA SerialInvHolds ==
  ASSUME ~ConcurrentDeletes
  PROVE  Spec => []SerialInv
<1>1. TypeOK /\ SerialInv /\ [Next]_vars => SerialInv'
  BY SerialInvRecorder, SerialInvLookup, SerialInvDelete, SerialInvReset DEF Next
<1> QED BY <1>1, SerialInvInit, TypeOKHolds, PTL DEF Spec

\* MEM-02: whatever crashed when, a tombstone holds the rewritten record.
THEOREM TombstonesCompleteHolds ==
  ASSUME ~ConcurrentDeletes
  PROVE  Spec => []TombstonesComplete
<1>1. SerialInv => TombstonesComplete
  BY DEF SerialInv, RecordInv, TombstonesComplete, BodyOf
<1> QED BY <1>1, SerialInvHolds, PTL

\* No reader, at any point of a delete or of its crash, sees a torn record.
THEOREM NoTornEvidenceHolds ==
  ASSUME ~ConcurrentDeletes
  PROVE  Spec => []NoTornEvidence
<1>1. SerialInv => NoTornEvidence
  BY DEF SerialInv, RecordInv, Whole, NoTornEvidence, Evident, HasRecord, BodyOf
<1> QED BY <1>1, SerialInvHolds, PTL

\* MEM-04: no sequence of deletes, finished or crashed, moves stored_at.
THEOREM StoredAtPreservedHolds ==
  ASSUME ~ConcurrentDeletes
  PROVE  Spec => []StoredAtPreserved
<1>1. SerialInv => StoredAtPreserved
  BY DEF SerialInv, RecordInv, Whole, StoredAtPreserved, Evident, HasRecord, BodyOf,
         StoredAtOf
<1> QED BY <1>1, SerialInvHolds, PTL

\* Only a reset makes a delete of existing evidence fail; the residue of an
\* earlier delete that crashed never does.
THEOREM DeleteFailsOnlyAfterResetHolds ==
  ASSUME ~ConcurrentDeletes
  PROVE  Spec => []DeleteFailsOnlyAfterReset
<1>1. SerialInv => DeleteFailsOnlyAfterReset
  BY DEF SerialInv, DeleteInv, DeleteFailsOnlyAfterReset
<1> QED BY <1>1, SerialInvHolds, PTL

(***************************************************************************)
(* The files implement the ledger                                          *)
(***************************************************************************)

\* The part of LedgerStatus a step changes, run by run.
StatusOf(r) ==
  IF place[r] = "wiped" THEN "wiped"
  ELSE IF place[r] = "tomb" THEN "tombstoned"
  ELSE IF place[r] = "live" /\ record[r] # NoFile /\ file[record[r]].body # "empty"
  THEN "recorded" ELSE "absent"

LEMMA StatusIsLedger == LedgerStatus = [r \in Runs |-> StatusOf(r)]
BY DEF LedgerStatus, StatusOf, Evident, HasRecord, BodyOf

\* With one delete of a run at a time, every step of the files is a step of the
\* ledger or invisible to it: a run is recorded by the write that completes its
\* record, tombstoned by the rename, and wiped with all others at once.
THEOREM LedgerIsImplemented ==
  ASSUME ~ConcurrentDeletes
  PROVE  Spec => ImplementsLedger
<1>1. Init => Ledger!LedgerInit
  BY ConstantsAssumption, StatusIsLedger
  DEF Init, Ledger!LedgerInit, StatusOf, LegacyBody, Inodes
<1>2. TypeOK /\ CheckedHasNoDir /\ SerialInv /\ [Next]_vars
        => [Ledger!LedgerNext]_LedgerStatus
  <2> SUFFICES ASSUME TypeOK, CheckedHasNoDir, SerialInv, [Next]_vars
               PROVE  [Ledger!LedgerNext]_LedgerStatus
    OBVIOUS
  <2> USE DEF TypeOK
  <2>0. /\ LedgerStatus = [r \in Runs |-> StatusOf(r)]
        /\ LedgerStatus' = [r \in Runs |-> StatusOf(r)']
        /\ \A r \in Runs : r \in Inodes
        /\ \A d \in Deleters : d \in Clients /\ d \in Inodes /\ target[d] \in Runs
    <3>1. LedgerStatus' = [r \in Runs |-> StatusOf(r)']
      BY DEF LedgerStatus, StatusOf, Evident, HasRecord, BodyOf
    <3> QED BY <3>1, StatusIsLedger DEF Inodes, Clients
  <2>1. ASSUME NEW r \in Runs, Recorder(r) \/ CrashRecorder(r)
        PROVE  [Ledger!LedgerNext]_LedgerStatus
    <3>1. rec[r] # "done"
      BY <2>1 DEF Recorder, Execute, PrepareArtifacts, CheckStore, MakeRunDir,
                  OpenRecord, WriteRecord, CrashRecorder, RecMoves
    <3>2. record[r] \in {NoFile, r} /\ file[r].body = "empty"
      BY <3>1 DEF SerialInv, RecordInv
    <3>3. \A q \in Runs \ {r} : StatusOf(q)' = StatusOf(q)
      <4>1. \A q \in Runs \ {r} : record[q] # r
        BY <2>0, ConstantsAssumption DEF SerialInv, NamesInv
      <4> QED BY <2>0, <2>1, <4>1
              DEF StatusOf, Recorder, Execute, PrepareArtifacts, CheckStore, MakeRunDir,
                  OpenRecord, WriteRecord, CrashRecorder, RecMoves, diskVars
    <3>4. CASE WriteRecord(r)
      <4>1. rec[r] = "opened" /\ record[r] = r /\ record'[r] = r /\ place' = place
        BY <3>4 DEF WriteRecord, RecMoves, SerialInv, RecordInv
      <4>2. file'[r].body = "stored"
        BY <2>0, <3>4 DEF WriteRecord, NewBody
      <4>3. r # NoFile
        BY <2>0, ConstantsAssumption
      <4>4. \/ StatusOf(r)' = StatusOf(r)
            \/ StatusOf(r) = "absent" /\ StatusOf(r)' = "recorded"
        BY <3>2, <4>1, <4>2, <4>3 DEF StatusOf
      <4>5. CASE StatusOf(r)' = StatusOf(r)
        BY <2>0, <3>3, <4>5
      <4>6. CASE StatusOf(r) = "absent" /\ StatusOf(r)' = "recorded"
        <5>1. Ledger!Record(r)
          BY <2>0, <3>3, <4>6 DEF Ledger!Record
        <5> QED BY <5>1 DEF Ledger!LedgerNext
      <4> QED BY <4>4, <4>5, <4>6
    <3>5. CASE ~WriteRecord(r)
      <4>1. StatusOf(r)' = StatusOf(r)
        BY <2>0, <2>1, <3>2, <3>5
        DEF StatusOf, Recorder, Execute, PrepareArtifacts, CheckStore, MakeRunDir,
            OpenRecord, CrashRecorder, RecMoves, diskVars, CheckedHasNoDir, Empty
      <4> QED BY <2>0, <3>3, <4>1
    <3> QED BY <3>4, <3>5
  <2>2. ASSUME NEW c \in Clients, Begin(c) \/ Resolve(c) \/ CrashClient(c)
        PROVE  [Ledger!LedgerNext]_LedgerStatus
    <3>1. UNCHANGED diskVars
      BY <2>2 DEF Begin, Resolve, CrashClient, ProbeLive, ReadLive, StatLive, ProbeTomb,
                  ReadTomb
    <3> QED BY <2>0, <3>1 DEF StatusOf, diskVars
  <2>3. ASSUME NEW d \in Deleters, Delete(d)
        PROVE  [Ledger!LedgerNext]_LedgerStatus
    <3>1. PICK r \in Runs : r = target[d]
      BY <2>0
    <3>2. /\ record[r] # NoFile
          /\ file[record[r]].body # "empty"
          /\ place[r] \in {"live", "wiped"}
      BY <2>0, <2>3, <3>1
      DEF SerialInv, RecordInv, DeleteInv, Whole, InLive, Delete, OpenTmp, WriteTmp,
          Replace, MakeTombstoneRoot, RenameToTombstone, Goes
    <3>3. CASE OpenTmp(d) \/ WriteTmp(d)
      <4>1. record' = record /\ place' = place
        BY <3>3 DEF OpenTmp, WriteTmp
      <4>2. \A q \in Runs : record[q] # NoFile => file'[record[q]] = file[record[q]]
        BY <2>0, <3>1, <3>3, ConstantsAssumption
        DEF SerialInv, NamesInv, DeleteInv, BeforeOpen, OpenTmp, WriteTmp, Goes
      <4> QED BY <2>0, <4>1, <4>2 DEF StatusOf
    <3>4. CASE Replace(d)
      <4>1. \A q \in Runs : place'[q] = place[q] /\ (q # r => record'[q] = record[q])
        BY <3>1, <3>4 DEF Replace
      <4>2. record'[r] # NoFile /\ file'[record'[r]].body # "empty"
        BY <2>0, <3>1, <3>2, <3>4 DEF Replace, Goes, SerialInv, DeleteInv
      <4>3. \A q \in Runs : StatusOf(q)' = StatusOf(q)
        BY <3>2, <3>4, <4>1, <4>2 DEF StatusOf, Replace
      <4> QED BY <2>0, <4>3
    <3>5. CASE MakeTombstoneRoot(d)
      BY <2>0, <3>5 DEF MakeTombstoneRoot, StatusOf
    <3>6. CASE RenameToTombstone(d)
      <4>1. CASE place[r] = "live"
        <5>1. /\ \A q \in Runs \ {r} : StatusOf(q)' = StatusOf(q)
              /\ StatusOf(r) = "recorded" /\ StatusOf(r)' = "tombstoned"
          BY <3>1, <3>2, <3>6, <4>1 DEF RenameToTombstone, StatusOf
        <5>2. Ledger!Tombstone(r)
          BY <2>0, <5>1 DEF Ledger!Tombstone
        <5> QED BY <5>2 DEF Ledger!LedgerNext
      <4>2. CASE place[r] # "live"
        BY <2>0, <3>1, <3>6, <4>2 DEF RenameToTombstone, StatusOf
      <4> QED BY <4>1, <4>2
    <3> QED BY <2>3, <3>3, <3>4, <3>5, <3>6 DEF Delete
  <2>4. CASE Detach
    <3> DEFINE caught == {r \in Runs : place[r] = "live" /\ StatusOf(r) = "absent"}
    <3>1. \A r \in Runs :
            StatusOf(r)' = IF StatusOf(r) # "absent" \/ r \in caught
                           THEN "wiped" ELSE "absent"
      BY <2>4 DEF Detach, StatusOf, Places
    <3>2. Ledger!Wipe(caught)
      BY <2>0, <3>1 DEF Ledger!Wipe
    <3> QED BY <3>2 DEF Ledger!LedgerNext
  <2>5. CASE Reinit \/ UNCHANGED vars
    BY <2>0, <2>5 DEF Reinit, vars, StatusOf
  <2> QED BY <2>1, <2>2, <2>3, <2>4, <2>5 DEF Next
<1> QED
  BY <1>1, <1>2, TypeOKHolds, CheckedHasNoDirHolds, SerialInvHolds, PTL
  DEF Spec, ImplementsLedger, Ledger!LedgerSpec

(***************************************************************************)
(* RunHistory: for any number of runs, walks and deletes, the walk loses   *)
(* nothing because evidence moves only in its direction.                   *)
(***************************************************************************)

(* A walk that has a record in hand knows whose it is.                     *)
InHand == \A s \in Scanners : step[s] \in {"read", "stat"} => at[s] \in Runs

(* What the steps of RunEvidence rest on.  Its deletes are sane unless they *)
(* overlap.                                                                *)
Evidence == TypeOK /\ CheckedHasNoDir /\ (ConcurrentDeletes \/ SerialInv)

(* A run the walk may still come to: in the tree it is in, listed but not  *)
(* read or not listed yet, or in the tree that follows.                    *)
Ahead(s, r) ==
  /\ record[r] # NoFile
  /\ \/ phase[s] = 1 /\ place[r] = "tomb"
     \/ place[r] = Here(s) /\ (r \in left[s] \/ (step[s] = "read" /\ at[s] = r))

Tracked(s, r) ==
  /\ ConcurrentDeletes \/ rec[r] = "done"
  /\ \/ InHistory(s, r) \/ place[r] = "wiped"
     \/ ConcurrentDeletes /\ r \in skipped[s]
     \/ Ahead(s, r)

HistoryInv ==
  /\ HistoryTypeOK /\ InHand
  /\ \A s \in Scanners :
       /\ step[s] = "idle" => phase[s] = 1 /\ left[s] = Runs /\ known[s] = {}
       /\ step[s] = "done" => phase[s] = 2 /\ left[s] = {}
       /\ \A r \in known[s] : Tracked(s, r)
-----------------------------------------------------------------------------
LEMMA PhasesAre ==
  ASSUME HistoryTypeOK, NEW s \in Scanners
  PROVE  /\ Len(PhaseOrder) = 2 /\ Here(s) = IF phase[s] = 1 THEN "live" ELSE "tomb"
         /\ phase[s] \in 1..2 /\ left[s] \subseteq Runs /\ known[s] \subseteq Runs
BY DEF HistoryTypeOK, Here, PhaseOrder

\* Evidence goes on as RunEvidence has it while walks go on.
LEMMA EvidenceHolds == HistorySpec => []Evidence
PROOF
<1>1. HistorySpec => Spec
  <2>1. HistoryInit => Init
    BY DEF HistoryInit
  <2>2. [HistoryNext]_historyVars => [Next]_vars
    BY DEF HistoryNext, historyVars, BeginScan, Scan, List, Skip, Take, Stat, NextTree
  <2> QED
    BY <2>1, <2>2, PTL DEF HistorySpec, Spec
<1>2. CASE ConcurrentDeletes
  <2>1. TypeOK /\ CheckedHasNoDir => Evidence
    BY <1>2 DEF Evidence
  <2> QED
    BY <1>1, <2>1, TypeOKHolds, CheckedHasNoDirHolds, PTL
<1>3. CASE ~ConcurrentDeletes
  <2>1. TypeOK /\ CheckedHasNoDir /\ SerialInv => Evidence
    BY DEF Evidence
  <2>2. Spec => []SerialInv
    BY <1>3, SerialInvHolds
  <2> QED
    BY <1>1, <2>1, <2>2, TypeOKHolds, CheckedHasNoDirHolds, PTL
<1> QED
  BY <1>2, <1>3

\* A recording that is done stays done.
LEMMA DoneStays ==
  ASSUME TypeOK, [Next]_vars, NEW r \in Runs, rec[r] = "done"
  PROVE  rec'[r] = "done"
PROOF
<1>1. ASSUME NEW q \in Runs, Recorder(q) \/ CrashRecorder(q) PROVE rec'[r] = "done"
  BY <1>1 DEF Recorder, CrashRecorder, Execute, PrepareArtifacts, CheckStore, MakeRunDir,
              OpenRecord, WriteRecord, RecMoves, TypeOK
<1>2. ASSUME NEW c \in Clients, Begin(c) \/ Resolve(c) \/ CrashClient(c) PROVE rec'[r] = "done"
  BY <1>2 DEF Begin, Resolve, CrashClient, ProbeLive, ReadLive, StatLive, ProbeTomb, ReadTomb
<1>3. ASSUME NEW d \in Deleters, Delete(d) PROVE rec'[r] = "done"
  BY <1>3 DEF Delete, OpenTmp, WriteTmp, Replace, MakeTombstoneRoot, RenameToTombstone
<1>4. CASE Detach \/ Reinit \/ UNCHANGED vars
  BY <1>4 DEF Detach, Reinit, vars
<1> QED
  BY <1>1, <1>2, <1>3, <1>4 DEF Next

\* What a recorder, a delete or a reset does leaves a run tracked.
LEMMA EvidenceTracked ==
  ASSUME HistoryInv, Evidence, [Next]_vars, UNCHANGED scanVars
  PROVE  HistoryInv'
PROOF
<1> USE DEF scanVars
<1>1. HistoryTypeOK' /\ InHand'
  BY DEF HistoryInv, HistoryTypeOK, InHand
<1>2. ASSUME NEW s \in Scanners, NEW r \in known[s] PROVE Tracked(s, r)'
  <2>1. r \in Runs /\ Tracked(s, r)
    BY <1>2, PhasesAre DEF HistoryInv
  <2>2. Moves(r) /\ (rec[r] = "done" => rec'[r] = "done")
    BY <2>1, StepMoves, DoneStays DEF Evidence
  <2>3. Here(s)' = Here(s) /\ (Here(s) = IF phase[s] = 1 THEN "live" ELSE "tomb") /\ phase[s] \in 1..2
    BY PhasesAre DEF HistoryInv, Here
  <2>4. InHistory(s, r)' <=> InHistory(s, r)
    BY DEF InHistory
  <2> QED
    BY <2>1, <2>2, <2>3, <2>4 DEF Tracked, Ahead, Moves
<1> QED
  BY <1>1, <1>2 DEF HistoryInv

\* A step of one walk leaves the others alone.
LEMMA OneWalk ==
  ASSUME HistoryInv, NEW s \in Scanners, UNCHANGED vars, HistoryTypeOK',
         \A q \in Scanners : q # s =>
           /\ step'[q] = step[q] /\ phase'[q] = phase[q] /\ left'[q] = left[q] /\ at'[q] = at[q]
           /\ hits'[q] = hits[q] /\ skipped'[q] = skipped[q] /\ known'[q] = known[q],
         step'[s] \in {"read", "stat"} => at'[s] \in Runs,
         step'[s] # "idle", step'[s] = "done" => phase'[s] = 2 /\ left'[s] = {},
         \A r \in known'[s] : Tracked(s, r)'
  PROVE  HistoryInv'
PROOF
<1>1. InHand'
  BY DEF HistoryInv, InHand
<1>2. ASSUME NEW q \in Scanners, q # s, NEW r \in known[q] PROVE Tracked(q, r)'
  BY <1>2 DEF HistoryInv, Tracked, Ahead, InHistory, Here, vars
<1> QED
  BY <1>1, <1>2 DEF HistoryInv

\* Evidence is a recording that is done, and it is not torn unless deletes
\* overlap.
LEMMA EvidentIsDone ==
  ASSUME Evidence, NEW r \in Runs
  PROVE  /\ Evident(r) => ConcurrentDeletes \/ rec[r] = "done"
         /\ rec[r] = "done" /\ record[r] # NoFile => ConcurrentDeletes \/ BodyOf(r) # "empty"
BY DEF Evidence, SerialInv, RecordInv, Whole, Evident, HasRecord, BodyOf

LEMMA BeginScanTracked ==
  ASSUME HistoryInv, Evidence, NEW s \in Scanners, BeginScan(s)
  PROVE  HistoryInv'
PROOF
<1>1. HistoryTypeOK'
  BY DEF BeginScan, HistoryInv, HistoryTypeOK
<1>2. /\ step'[s] = "walk" /\ phase'[s] = 1 /\ left'[s] = Runs /\ known'[s] = {r \in Runs : Evident(r)}
      /\ UNCHANGED <<vars, phase, left, at, hits, skipped>>
  BY DEF BeginScan, HistoryInv, HistoryTypeOK
<1>3. ASSUME NEW r \in known'[s] PROVE Tracked(s, r)'
  <2>1. r \in Runs /\ Evident(r)
    BY <1>2, <1>3
  <2>2. ConcurrentDeletes \/ rec[r] = "done"
    BY <2>1, EvidentIsDone
  <2>3. Ahead(s, r)'
    BY <1>2, <2>1 DEF Ahead, Here, PhaseOrder, Evident, HasRecord, vars
  <2> QED
    BY <1>2, <2>2, <2>3 DEF Tracked, vars
<1> QED
  BY <1>1, <1>2, <1>3, OneWalk DEF BeginScan, HistoryInv, HistoryTypeOK

LEMMA ListTracked ==
  ASSUME HistoryInv, Evidence, NEW s \in Scanners, List(s)
  PROVE  HistoryInv'
PROOF
<1>1. PICK q \in left[s] :
        /\ left' = [left EXCEPT ![s] = @ \ {q}]
        /\ IF HasRecord(q, Here(s))
           THEN step' = [step EXCEPT ![s] = "read"] /\ at' = [at EXCEPT ![s] = q]
           ELSE UNCHANGED <<step, at>>
  BY DEF List
<1>2. q \in Runs /\ step[s] = "walk" /\ UNCHANGED <<vars, phase, hits, skipped, known>>
  BY <1>1, PhasesAre DEF List, HistoryInv
<1>3. HistoryTypeOK'
  BY <1>1, <1>2 DEF HistoryInv, HistoryTypeOK
<1>4. /\ left'[s] = left[s] \ {q}
      /\ IF HasRecord(q, Here(s)) THEN step'[s] = "read" /\ at'[s] = q
         ELSE step'[s] = "walk" /\ at' = at
  BY <1>1, <1>2 DEF HistoryInv, HistoryTypeOK
<1>5. ASSUME NEW r \in known[s] PROVE Tracked(s, r)'
  <2>1. Tracked(s, r) /\ (InHistory(s, r)' <=> InHistory(s, r)) /\ Here(s)' = Here(s)
    BY <1>2 DEF HistoryInv, InHistory, Here
  <2>2. Ahead(s, r) => Ahead(s, r)'
    BY <1>2, <1>4, <2>1 DEF Ahead, HasRecord, vars
  <2> QED
    BY <1>2, <2>1, <2>2 DEF Tracked, vars
<1> QED
  BY <1>1, <1>2, <1>3, <1>4, <1>5, OneWalk DEF HistoryInv, HistoryTypeOK

LEMMA SkipTracked ==
  ASSUME HistoryInv, Evidence, NEW s \in Scanners, Skip(s)
  PROVE  HistoryInv'
PROOF
<1>1. /\ step[s] = "read" /\ at[s] \in Runs /\ ~Readable(s)
      /\ UNCHANGED <<vars, phase, left, at, hits, known>>
  BY DEF Skip, HistoryInv, InHand
<1>2. HistoryTypeOK'
  BY <1>1 DEF Skip, HistoryInv, HistoryTypeOK
<1>3. step'[s] = "walk" /\ skipped'[s] = skipped[s] \cup {at[s]}
  BY DEF Skip, HistoryInv, HistoryTypeOK
<1>4. ASSUME NEW r \in known[s] PROVE Tracked(s, r)'
  <2>1. r \in Runs /\ Tracked(s, r) /\ (InHistory(s, r)' <=> InHistory(s, r)) /\ Here(s)' = Here(s)
    BY <1>1, PhasesAre DEF HistoryInv, InHistory, Here
  <2>2. CASE r # at[s] \/ ~Ahead(s, r)
    BY <1>1, <1>3, <2>1, <2>2 DEF Tracked, Ahead, vars
  <2>3. CASE r = at[s] /\ Ahead(s, r)
    <3>1. CASE HasRecord(r, Here(s))
      <4>1. BodyOf(r) = "empty" /\ record[r] # NoFile
        BY <1>1, <2>3, <3>1 DEF Readable, HasRecord
      <4>2. ConcurrentDeletes
        BY <2>1, <4>1, EvidentIsDone DEF Tracked
      <4> QED
        BY <1>3, <2>3, <4>2 DEF Tracked
    <3>2. CASE ~HasRecord(r, Here(s))
      <4>1. phase[s] = 1 /\ place[r] = "tomb"
        BY <2>3, <3>2 DEF Ahead, HasRecord
      <4>2. Ahead(s, r)'
        BY <1>1, <2>3, <4>1 DEF Ahead, vars
      <4> QED
        BY <1>1, <2>1, <4>2 DEF Tracked, vars
    <3> QED
      BY <3>1, <3>2
  <2> QED
    BY <2>2, <2>3
<1> QED
  BY <1>1, <1>2, <1>3, <1>4, OneWalk DEF Skip, HistoryInv, HistoryTypeOK

LEMMA TakeTracked ==
  ASSUME HistoryInv, Evidence, NEW s \in Scanners, Take(s)
  PROVE  HistoryInv'
PROOF
<1>1. /\ step[s] = "read" /\ at[s] \in Runs /\ Readable(s)
      /\ UNCHANGED <<vars, phase, left, at, skipped, known>>
  BY DEF Take, HistoryInv, InHand
<1> DEFINE entry == <<at[s], Here(s), BodyOf(at[s])>>
<1>2. entry \in Runs \X {"live", "tomb"} \X {"stored", "tombstoned"}
  <2>1. file[record[at[s]]] \in Contents /\ BodyOf(at[s]) # "empty"
    BY <1>1, RecordIsAFile DEF Readable, Evidence
  <2> QED
    BY <1>1, <2>1, PhasesAre DEF HistoryInv, BodyOf, Contents
<1>3. /\ hits' = [hits EXCEPT ![s] = @ \cup {entry}]
      /\ \E to \in {"stat", "walk"} : step' = [step EXCEPT ![s] = to]
  BY DEF Take, Hit
<1> HIDE DEF entry
<1>4. HistoryTypeOK'
  BY <1>1, <1>2, <1>3 DEF HistoryInv, HistoryTypeOK
<1>5. step'[s] \in {"stat", "walk"} /\ hits'[s] = hits[s] \cup {entry}
  BY <1>3 DEF HistoryInv, HistoryTypeOK
<1>6. ASSUME NEW r \in known[s] PROVE Tracked(s, r)'
  <2>1. Tracked(s, r) /\ Here(s)' = Here(s) /\ (InHistory(s, r) => InHistory(s, r)')
    BY <1>1, <1>5 DEF HistoryInv, InHistory, Here
  <2>2. r = at[s] => InHistory(s, r)'
    <3>1. entry \in hits'[s] /\ entry[1] = at[s]
      BY <1>5 DEF entry
    <3> QED
      BY <3>1 DEF InHistory
  <2> QED
    BY <1>1, <1>5, <2>1, <2>2 DEF Tracked, Ahead, vars
<1> QED
  BY <1>1, <1>3, <1>4, <1>5, <1>6, OneWalk DEF HistoryInv, HistoryTypeOK

LEMMA StatTracked ==
  ASSUME HistoryInv, Evidence, NEW s \in Scanners, Stat(s)
  PROVE  HistoryInv'
PROOF
<1>1. step[s] = "stat" /\ UNCHANGED <<vars, phase, left, at, hits, skipped, known>>
      /\ \E to \in {"walk", "died"} : step' = [step EXCEPT ![s] = to]
  BY DEF Stat
<1>2. HistoryTypeOK' /\ step'[s] \in {"walk", "died"}
  BY <1>1 DEF HistoryInv, HistoryTypeOK
<1>3. ASSUME NEW r \in known[s] PROVE Tracked(s, r)'
  BY <1>1, <1>2 DEF HistoryInv, Tracked, Ahead, InHistory, Here, vars
<1> QED
  BY <1>1, <1>2, <1>3, OneWalk DEF HistoryInv, HistoryTypeOK

LEMMA NextTreeTracked ==
  ASSUME HistoryInv, Evidence, NEW s \in Scanners, NextTree(s)
  PROVE  HistoryInv'
PROOF
<1>1. /\ step[s] = "walk" /\ left[s] = {} /\ phase[s] \in 1..2
      /\ UNCHANGED <<vars, at, hits, skipped, known>>
  BY PhasesAre DEF NextTree, HistoryInv
<1>2. ASSUME NEW r \in known[s] PROVE Tracked(s, r) /\ (Ahead(s, r) => phase[s] = 1 /\ place[r] = "tomb")
  BY <1>1 DEF HistoryInv, Ahead
<1>3. CASE phase[s] = 1
  <2>1. /\ phase' = [phase EXCEPT ![s] = 2] /\ left' = [left EXCEPT ![s] = Runs] /\ step' = step
    <3>1. phase[s] < Len(PhaseOrder) /\ phase[s] + 1 = 2
      BY <1>3, PhasesAre DEF HistoryInv
    <3> QED
      BY <3>1 DEF NextTree
  <2>2. HistoryTypeOK' /\ phase'[s] = 2 /\ left'[s] = Runs
    BY <1>1, <2>1 DEF HistoryInv, HistoryTypeOK
  <2>3. Here(s)' = "tomb"
    BY <2>2 DEF Here, PhaseOrder
  <2>4. ASSUME NEW r \in known[s] PROVE Tracked(s, r)'
    <3>1. Tracked(s, r) /\ (Ahead(s, r) => place[r] = "tomb") /\ r \in Runs
      BY <1>2, PhasesAre DEF HistoryInv
    <3>2. Ahead(s, r) => Ahead(s, r)'
      BY <1>1, <2>2, <2>3, <3>1 DEF Ahead, vars
    <3> QED
      BY <1>1, <3>1, <3>2 DEF Tracked, InHistory, vars
  <2> QED
    BY <1>1, <2>1, <2>2, <2>4, OneWalk DEF HistoryInv, HistoryTypeOK
<1>4. CASE phase[s] = 2
  <2>1. step' = [step EXCEPT ![s] = "done"] /\ UNCHANGED <<phase, left>>
    BY <1>4, PhasesAre DEF NextTree, HistoryInv
  <2>2. HistoryTypeOK' /\ step'[s] = "done"
    BY <1>1, <2>1 DEF HistoryInv, HistoryTypeOK
  <2>3. ASSUME NEW r \in known[s] PROVE Tracked(s, r)'
    BY <1>1, <1>2, <1>4 DEF Tracked, InHistory, vars
  <2> QED
    BY <1>1, <1>4, <2>1, <2>2, <2>3, OneWalk DEF HistoryInv, HistoryTypeOK
<1> QED
  BY <1>1, <1>3, <1>4

LEMMA HistoryInvInit == HistoryInit => HistoryInv
BY DEF HistoryInit, HistoryInv, HistoryTypeOK, InHand

LEMMA HistoryInvStep == HistoryInv /\ Evidence /\ [HistoryNext]_historyVars => HistoryInv'
PROOF
<1> SUFFICES ASSUME HistoryInv, Evidence, [HistoryNext]_historyVars PROVE HistoryInv'
  OBVIOUS
<1>1. CASE [Next]_vars /\ UNCHANGED scanVars
  BY <1>1, EvidenceTracked
<1>2. ASSUME NEW s \in Scanners, BeginScan(s) \/ Scan(s) PROVE HistoryInv'
  BY <1>2, BeginScanTracked, ListTracked, SkipTracked, TakeTracked, StatTracked, NextTreeTracked DEF Scan
<1> QED
  BY <1>1, <1>2 DEF HistoryNext, historyVars

\* A walk that ends has every run whose evidence was there when it began, save
\* those a reset took; with overlapping deletes a torn record is among the
\* skipped (list_run_history, _iter_all_records).
THEOREM HistoryCompleteHolds == HistorySpec => []HistoryComplete
PROOF
<1>1. HistoryInv => HistoryComplete
  BY DEF HistoryInv, HistoryComplete, Tracked, Ahead
<1> QED
  BY <1>1, EvidenceHolds, HistoryInvInit, HistoryInvStep, PTL DEF HistorySpec

\* A walk's entries are readable records of one of the two trees.
THEOREM HistoryTypeOKHolds == HistorySpec => []HistoryTypeOK
PROOF
<1>1. HistoryInv => HistoryTypeOK
  BY DEF HistoryInv
<1> QED
  BY <1>1, EvidenceHolds, HistoryInvInit, HistoryInvStep, PTL DEF HistorySpec
=============================================================================
