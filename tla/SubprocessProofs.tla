--------------------------- MODULE SubprocessProofs ---------------------------
(***************************************************************************)
(* Proofs about Subprocess, for any cap, chunk and pipe, whatever the tree *)
(* does and whenever the timers fire.                                      *)
(***************************************************************************)
EXTENDS Subprocess, TLAPS

LEMMA MinOfTwo ==
  ASSUME NEW a \in Int, NEW b \in Int
  PROVE  Min({a, b}) = IF a <= b THEN a ELSE b
PROOF
<1> DEFINE m == IF a <= b THEN a ELSE b
<1>1. m \in {a, b} /\ \A y \in {a, b} : m <= y
  OBVIOUS
<1>2. \A x \in {a, b} : (\A y \in {a, b} : x <= y) => x = m
  OBVIOUS
<1>3. Min({a, b}) \in {a, b} /\ \A y \in {a, b} : Min({a, b}) <= y
  BY <1>1 DEF Min
<1> QED
  BY <1>2, <1>3

----------------------------------------------------------------------------
(* The child's exit is seen in order: it ends, it is reaped, the loop      *)
(* learns of it; only then does any wait end. A pid is never born again.   *)
ExitSeen ==
  /\ "child" \in spawned
  /\ reaped => "child" \notin alive
  /\ noticed => reaped
  /\ pc \in {"draining", "returned"} => noticed

LEMMA ExitSeenInit == Init => ExitSeen
  BY DEF Init, ExitSeen

LEMMA ExitSeenStep == ExitSeen /\ [Next]_vars => ExitSeen'
PROOF
<1> SUFFICES ASSUME ExitSeen, [Next]_vars PROVE ExitSeen'
  OBVIOUS
<1> USE DEF ExitSeen, treeVars, streamVars
<1>1. ASSUME NEW m \in Members, Spawn(m) PROVE ExitSeen'
  BY <1>1 DEF Spawn
<1>2. ASSUME NEW m \in Members, Exit(m) PROVE ExitSeen'
  BY <1>2 DEF Exit
<1>3. ASSUME NEW s \in Streams, Write(s) \/ Drain(s) \/ DrainEOF(s) PROVE ExitSeen'
  BY <1>3 DEF Write, Drain, DrainEOF
<1>4. CASE Reap \/ Notice
  BY <1>4 DEF Reap, Notice
<1>5. CASE WaitEnds \/ TermEnds \/ KillEnds
  BY <1>5 DEF WaitEnds, TermEnds, KillEnds
<1>6. CASE Timeout
  BY <1>6 DEF Timeout
<1>7. CASE KillGrace
  BY <1>7 DEF KillGrace
<1>8. CASE Finish \/ DrainGrace
  BY <1>8 DEF Finish, DrainGrace
<1>9. CASE UNCHANGED vars
  BY <1>9 DEF vars
<1> QED
  BY <1>1, <1>2, <1>3, <1>4, <1>5, <1>6, <1>7, <1>8, <1>9 DEF Next, Tree, Loop

(* A call never returns before its child is reaped and the loop knows,     *)
(* however timeout, grace and exit race.                                   *)
THEOREM ReturnsReapedHolds == Spec => []ReturnsReaped
PROOF
<1>1. ExitSeen => ReturnsReaped
  BY DEF ExitSeen, ReturnsReaped
<1> QED
  BY <1>1, ExitSeenInit, ExitSeenStep, PTL DEF Spec

----------------------------------------------------------------------------
(* Types, and a drainer never reads what was not written.                  *)
Typed == SubprocessTypeOK /\ \A s \in Streams : drained[s] <= written[s]

(* What one read takes off a pipe, and what it keeps of it.                *)
LEMMA DrainTakes ==
  ASSUME Typed, NEW s \in Streams, Drain(s)
  PROVE  \E n \in 1..(written[s] - drained[s]) :
           /\ drained' = [drained EXCEPT ![s] = drained[s] + n]
           /\ buffer' = [buffer EXCEPT ![s] = IF n <= Limit - buffer[s] THEN buffer[s] + n ELSE Limit]
           /\ truncated' = [truncated EXCEPT ![s] = truncated[s] \/ n > Limit - buffer[s]]
PROOF
<1>1. /\ written[s] \in Int /\ drained[s] \in Int /\ buffer[s] \in Int
      /\ Limit \in Int /\ Chunk \in Int
  BY SubprocessConstants DEF Typed, SubprocessTypeOK
<1>2. PICK n \in 1..Min({Chunk, written[s] - drained[s]}) :
        /\ drained' = [drained EXCEPT ![s] = drained[s] + n]
        /\ buffer' = [buffer EXCEPT ![s] = buffer[s] + Min({n, Limit - buffer[s]})]
        /\ truncated' = [truncated EXCEPT ![s] = truncated[s] \/ n > Limit - buffer[s]]
  BY DEF Drain
<1>3. Min({Chunk, written[s] - drained[s]}) = IF Chunk <= written[s] - drained[s] THEN Chunk ELSE written[s] - drained[s]
  BY <1>1, MinOfTwo
<1>4. n \in 1..(written[s] - drained[s])
  BY <1>1, <1>3
<1>5. Min({n, Limit - buffer[s]}) = IF n <= Limit - buffer[s] THEN n ELSE Limit - buffer[s]
  BY <1>1, <1>4, MinOfTwo
<1>6. buffer[s] + Min({n, Limit - buffer[s]}) = IF n <= Limit - buffer[s] THEN buffer[s] + n ELSE Limit
  BY <1>1, <1>4, <1>5
<1> QED
  BY <1>2, <1>4, <1>6

LEMMA TypedInit == Init => Typed
PROOF
<1> SUFFICES ASSUME Init PROVE Typed
  OBVIOUS
<1>1. 0 \in 0..Limit /\ 0 \in 0..Demand
  BY SubprocessConstants
<1>2. /\ written \in [Streams -> 0..Demand] /\ drained \in [Streams -> 0..Demand]
      /\ buffer \in [Streams -> 0..Limit] /\ truncated \in [Streams -> BOOLEAN]
      /\ drain \in [Streams -> {"reading", "eof", "cancelled"}]
      /\ \A s \in Streams : drained[s] <= written[s]
  BY <1>1 DEF Init
<1>3. alive \subseteq spawned /\ spawned \subseteq Members /\ termed \subseteq Members
  BY DEF Init, Members
<1> QED
  BY <1>2, <1>3 DEF Init, Typed, SubprocessTypeOK

LEMMA TypedStep == Typed /\ [Next]_vars => Typed'
PROOF
<1> SUFFICES ASSUME Typed, [Next]_vars PROVE Typed'
  OBVIOUS
<1> USE SubprocessConstants DEF Typed, SubprocessTypeOK, treeVars, streamVars
<1>1. ASSUME NEW m \in Members, Spawn(m) \/ Exit(m) PROVE Typed'
  BY <1>1 DEF Spawn, Exit
<1>2. ASSUME NEW s \in Streams, Write(s) PROVE Typed'
  BY <1>2 DEF Write
<1>3. ASSUME NEW s \in Streams, Drain(s) PROVE Typed'
  <2>1. PICK n \in 1..(written[s] - drained[s]) :
          /\ drained' = [drained EXCEPT ![s] = drained[s] + n]
          /\ buffer' = [buffer EXCEPT ![s] = IF n <= Limit - buffer[s] THEN buffer[s] + n ELSE Limit]
          /\ truncated' = [truncated EXCEPT ![s] = truncated[s] \/ n > Limit - buffer[s]]
    BY <1>3, DrainTakes
  <2>2. drained' \in [Streams -> 0..Demand] /\ \A q \in Streams : drained'[q] <= written[q]
    BY <2>1
  <2>3. buffer' \in [Streams -> 0..Limit]
    BY <2>1
  <2>4. truncated' \in [Streams -> BOOLEAN]
    BY <2>1
  <2>5. UNCHANGED <<setting, pc, alive, spawned, termed, reaped, noticed, timed_out, written, drain>>
    BY <1>3 DEF Drain
  <2> QED
    BY <2>2, <2>3, <2>4, <2>5
<1>4. ASSUME NEW s \in Streams, DrainEOF(s) PROVE Typed'
  BY <1>4 DEF DrainEOF
<1>5. CASE Reap \/ Notice \/ WaitEnds \/ TermEnds \/ KillEnds
  BY <1>5 DEF Reap, Notice, WaitEnds, TermEnds, KillEnds
<1>6. CASE Timeout
  BY <1>6 DEF Timeout, Members, Group
<1>7. CASE KillGrace \/ Finish
  BY <1>7 DEF KillGrace, Finish
<1>8. CASE DrainGrace
  BY <1>8 DEF DrainGrace
<1>9. CASE UNCHANGED vars
  BY <1>9 DEF vars
<1> QED
  BY <1>1, <1>2, <1>3, <1>4, <1>5, <1>6, <1>7, <1>8, <1>9 DEF Next, Tree, Loop

(* No step leaves a buffer above its cap, or what was read above what was  *)
(* written, or a flag that is not one.                                     *)
THEOREM SubprocessTypeOKHolds == Spec => []SubprocessTypeOK
PROOF
<1>1. Typed => SubprocessTypeOK
  BY DEF Typed
<1> QED
  BY <1>1, TypedInit, TypedStep, PTL DEF Spec

----------------------------------------------------------------------------
(* What a drainer has is the first Limit bytes of what it read.            *)
Captured(s) ==
  /\ buffer[s] = (IF drained[s] <= Limit THEN drained[s] ELSE Limit)
  /\ truncated[s] = (drained[s] > Limit)

CaptureInv == \A s \in Streams : Captured(s)

LEMMA CaptureInit == Init => CaptureInv
PROOF
<1> SUFFICES ASSUME Init, NEW s \in Streams PROVE Captured(s)
  BY DEF CaptureInv
<1>1. drained[s] = 0 /\ buffer[s] = 0 /\ truncated[s] = FALSE
  BY DEF Init
<1>2. 0 <= Limit /\ (0 > Limit) = FALSE
  BY SubprocessConstants
<1> QED
  BY <1>1, <1>2 DEF Captured

LEMMA CaptureStep == Typed /\ CaptureInv /\ [Next]_vars => CaptureInv'
PROOF
<1> SUFFICES ASSUME Typed, CaptureInv, [Next]_vars PROVE CaptureInv'
  OBVIOUS
<1> USE DEF CaptureInv, Captured
<1>1. ASSUME NEW s \in Streams, Drain(s) PROVE CaptureInv'
  <2>1. PICK n \in 1..(written[s] - drained[s]) :
          /\ drained' = [drained EXCEPT ![s] = drained[s] + n]
          /\ buffer' = [buffer EXCEPT ![s] = IF n <= Limit - buffer[s] THEN buffer[s] + n ELSE Limit]
          /\ truncated' = [truncated EXCEPT ![s] = truncated[s] \/ n > Limit - buffer[s]]
    BY <1>1, DrainTakes
  <2>2. /\ written[s] \in Int /\ drained[s] \in Int /\ n \in Int /\ n > 0 /\ Limit \in Nat
        /\ drained \in [Streams -> Int] /\ buffer \in [Streams -> Int] /\ truncated \in [Streams -> BOOLEAN]
    BY SubprocessConstants DEF Typed, SubprocessTypeOK
  <2>3. ASSUME NEW q \in Streams, q # s PROVE Captured(q)'
    BY <2>1, <2>2, <2>3
  <2>4. Captured(s)'
    <3>1. drained'[s] = drained[s] + n
      BY <2>1, <2>2
    <3>2. buffer'[s] = IF n <= Limit - buffer[s] THEN buffer[s] + n ELSE Limit
      BY <2>1, <2>2
    <3>3. truncated'[s] = (truncated[s] \/ n > Limit - buffer[s])
      BY <2>1, <2>2
    <3>4. buffer'[s] = IF drained'[s] <= Limit THEN drained'[s] ELSE Limit
      BY <2>2, <3>1, <3>2
    <3>5. (truncated[s] \/ n > Limit - buffer[s]) <=> drained[s] + n > Limit
      BY <2>2
    <3>6. truncated'[s] = (drained'[s] > Limit)
      BY <3>1, <3>3, <3>5
    <3> QED
      BY <3>4, <3>6
  <2> QED
    BY <2>3, <2>4
<1>2. CASE UNCHANGED <<drained, buffer, truncated>>
  BY <1>2
<1>3. (\E s \in Streams : Drain(s)) \/ UNCHANGED <<drained, buffer, truncated>>
  BY DEF Next, Tree, Loop, Spawn, Exit, Write, Reap, Notice, DrainEOF, WaitEnds, Timeout, TermEnds, KillGrace,
         KillEnds, Finish, DrainGrace, vars, treeVars, streamVars
<1> QED
  BY <1>1, <1>2, <1>3

(* Capture is exact and the flag honest, wherever the cap falls in a chunk,*)
(* also when the drainer is cancelled in the middle.                       *)
THEOREM CaptureExactHolds == Spec => []CaptureExact
PROOF
<1>1. Typed /\ CaptureInv => CaptureExact
  <2> SUFFICES ASSUME Typed, CaptureInv, NEW s \in Streams
               PROVE  buffer[s] = Min({drained[s], Limit}) /\ (truncated[s] <=> drained[s] > Limit)
    BY DEF CaptureExact
  <2>1. Min({drained[s], Limit}) = IF drained[s] <= Limit THEN drained[s] ELSE Limit
    BY MinOfTwo, SubprocessConstants DEF Typed, SubprocessTypeOK
  <2> QED
    BY <2>1 DEF CaptureInv, Captured
<1> QED
  BY <1>1, TypedInit, TypedStep, CaptureInit, CaptureStep, PTL DEF Spec
===============================================================================
