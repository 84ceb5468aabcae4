------------------------------ MODULE Subprocess ------------------------------
(***************************************************************************)
(* utils/asyncio_subprocess.py: run_subprocess, one call of it, with the   *)
(* process tree it starts.                                                 *)
(*                                                                         *)
(* The tree is the direct child, which leads its own process group, a kid  *)
(* in that group and a stray that left it (a daemon with its own session). *)
(* Every living member holds the write ends of the pipes.  Time is left    *)
(* out: a timer that is running may fire at any moment, before or after    *)
(* whatever it races.                                                      *)
(***************************************************************************)
EXTENDS Integers, FiniteSets, FiniteSetsExt

CONSTANTS
  Streams,     \* the captured streams, stdout and stderr
  Limit,       \* capture_limit, in bytes
  Chunk,       \* _READ_CHUNK
  PipeSize,    \* what a pipe holds before a writer blocks
  Demand       \* bytes each stream gets in all (bounds the model)

Members == {"child", "kid", "stray"}
Group   == {"child", "kid"}

ASSUME SubprocessConstants ==
  /\ Limit \in Nat /\ Demand \in Nat
  /\ Chunk \in Nat \ {0} /\ PipeSize \in Nat \ {0}

VARIABLES
  setting,    \* of the call, fixed: was a timeout given, and is this Windows?
  pc,         \* where run_subprocess awaits
  alive,      \* members that run
  spawned,    \* members that were ever started
  termed,     \* members SIGTERM was delivered to
  reaped,     \* waitpid was done for the child: its pid is free again
  noticed,    \* the event loop has learned of the exit (proc.returncode is set)
  timed_out,  \* the result's flag
  written,    \* [Streams -> bytes the tree has written]
  drained,    \* [Streams -> bytes the drainer has read]
  buffer,     \* [Streams -> bytes it retained]
  truncated,  \* [Streams -> the result's flag]
  drain       \* [Streams -> "reading", "eof", "cancelled"]

treeVars   == <<alive, spawned, termed, reaped, noticed>>
streamVars == <<written, drained, buffer, truncated, drain>>
vars       == <<setting, pc, alive, spawned, termed, reaped, noticed, timed_out,
                written, drained, buffer, truncated, drain>>

HasTimeout == setting.timeout
IsWindows  == setting.windows

SubprocessTypeOK ==
  /\ setting \in [timeout : BOOLEAN, windows : BOOLEAN]
  /\ pc \in {"waiting", "terminating", "killing", "draining", "returned"}
  /\ alive \subseteq spawned /\ spawned \subseteq Members /\ termed \subseteq Members
  /\ reaped \in BOOLEAN /\ noticed \in BOOLEAN
  /\ timed_out \in BOOLEAN
  /\ written \in [Streams -> 0..Demand] /\ drained \in [Streams -> 0..Demand]
  /\ buffer \in [Streams -> 0..Limit] /\ truncated \in [Streams -> BOOLEAN]
  /\ drain \in [Streams -> {"reading", "eof", "cancelled"}]

Init ==
  /\ setting \in [timeout : BOOLEAN, windows : BOOLEAN]
  /\ pc = "waiting"
  /\ alive = {"child"} /\ spawned = {"child"} /\ termed = {}
  /\ reaped = FALSE /\ noticed = FALSE
  /\ timed_out = FALSE
  /\ written = [s \in Streams |-> 0] /\ drained = [s \in Streams |-> 0]
  /\ buffer = [s \in Streams |-> 0] /\ truncated = [s \in Streams |-> FALSE]
  /\ drain = [s \in Streams |-> "reading"]
-----------------------------------------------------------------------------
(* The tree: what the started program and its descendants may do *)

Spawn(m) ==
  /\ "child" \in alive
  /\ m \notin spawned
  /\ spawned' = spawned \cup {m}
  /\ alive' = alive \cup {m}
  /\ UNCHANGED <<pc, termed, reaped, noticed, timed_out, setting, streamVars>>

\* A write blocks while the pipe is full.
Write(s) ==
  /\ alive # {}
  /\ written[s] < Demand
  /\ written[s] - drained[s] < PipeSize
  /\ written' = [written EXCEPT ![s] = @ + 1]
  /\ UNCHANGED <<pc, treeVars, timed_out, setting, drained, buffer, truncated, drain>>

\* A program ends by itself once it wrote what it had to, or of SIGTERM; it may
\* also ignore SIGTERM, or simply hang.
Exit(m) ==
  /\ m \in alive
  /\ m \in termed \/ \A s \in Streams : written[s] = Demand
  /\ alive' = alive \ {m}
  /\ UNCHANGED <<pc, spawned, termed, reaped, noticed, timed_out, setting, streamVars>>

\* The child watcher (a thread, or a pidfd callback) reaps the zombie and posts
\* the exit to the event loop, which handles it in a later iteration.
Reap ==
  /\ "child" \notin alive
  /\ ~reaped
  /\ reaped' = TRUE
  /\ UNCHANGED <<pc, alive, spawned, termed, noticed, timed_out, setting, streamVars>>

Notice ==
  /\ reaped
  /\ ~noticed
  /\ noticed' = TRUE
  /\ UNCHANGED <<pc, alive, spawned, termed, reaped, timed_out, setting, streamVars>>
-----------------------------------------------------------------------------
(* _StreamDrainer.run *)

\* Mutant: a chunk that fills the buffer exactly counts as truncated.
DrainOffByOne(s) ==
  /\ drain[s] = "reading"
  /\ \E n \in 1..Min({Chunk, written[s] - drained[s]}) :
       LET room == Limit - buffer[s]
       IN  /\ drained' = [drained EXCEPT ![s] = @ + n]
           /\ buffer' = [buffer EXCEPT ![s] = @ + Min({n, room})]
           /\ truncated' = [truncated EXCEPT ![s] = @ \/ n >= room]
  /\ UNCHANGED <<pc, treeVars, timed_out, setting, written, drain>>

\* One read() returns what is there, at most a chunk; past the cap it is
\* discarded, so the writer is never left blocking.
Drain(s) ==
  /\ drain[s] = "reading"
  /\ \E n \in 1..Min({Chunk, written[s] - drained[s]}) :
       LET room == Limit - buffer[s]
       IN  /\ drained' = [drained EXCEPT ![s] = @ + n]
           /\ buffer' = [buffer EXCEPT ![s] = @ + Min({n, room})]
           /\ truncated' = [truncated EXCEPT ![s] = @ \/ n > room]
  /\ UNCHANGED <<pc, treeVars, timed_out, setting, written, drain>>

\* EOF: nobody holds the write end and the pipe is empty.
DrainEOF(s) ==
  /\ drain[s] = "reading"
  /\ alive = {}
  /\ written[s] = drained[s]
  /\ drain' = [drain EXCEPT ![s] = "eof"]
  /\ UNCHANGED <<pc, treeVars, timed_out, setting, written, drained, buffer, truncated>>
-----------------------------------------------------------------------------
(* run_subprocess and _terminate_tree *)

\* wait_for(proc.wait(), timeout) ends with the exit.
WaitEnds ==
  /\ pc = "waiting"
  /\ noticed
  /\ pc' = "draining"
  /\ UNCHANGED <<treeVars, timed_out, setting, streamVars>>

\* wait_for times out.  The exit may be on its way to the loop already.
\* POSIX: SIGTERM to the group.  Windows: taskkill /F /T, best effort below the
\* child; when it cannot be started, proc.kill() alone.
Timeout ==
  /\ pc = "waiting"
  /\ HasTimeout
  /\ timed_out' = TRUE
  /\ IF IsWindows
     THEN /\ pc' = "killing"
          /\ \E missed \in SUBSET (alive \ {"child"}) : alive' = missed
          /\ UNCHANGED termed
     ELSE /\ pc' = "terminating"
          /\ termed' = termed \cup (alive \cap Group)
          /\ UNCHANGED alive
  /\ UNCHANGED <<spawned, reaped, noticed, setting, streamVars>>

\* The child went within kill_grace: nobody looks at the rest of its group.
TermEnds ==
  /\ pc = "terminating"
  /\ noticed
  /\ pc' = "draining"
  /\ UNCHANGED <<treeVars, timed_out, setting, streamVars>>

\* Mutant: the grace expires and the child is left alone.
KillGraceNoKill ==
  /\ pc = "terminating"
  /\ pc' = "killing"
  /\ UNCHANGED <<treeVars, timed_out, setting, streamVars>>

\* kill_grace expires: SIGKILL to the group.
KillGrace ==
  /\ pc = "terminating"
  /\ pc' = "killing"
  /\ alive' = alive \ Group
  /\ UNCHANGED <<setting, spawned, termed, reaped, noticed, timed_out, streamVars>>

\* Mutant: after SIGKILL the child is not waited for.
KillEndsUnreaped ==
  /\ pc = "killing"
  /\ pc' = "draining"
  /\ UNCHANGED <<treeVars, timed_out, setting, streamVars>>

\* The last wait has no timeout of its own.
KillEnds ==
  /\ pc = "killing"
  /\ noticed
  /\ pc' = "draining"
  /\ UNCHANGED <<treeVars, timed_out, setting, streamVars>>

\* _finish_drain: both drainers are through.
Finish ==
  /\ pc = "draining"
  /\ \A s \in Streams : drain[s] = "eof"
  /\ pc' = "returned"
  /\ UNCHANGED <<treeVars, timed_out, setting, streamVars>>

\* drain_grace expires: what is still being read is cancelled, not lost.
DrainGrace ==
  /\ pc = "draining"
  /\ pc' = "returned"
  /\ drain' = [s \in Streams |-> IF drain[s] = "reading" THEN "cancelled" ELSE drain[s]]
  /\ UNCHANGED <<treeVars, timed_out, setting, written, drained, buffer, truncated>>

Tree == (\E m \in Members : Spawn(m) \/ Exit(m)) \/ (\E s \in Streams : Write(s))
Loop == \/ Notice \/ WaitEnds \/ Timeout \/ TermEnds \/ KillGrace \/ KillEnds
        \/ Finish \/ DrainGrace
Next == Tree \/ Reap \/ Loop \/ \E s \in Streams : Drain(s) \/ DrainEOF(s)

Spec == Init /\ [][Next]_vars

\* The event loop and its timers run, the kernel and the watcher do their part.
LoopFairness ==
  /\ WF_vars(Reap)
  /\ WF_vars(Loop)
  /\ \A s \in Streams : WF_vars(Drain(s)) /\ WF_vars(DrainEOF(s))

\* Without a timeout the call depends on the program: one that wants to write
\* and is not blocked does, and then ends.  With a timeout nothing is assumed.
ProgramFairness ==
  /\ \A s \in Streams : WF_vars(~HasTimeout /\ Write(s))
  /\ WF_vars(~HasTimeout /\ Exit("child"))

FairSpec == Spec /\ LoopFairness /\ ProgramFairness
-----------------------------------------------------------------------------
\* No result is handed out for a child that is still running or a zombie.
ReturnsReaped == pc = "returned" => "child" \notin alive /\ reaped /\ noticed

\* What is retained is exactly the first Limit bytes read, and the flag is set
\* exactly when something was discarded, however the chunks fall.
CaptureExact ==
  \A s \in Streams :
    /\ buffer[s] = Min({drained[s], Limit})
    /\ truncated[s] <=> drained[s] > Limit

\* With a timeout the call returns, whatever the tree does: ignore SIGTERM,
\* hang, flood the pipe, or keep it open from outside the group.  Without one
\* it returns if the program would end: draining past the cap never blocks it.
AlwaysReturns == <>(pc = "returned")
=============================================================================
