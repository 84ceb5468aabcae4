------------------------------ MODULE MCReplay ------------------------------
(***************************************************************************)
(* Runs of two tests for TLC: one that passed, one that failed in which    *)
(* jest saw a title twice, and one that was interrupted.                   *)
(***************************************************************************)
EXTENDS Replay

Result(t, o) == [test |-> t, outcome |-> o]
Made(verdict, results) == [status |-> verdict, results |-> results]

MCRuns == 1..Last
MCRecords ==
  {Made("passed", <<Result("a", "passed"), Result("b", "passed")>>),
   Made("failed", <<Result("a", "failed"), Result("a", "passed"), Result("b", "passed")>>),
   Made("errored", <<Result("a", "passed"), Result("b", "errored")>>)}
MCReruns == {-1, 1, 2}
=============================================================================
