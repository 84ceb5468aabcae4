SPECIFICATION Spec
CONSTANTS
  Tests = {t1, t2}
  MaxRuns = 2
  Machines <- MCMachines
  Requests <- MCRequests
  FirstPins = {"none"}
INVARIANTS
  ReadyIsRunnable
  FailingSuiteNeverPasses
  PassedMeansRun
  EnginesAgree
