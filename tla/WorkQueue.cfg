SPECIFICATION SchedSpec
CONSTANTS
  Worker = {w1, w2, w3}
  Job = {j1, j2}
  Main = Main
  Handler = Handler
  NoThread = NoThread
  NoJob = NoJob
CHECK_DEADLOCK FALSE
INVARIANTS EnoughAwake EveryWorkerIsTold
PROPERTIES ImplementsJobPool JobsStart ShutdownReturns
