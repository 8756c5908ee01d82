SPECIFICATION FairSpec
CONSTANTS
  Worker = {w1, w2}
  Job = {j1}
  Main = Main
  Handler = Handler
  NoThread = NoThread
  NoJob = NoJob
CHECK_DEADLOCK FALSE
PROPERTIES WorkersStop
