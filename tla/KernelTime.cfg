CONSTANTS
  Task = {main, null, t1, t2}
  Main = main
  Null = null
  WaitQ = {q1}
  ReadyQ = ready_q
  TerminatedQ = terminated_q
  NoQueue = NoQueue
  NoTask = NoTask
  Priority <- MCTwoPriorities
  DEFAULT_PRIO = 1
  QUANTUM = 1
  Uses <- MCTime
  Delays = {2}
  FOREVER = FOREVER
  MaxLevel = 1
  MaxNest = 1
SPECIFICATION FairSpec
PROPERTIES TimedWaitsEnd RoundRobin
