CONSTANTS
  Task = {main, null, t1, t2}
  Main = main
  Null = null
  WaitQ = {q1}
  ReadyQ = ready_q
  TerminatedQ = terminated_q
  NoQueue = NoQueue
  NoTask = NoTask
  Priority <- MCTwoPriorities
  DEFAULT_PRIO = 1
  QUANTUM = 1
  Uses <- MCSafety
  Delays = {1, 2}
  FOREVER = FOREVER
  MaxLevel = 2
  MaxNest = 1
SPECIFICATION Spec
CONSTRAINT Instance
SYMMETRY Symmetry
INVARIANTS QueuesAgree StatesAgree PriorityScheduling InterruptFlag NobodyStranded LazyFpu
  TrueMeansGranted RendezvousMeets
PROPERTIES AtomicKeepsCPU FirstComeFirst
