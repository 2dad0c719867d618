CONSTANTS
  Task = {g1, g2, p1}
  Getters = {g1, g2}
  Putters = {p1}
  Device = device
  msg_max = 2
  Msg = {a, b}
  prio <- MCprio
  sem_get = sem_get
  sem_put = sem_put
  mutex_get = mutex_get
  mutex_put = mutex_put
  Sem = {sem_get, sem_put, mutex_get, mutex_put}
  Cond = {}
  FOREVER = FOREVER
  NoTask = NoTask
SPECIFICATION FairSpec
CHECK_DEADLOCK FALSE
INVARIANTS PlacesConserved MutexAgrees
PROPERTIES ImplementsChannel Served
