CONSTANTS
  r1 = r1
  r2 = r2
  w1 = w1
  Task = {r1, r2, w1}
  Readers = {r1, r2}
  Writers = {w1}
  prio <- MCprio
  Sizes <- MCDrain
  Size = 2
  Byte = {a, b}
  mon = mon
  cond_get = cond_get
  cond_put = cond_put
  Sem = {mon}
  Cond = {cond_get, cond_put}
  FOREVER = FOREVER
  NoTask = NoTask
SPECIFICATION Spec
SYMMETRY Symmetry
INVARIANTS MutualExclusion NoLostWakeup
PROPERTIES ImplementsChannel
