CONSTANTS
  NF = 5
  Task <- MCTask
  prio <- MCprio
  mon = mon
  all = all
  own <- MCown
  Sem = {mon}
  Cond <- MCCond
  FOREVER = FOREVER
  NoTask = NoTask
SPECIFICATION FairSpec
INVARIANTS ForksAgree WakeupDue
PROPERTIES ImplementsDining FeastGoesOn
