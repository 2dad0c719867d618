CONSTANTS
  l1 = l1
  l2 = l2
  r1 = r1
  l3 = l3
  control = control
  Left = {l1, l2, l3}
  Right = {r1}
  Task = {l1, l2, l3, r1, control}
  prio <- MCprio
  SENSOR1_POS = 1
  BARRIER_POS = 3
  ONEWAY_START = 4
  ONEWAY_END = 4
  SENSOR2_POS = 5
  ROAD_END = 6
  PASS_MAX = 1
  mail_empty = mail_empty
  mail_full = mail_full
  send_queue = send_queue
  Sem = {mail_empty, mail_full}
  Cond = {send_queue}
  FOREVER = FOREVER
  NoMsg = NoMsg
SPECIFICATION FairSpec
INVARIANTS OneWay CellsAgree CountsAgree Flows
CHECK_DEADLOCK FALSE
PROPERTIES NoStarvation
