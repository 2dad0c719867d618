------------------------------ MODULE MCKernel ------------------------------
(* Instances of the kernel: the calls that each run puts together, and the *)
(* priorities the tasks have.                                              *)
EXTENDS Kernel

MCTwoPriorities == {0, 1}

(* All tasks but the two that exist from the start are made by CreateTask. *)
Symmetry == Permutations(Task \ {Main, Null})

MCScheduling ==
  {"create", "start", "yield", "setprio", "wait", "signal", "atomic", "disable", "device", "clock"}
MCDeletion == {"create", "start", "wait", "delete", "send", "fpu", "clock"}
MCBlocking ==
  {"create", "start", "suspend", "ready", "yield", "delay", "send", "receive",
   "wait", "signal", "flush", "device", "clock"}

MCQueues == {"create", "start", "wait", "signal", "queues", "delete", "device", "clock"}

MCSafety == {MCScheduling, MCDeletion, MCQueues, MCBlocking}
MCTime == {{"create", "start", "delay", "wait", "atomic", "clock"}}

Unborn == {t \in Task : k.state[t] = "Unborn"}

(* Timeouts race between two tasks and a device; what else tasks do is     *)
(* looked at with three tasks, and without timeouts.                       *)
Instance ==
  IF calls = MCBlocking THEN Unborn # {} /\ int_level <= 1 ELSE k.time_q = <<>>

=============================================================================
