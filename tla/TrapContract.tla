---------------------------- MODULE TrapContract ----------------------------
(***************************************************************************)
(* What a trap does, as the tasks see it (spec sections 4.4, 4.5 and 7),  *)
(* without the frames, the IPSR or the privilege bit: the core runs the   *)
(* scheduler's current task; a trap may hand the core to another live     *)
(* task, give the current task the head of its event queue, kill the     *)
(* current task after a fault from user mode and elect a live one, route *)
(* an IRQ event to the task owning its device, or halt the kernel.        *)
(*                                                                         *)
(* userisr_handler() tests the push result with == K_STATUS_OKAY and so   *)
(* panics after a successful push: the contract lets a routed event be    *)
(* followed by a halt in the same step.  Dispatch implements it, under    *)
(* the mapping given there.                                                *)
(***************************************************************************)
EXTENDS Integers, Sequences

CONSTANTS
  Tasks,      \* task handles, the idle task included
  Idle,       \* the idle task
  Irqs,       \* peripheral IRQ lines
  IrqOwner,   \* the task owning the device of each IRQ, or NoOwner
  NoOwner,
  QueueCap    \* capacity of a task's input event queue

READY == "READY"
FAULT == "FAULT"

VARIABLES
  cur,     \* the task the core runs, or resumes after the trap
  tstate,  \* task states
  queue,   \* per-task input event queues
  up       \* the kernel has not halted

vars == <<cur, tstate, queue, up>>

(* The tasks the scheduler may hand the core to: live ones, and idle.     *)
Alive(ts) == {t \in Tasks : t = Idle \/ ts[t] = READY}

Init ==
  /\ cur \in Tasks
  /\ tstate = [t \in Tasks |-> READY]
  /\ queue = [t \in Tasks |-> <<>>]
  /\ up = TRUE

(* A system call or the tick hands the core to a live task.               *)
Preempt ==
  /\ up
  /\ cur' \in Alive(tstate)
  /\ UNCHANGED <<tstate, queue, up>>

(* A system call of the current task takes the head of its queue.         *)
Consume ==
  /\ up /\ queue[cur] # <<>>
  /\ queue' = [queue EXCEPT ![cur] = Tail(@)]
  /\ UNCHANGED <<cur, tstate, up>>

(* may_panic() on a fault from user mode: the current task is marked      *)
(* FAULT and the core goes to a task that is live afterwards.             *)
KillCurrent ==
  /\ up
  /\ tstate' = [tstate EXCEPT ![cur] = FAULT]
  /\ cur' \in Alive(tstate')
  /\ UNCHANGED <<queue, up>>

(* userisr_handler(): the event of an IRQ is appended to the queue of the *)
(* live task owning its device, if there is room; the kernel may then     *)
(* halt.                                                                   *)
Route ==
  /\ up
  /\ \E i \in Irqs :
       LET owner == IrqOwner[i]
       IN  /\ owner \in Tasks /\ tstate[owner] = READY
           /\ Len(queue[owner]) < QueueCap
           /\ queue' = [queue EXCEPT ![owner] = Append(@, i)]
  /\ up' \in BOOLEAN
  /\ UNCHANGED <<cur, tstate>>

(* A hard fault, a fault from kernel mode or an IRQ with no owner: the    *)
(* kernel halts.                                                           *)
Halt ==
  /\ up /\ up' = FALSE
  /\ UNCHANGED <<cur, tstate, queue>>

Next == Preempt \/ Consume \/ KillCurrent \/ Route \/ Halt

Spec == Init /\ [][Next]_vars

=============================================================================
