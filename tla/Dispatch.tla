------------------------------ MODULE Dispatch ------------------------------
(***************************************************************************)
(* Trap and interrupt dispatch of the Sentry kernel on Cortex-M:          *)
(* Default_Handler() = save_context(); Default_SubHandler(); and          *)
(* restore_context() (src/kernel/src/arch/asm-cortex-m/handler.c), with   *)
(* the fault policy may_panic() and the user interrupt path               *)
(* userisr_handler() (src/kernel/src/managers/interrupt/interrupt.c).     *)
(*                                                                         *)
(* One core: a task runs in thread mode on its process stack (PSP) until  *)
(* an exception is taken; save_context() masks interrupts (cpsid i), so   *)
(* the three steps of a trap are never interleaved with another trap.     *)
(* A saved register frame is identified by the task it belongs to.        *)
(*                                                                         *)
(* The scheduler (sched_get_current/sched_elect), the task manager's      *)
(* event queues, the device directory and the Rust SVC and the systick   *)
(* handlers are not under src/: they are modelled from their contracts   *)
(* in the spec (sections 4.3, 4.5, 6).                                    *)
(***************************************************************************)
EXTENDS Integers, Sequences

CONSTANTS
  Tasks,       \* task handles, the idle task included
  Idle,        \* the idle task, which sched_elect() falls back to
  Devices,     \* device handles
  Irqs,        \* peripheral IRQ lines (IRQn >= 0) that may fire
  DevOfIrq,    \* mgr_device_get_devh_from_interrupt(): IRQ -> device
  OwnerOfDev,  \* mgr_task_get_device_owner(): device -> task
  NoDev,       \* "no device owns this IRQ"
  NoOwner,     \* "no task owns this device"
  QueueCap     \* capacity of a task's input event queue

ASSUME DispatchConstants ==
  /\ Idle \in Tasks
  /\ Irqs \subseteq 0..(82 - 1)             \* __NVIC_VECTOR_LEN on STM32F4
  /\ DevOfIrq \in [Irqs -> Devices \cup {NoDev}]
  /\ OwnerOfDev \in [Devices -> Tasks \cup {NoOwner}]
  /\ NoDev \notin Devices /\ NoOwner \notin Tasks
  /\ QueueCap \in Nat \ {0}

(* IRQn_Type core exceptions (stm32f4/irq.h), after realignment.          *)
HARDFAULT_IRQ == -13
MEMMANAGE_IRQ == -12
USAGEFAULT_IRQ == -10
SVC_IRQ == -5
PENDSV_IRQ == -2
SYSTICK_IRQ == -1

(* Exception numbers the IPSR may hold when a task is interrupted: the    *)
(* core exceptions above (BusFault is not enabled and escalates to       *)
(* HardFault) and the peripheral interrupts, offset by the 16 core slots. *)
IpsrValues == {3, 4, 6, 11, 14, 15} \cup {n + 16 : n \in Irqs}
IPSR_ISR_Msk == 511

READY == "READY"
FAULT == "FAULT"

VARIABLES
  pc,        \* "thread" (a task runs), "saved", "dispatched", "halted"
  running,   \* the task executing in thread mode
  npriv,     \* CONTROL.nPRIV of thread mode: TRUE = unprivileged
  it,        \* the realigned exception number of the trap in progress
  lrPsp,     \* EXC_RETURN bit 2 of the trap: the interrupted code used PSP
  frame,     \* the saved frame r0 points to (the task it belongs to)
  current,   \* sched_get_current()
  tstate,    \* task state as the task manager keeps it
  queue      \* per-task input event queue, of IRQ numbers

vars == <<pc, running, npriv, it, lrPsp, frame, current, tstate, queue>>

-----------------------------------------------------------------------------
(* sched_elect(): a READY task, the idle task when there is none.        *)
Electable == IF \E t \in Tasks : tstate[t] = READY
               THEN {t \in Tasks : tstate[t] = READY}
               ELSE {Idle}

(* mgr_task_push_event(): fails when the queue is full or the task dead. *)
CanPush(t) == tstate[t] = READY /\ Len(queue[t]) < QueueCap

Init ==
  /\ pc = "thread"
  /\ running \in Tasks /\ current = running
  /\ npriv = TRUE
  /\ it = 0 /\ lrPsp = TRUE /\ frame = running
  /\ tstate = [t \in Tasks |-> READY]
  /\ queue = [t \in Tasks |-> <<>>]

(* Mutant: the exception number read from the IPSR without the -16       *)
(* realignment of Default_SubHandler().                                    *)
TrapEntryNoRealign ==
  /\ pc = "thread"
  /\ \E ipsr \in IpsrValues : it' = ipsr % (IPSR_ISR_Msk + 1)
  /\ lrPsp' = TRUE
  /\ frame' = running
  /\ pc' = "saved"
  /\ UNCHANGED <<running, npriv, current, tstate, queue>>

(* Exception entry and save_context(): mask interrupts, push r4-r11 and   *)
(* lr on the stack lr selects (a task is interrupted: the PSP), pass the  *)
(* frame to Default_SubHandler(), which reads and realigns the IPSR.      *)
TrapEntry ==
  /\ pc = "thread"
  /\ \E ipsr \in IpsrValues :
       it' = (ipsr % (IPSR_ISR_Msk + 1)) - 16
  /\ lrPsp' = TRUE
  /\ frame' = running
  /\ pc' = "saved"
  /\ UNCHANGED <<running, npriv, current, tstate, queue>>

(* hardfault_handler(): dump and __do_panic().                             *)
HardFault ==
  /\ pc = "saved" /\ it = HARDFAULT_IRQ
  /\ pc' = "halted"
  /\ UNCHANGED <<running, npriv, it, lrPsp, frame, current, tstate, queue>>

(* Mutant: may_panic() calls sched_elect() before                        *)
(* mgr_task_set_state(tsk, JOB_STATE_FAULT): the faulting task is still   *)
(* READY when the scheduler elects, and may be elected again.             *)
MayPanicElectBeforeFault ==
  /\ pc = "saved" /\ it \in {MEMMANAGE_IRQ, USAGEFAULT_IRQ}
  /\ IF lrPsp
       THEN \E next \in Electable :
              /\ tstate' = [tstate EXCEPT ![current] = FAULT]
              /\ current' = next
              /\ frame' = next
              /\ pc' = "dispatched"
       ELSE /\ pc' = "halted"
            /\ UNCHANGED <<tstate, current, frame>>
  /\ UNCHANGED <<running, npriv, it, lrPsp, queue>>

(* Mutant: may_panic() elects a new task but returns the frame it was    *)
(* given, as if mgr_task_get_sp() were left out.                           *)
MayPanicOldFrame ==
  /\ pc = "saved" /\ it \in {MEMMANAGE_IRQ, USAGEFAULT_IRQ}
  /\ IF lrPsp
       THEN LET ts == [tstate EXCEPT ![current] = FAULT]
                el == IF \E t \in Tasks : ts[t] = READY
                        THEN {t \in Tasks : ts[t] = READY} ELSE {Idle}
            IN  \E next \in el :
                  /\ tstate' = ts
                  /\ current' = next
                  /\ pc' = "dispatched"
                  /\ UNCHANGED frame
       ELSE /\ pc' = "halted"
            /\ UNCHANGED <<tstate, current, frame>>
  /\ UNCHANGED <<running, npriv, it, lrPsp, queue>>

(* may_panic(), called by memfault_handler() and usagefault_handler():   *)
(* a fault from user mode marks the current task FAULT and returns the   *)
(* frame of the task sched_elect() picks; a kernel-mode fault panics.     *)
MayPanic ==
  /\ pc = "saved" /\ it \in {MEMMANAGE_IRQ, USAGEFAULT_IRQ}
  /\ IF lrPsp
       THEN LET ts == [tstate EXCEPT ![current] = FAULT]
                el == IF \E t \in Tasks : ts[t] = READY
                        THEN {t \in Tasks : ts[t] = READY} ELSE {Idle}
            IN  \E next \in el :
                  /\ tstate' = ts
                  /\ current' = next
                  /\ frame' = next
                  /\ pc' = "dispatched"
       ELSE /\ pc' = "halted"
            /\ UNCHANGED <<tstate, current, frame>>
  /\ UNCHANGED <<running, npriv, it, lrPsp, queue>>

(* svc_handler() -> svc_handler_rs(): the system call either returns to  *)
(* the caller, possibly after taking the head of its event queue, or     *)
(* blocks it and returns the frame of an elected task.                   *)
Svc ==
  /\ pc = "saved" /\ it = SVC_IRQ
  /\ \/ /\ \/ UNCHANGED queue
           \/ queue[current] # <<>> /\ queue' = [queue EXCEPT ![current] = Tail(@)]
        /\ UNCHANGED <<current, frame>>
     \/ /\ \E next \in Electable : current' = next /\ frame' = next
        /\ UNCHANGED queue
  /\ pc' = "dispatched"
  /\ UNCHANGED <<running, npriv, it, lrPsp, tstate>>

(* systick_handler(): the tick may preempt the current task.             *)
Systick ==
  /\ pc = "saved" /\ it = SYSTICK_IRQ
  /\ \E next \in Electable \cup {current} : current' = next /\ frame' = next
  /\ pc' = "dispatched"
  /\ UNCHANGED <<running, npriv, it, lrPsp, tstate, queue>>

(* default: a negative number with no case (PendSV, NMI) is a no-op.     *)
OtherException ==
  /\ pc = "saved" /\ it < 0
  /\ it \notin {HARDFAULT_IRQ, MEMMANAGE_IRQ, USAGEFAULT_IRQ, SVC_IRQ,
                SYSTICK_IRQ}
  /\ pc' = "dispatched"
  /\ UNCHANGED <<running, npriv, it, lrPsp, frame, current, tstate, queue>>

(* Mutant: the event pushed to the current task instead of the owner.   *)
UserIsrToCurrent ==
  /\ pc = "saved" /\ it >= 0
  /\ LET dev   == DevOfIrq[it]
         owner == OwnerOfDev[dev]
     IN  IF dev = NoDev \/ owner = NoOwner
           THEN pc' = "halted" /\ UNCHANGED queue
           ELSE IF CanPush(current)
                  THEN /\ queue' = [queue EXCEPT ![current] = Append(@, it)]
                       /\ pc' = "halted"
                  ELSE pc' = "dispatched" /\ UNCHANGED queue
  /\ UNCHANGED <<running, npriv, it, lrPsp, frame, current, tstate>>

(* userisr_handler(frame, it): device of the IRQ, owner of the device,   *)
(* push of the IRQ event to the owner.  Each missing link panics; the    *)
(* push result is tested with == K_STATUS_OKAY, so a successful push     *)
(* panics and a failed one returns the frame.                            *)
UserIsr ==
  /\ pc = "saved" /\ it >= 0
  /\ LET dev   == DevOfIrq[it]
         owner == OwnerOfDev[dev]
     IN  IF dev = NoDev \/ owner = NoOwner
           THEN pc' = "halted" /\ UNCHANGED queue
           ELSE IF CanPush(owner)
                  THEN /\ queue' = [queue EXCEPT ![owner] = Append(@, it)]
                       /\ pc' = "halted"
                  ELSE pc' = "dispatched" /\ UNCHANGED queue
  /\ UNCHANGED <<running, npriv, it, lrPsp, frame, current, tstate>>

(* restore_context(): pop r4-r11 and lr from the returned frame; a frame  *)
(* returning to the PSP sets CONTROL to 2 + (r1 >= 1), r1 being whatever  *)
(* Default_SubHandler() left in it, then cpsie i and exception return.    *)
RestoreContext ==
  /\ pc = "dispatched"
  /\ \E r1IsZero \in BOOLEAN : npriv' = ~r1IsZero
  /\ running' = frame
  /\ pc' = "thread"
  /\ UNCHANGED <<it, lrPsp, frame, current, tstate, queue>>

(* After __do_panic() / panic() the core spins: nothing happens.          *)
Halted == pc = "halted" /\ UNCHANGED vars

Next ==
  \/ TrapEntry
  \/ HardFault
  \/ MayPanic
  \/ Svc
  \/ Systick
  \/ OtherException
  \/ UserIsr
  \/ RestoreContext
  \/ Halted

Spec == Init /\ [][Next]_vars

-----------------------------------------------------------------------------
TypeOK ==
  /\ pc \in {"thread", "saved", "dispatched", "halted"}
  /\ running \in Tasks /\ frame \in Tasks /\ current \in Tasks
  /\ npriv \in BOOLEAN /\ lrPsp \in BOOLEAN
  /\ it \in {n - 16 : n \in IpsrValues} \cup {0}
  /\ tstate \in [Tasks -> {READY, FAULT}]
  /\ queue \in [Tasks -> Seq(Irqs)]

(* Whenever a task runs, it is the task the scheduler thinks is current, *)
(* and, unless it is the idle fallback, it has not faulted: a fault      *)
(* handled by may_panic() never returns into the faulting task, and every *)
(* frame a handler returns belongs to the task it made current.           *)
RunningIsCurrentAndAlive ==
  pc = "thread" =>
    /\ running = current
    /\ running # Idle => tstate[running] = READY

(* An event in a task's input queue is an IRQ of a device that task      *)
(* owns: userisr_handler() routes through the device directory, never to *)
(* whoever happens to be running.                                         *)
EventsOnlyForOwner ==
  \A t \in Tasks : \A i \in 1..Len(queue[t]) :
    /\ DevOfIrq[queue[t][i]] # NoDev
    /\ OwnerOfDev[DevOfIrq[queue[t][i]]] = t

(* Interrupt routing as spec 4.4 and 7 state it: an IRQ with no device or *)
(* no owning task halts the kernel; otherwise its event is pushed to the *)
(* owner's queue and the handler returns, and a push that fails halts    *)
(* the kernel rather than dropping the interrupt.                        *)
IrqRoutedPerSpec ==
  [][(pc = "saved" /\ it >= 0 /\ pc' # "saved") =>
       LET dev   == DevOfIrq[it]
           owner == OwnerOfDev[dev]
       IN  IF dev = NoDev \/ owner = NoOwner THEN pc' = "halted"
           ELSE IF CanPush(owner)
                  THEN /\ pc' = "dispatched"
                       /\ queue' = [queue EXCEPT ![owner] = Append(@, it)]
                  ELSE pc' = "halted"]_vars

(* A task is always resumed unprivileged: restore_context() returning to *)
(* the PSP leaves CONTROL.nPRIV set.                                       *)
TasksResumeUnprivileged == pc = "thread" => npriv

-----------------------------------------------------------------------------
(* The refinement mapping to TrapContract: the task the core runs or      *)
(* resumes is the scheduler's current task; the kernel is up until it     *)
(* halts; an IRQ's owner is the owner of its device in the directory.    *)
IrqOwnerBar ==
  [i \in Irqs |-> IF DevOfIrq[i] = NoDev THEN NoOwner
                  ELSE OwnerOfDev[DevOfIrq[i]]]

Contract == INSTANCE TrapContract WITH
              cur <- current, up <- pc # "halted", IrqOwner <- IrqOwnerBar

(* The save, dispatch and restore of a trap implement TrapContract: the   *)
(* frames, the IPSR realignment and CONTROL are invisible to the tasks,   *)
(* which only ever see the core handed to a live task, their own events   *)
(* consumed, the faulting task killed, events routed to their owner, or a *)
(* halt.                                                                   *)
ImplementsTrapContract == Contract!Spec

=============================================================================
