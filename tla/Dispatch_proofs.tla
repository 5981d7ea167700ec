--------------------------- MODULE Dispatch_proofs ---------------------------
(***************************************************************************)
(* Proofs about trap dispatch (Dispatch), for every set of tasks, IRQ     *)
(* lines, device directory and queue capacity allowed by                  *)
(* DispatchConstants.  The argument is one inductive invariant, DInv: at *)
(* each point of a trap the frame a handler holds is the frame of the    *)
(* task the scheduler has made current, and that task is alive or idle;  *)
(* and the IRQ number of a trap in progress is a declared line.          *)
(***************************************************************************)
EXTENDS Dispatch, TLAPS

USE DispatchConstants DEF READY, FAULT

(* A task the scheduler may hand the core to: alive, or the idle task.    *)
Alive(t) == t # Idle => tstate[t] = READY

(* The inductive invariant: the frame held at each point of a trap is    *)
(* the current task's, that task is alive or idle, and a trap in progress *)
(* with a non-negative number is a declared IRQ line.                     *)
DInv ==
  /\ TypeOK
  /\ pc = "thread" => running = current /\ Alive(running)
  /\ pc = "saved" => /\ frame = running /\ running = current
                     /\ Alive(running)
                     /\ (it >= 0 => it \in Irqs)
  /\ pc = "dispatched" => frame = current /\ Alive(frame)
  /\ EventsOnlyForOwner

(* The IPSR values fit in the IPSR_ISR field: the mask keeps them.        *)
LEMMA IpsrMasked == \A v \in IpsrValues : v % (IPSR_ISR_Msk + 1) = v
BY DEF IpsrValues, IPSR_ISR_Msk

(* A realigned exception number that is not negative is a declared IRQ.  *)
LEMMA RealignedIrq ==
  \A v \in IpsrValues : v - 16 >= 0 => v - 16 \in Irqs
BY DEF IpsrValues

(* sched_elect() picks a task, alive or idle.                              *)
LEMMA ElectAlive ==
  ASSUME tstate \in [Tasks -> {READY, FAULT}]
  PROVE  /\ Electable \subseteq Tasks
         /\ \A t \in Electable : Alive(t)
BY DEF Electable, Alive

(* The initial states satisfy the invariant.                               *)
LEMMA DInit == Init => DInv
BY DEF Init, DInv, TypeOK, Alive, EventsOnlyForOwner, IpsrValues

(* Every step preserves it.                                                *)
LEMMA DStep == DInv /\ [Next]_vars => DInv'
<1> SUFFICES ASSUME DInv, [Next]_vars PROVE DInv'
  OBVIOUS
<1> USE DEF DInv, TypeOK
<1>1. CASE TrapEntry
  <2>1. PICK v \in IpsrValues : it' = (v % (IPSR_ISR_Msk + 1)) - 16
    BY <1>1 DEF TrapEntry
  <2>2. it' = v - 16
    BY <2>1, IpsrMasked
  <2>3. it' \in {n - 16 : n \in IpsrValues} /\ (it' >= 0 => it' \in Irqs)
    BY <2>2, RealignedIrq
  <2>4. QED
    BY <1>1, <2>3 DEF TrapEntry, Alive, EventsOnlyForOwner
<1>2. CASE HardFault
  BY <1>2 DEF HardFault, Alive, EventsOnlyForOwner
<1>3. CASE MayPanic
  <2>1. CASE lrPsp
    <3> DEFINE ts == [tstate EXCEPT ![current] = FAULT]
    <3>1. PICK next \in IF \E t \in Tasks : ts[t] = READY
                          THEN {t \in Tasks : ts[t] = READY} ELSE {Idle} :
            /\ tstate' = ts /\ current' = next /\ frame' = next
            /\ pc' = "dispatched"
      BY <1>3, <2>1 DEF MayPanic
    <3>2. next \in Tasks /\ (next # Idle => ts[next] = READY)
      BY <3>1
    <3>3. QED
      BY <1>3, <3>1, <3>2 DEF MayPanic, Alive, EventsOnlyForOwner
  <2>2. CASE ~lrPsp
    BY <1>3, <2>2 DEF MayPanic, Alive, EventsOnlyForOwner
  <2>3. QED
    BY <2>1, <2>2
<1>4. CASE Svc
  <2>1. Electable \subseteq Tasks /\ \A t \in Electable : Alive(t)
    BY ElectAlive
  <2>2. CASE /\ \/ UNCHANGED queue
                \/ queue[current] # <<>>
                   /\ queue' = [queue EXCEPT ![current] = Tail(@)]
             /\ UNCHANGED <<current, frame>>
    <3>1. queue' \in [Tasks -> Seq(Irqs)] /\ EventsOnlyForOwner'
      <4>1. CASE UNCHANGED queue
        BY <4>1 DEF EventsOnlyForOwner
      <4>2. CASE queue[current] # <<>>
                 /\ queue' = [queue EXCEPT ![current] = Tail(@)]
        <5>1. \A t \in Tasks : \A i \in 1..Len(queue'[t]) :
                queue'[t][i] = queue[t][IF t = current THEN i + 1 ELSE i]
                /\ (IF t = current THEN i + 1 ELSE i) \in 1..Len(queue[t])
          BY <4>2
        <5>2. QED
          BY <4>2, <5>1 DEF EventsOnlyForOwner
      <4>3. QED
        BY <2>2, <4>1, <4>2
    <3>2. QED
      BY <1>4, <2>2, <3>1 DEF Svc, Alive
  <2>3. CASE /\ \E next \in Electable : current' = next /\ frame' = next
             /\ UNCHANGED queue
    <3>1. PICK next \in Electable : current' = next /\ frame' = next
      BY <2>3
    <3>2. next \in Tasks /\ Alive(next)
      BY <2>1
    <3>3. EventsOnlyForOwner'
      BY <2>3 DEF EventsOnlyForOwner
    <3>4. QED
      BY <1>4, <2>3, <3>1, <3>2, <3>3 DEF Svc, Alive
  <2>4. QED
    BY <1>4, <2>2, <2>3 DEF Svc
<1>5. CASE Systick
  <2>1. Electable \subseteq Tasks /\ \A t \in Electable : Alive(t)
    BY ElectAlive
  <2>2. QED
    BY <1>5, <2>1 DEF Systick, Alive, EventsOnlyForOwner
<1>6. CASE OtherException
  BY <1>6 DEF OtherException, Alive, EventsOnlyForOwner
<1>7. CASE UserIsr
  <2> DEFINE dev == DevOfIrq[it]
             owner == OwnerOfDev[dev]
  <2>1. pc = "saved" /\ it \in Irqs
    BY <1>7 DEF UserIsr
  <2>2. CASE dev = NoDev \/ owner = NoOwner
    BY <1>7, <2>2 DEF UserIsr, EventsOnlyForOwner
  <2>3. CASE dev # NoDev /\ owner # NoOwner /\ CanPush(owner)
    <3>1. dev \in Devices /\ owner \in Tasks
      BY <2>1, <2>3
    <3>2. queue' = [queue EXCEPT ![owner] = Append(@, it)] /\ pc' = "halted"
      BY <1>7, <2>3 DEF UserIsr
    <3>3. queue' \in [Tasks -> Seq(Irqs)]
      BY <2>1, <3>1, <3>2
    <3>4. EventsOnlyForOwner'
      BY <2>1, <2>3, <3>1, <3>2 DEF EventsOnlyForOwner
    <3>5. QED
      BY <1>7, <3>2, <3>3, <3>4 DEF UserIsr
  <2>4. CASE dev # NoDev /\ owner # NoOwner /\ ~CanPush(owner)
    BY <1>7, <2>1, <2>4 DEF UserIsr, Alive, EventsOnlyForOwner
  <2>5. QED
    BY <2>2, <2>3, <2>4
<1>8. CASE RestoreContext
  BY <1>8 DEF RestoreContext, Alive, EventsOnlyForOwner
<1>9. CASE Halted \/ UNCHANGED vars
  BY <1>9 DEF Halted, vars, Alive, EventsOnlyForOwner
<1>10. QED
  BY <1>1, <1>2, <1>3, <1>4, <1>5, <1>6, <1>7, <1>8, <1>9 DEF Next

(* The invariant holds in every reachable state.                           *)
THEOREM DInvHolds == Spec => []DInv
BY DInit, DStep, PTL DEF Spec

(* The dispatch state stays well typed.                                    *)
THEOREM DispatchTyped == Spec => []TypeOK
BY DInvHolds, PTL DEF DInv

(* Whatever traps arrive, the task running in thread mode is the current  *)
(* task and is alive or idle: may_panic() never resumes a faulted task.   *)
THEOREM ResumeCurrentAlive == Spec => []RunningIsCurrentAndAlive
<1>1. DInv => RunningIsCurrentAndAlive
  BY DEF DInv, Alive, RunningIsCurrentAndAlive
<1>2. QED
  BY <1>1, DInvHolds, PTL

(* Every queued event is an IRQ of a device its task owns.                *)
THEOREM EventsRouted == Spec => []EventsOnlyForOwner
BY DInvHolds, PTL DEF DInv

-----------------------------------------------------------------------------
(* Refinement of TrapContract under the mapping of Dispatch: a task the  *)
(* scheduler may elect is one the contract calls alive.                   *)
LEMMA ElectContractAlive ==
  ASSUME tstate \in [Tasks -> {READY, FAULT}]
  PROVE  Electable \subseteq Contract!Alive(tstate)
BY DEF Electable, Contract!Alive, Contract!READY

(* The initial state of dispatch is an initial state of the contract.     *)
LEMMA MapInit == Init => Contract!Init
BY DEF Init, Contract!Init, Contract!READY

(* Every dispatch step is a contract step or leaves the tasks' view       *)
(* unchanged.                                                              *)
LEMMA MapStep == DInv /\ [Next]_vars => [Contract!Next]_Contract!vars
<1> SUFFICES ASSUME DInv, [Next]_vars PROVE [Contract!Next]_Contract!vars
  OBVIOUS
<1> USE DEF DInv, TypeOK
<1> DEFINE Stutter == UNCHANGED <<current, tstate, queue, pc # "halted">>
<1>0. Stutter => [Contract!Next]_Contract!vars
  BY DEF Contract!vars
<1>1. CASE TrapEntry \/ OtherException \/ RestoreContext \/ Halted
           \/ UNCHANGED vars
  BY <1>0, <1>1
  DEF TrapEntry, OtherException, RestoreContext, Halted, vars
<1>2. CASE HardFault
  BY <1>2 DEF HardFault, Contract!Next, Contract!Halt
<1>3. CASE MayPanic
  <2>1. CASE lrPsp
    <3> DEFINE ts == [tstate EXCEPT ![current] = FAULT]
    <3>1. PICK next \in IF \E t \in Tasks : ts[t] = READY
                          THEN {t \in Tasks : ts[t] = READY} ELSE {Idle} :
            /\ tstate' = ts /\ current' = next /\ frame' = next
            /\ pc' = "dispatched"
      BY <1>3, <2>1 DEF MayPanic
    <3>2. next \in Contract!Alive(ts)
      BY <3>1 DEF Contract!Alive, Contract!READY
    <3>3. Contract!KillCurrent
      BY <1>3, <3>1, <3>2 DEF MayPanic, Contract!KillCurrent, Contract!FAULT
    <3>4. QED
      BY <3>3 DEF Contract!Next
  <2>2. CASE ~lrPsp
    BY <1>3, <2>2 DEF MayPanic, Contract!Next, Contract!Halt
  <2>3. QED
    BY <2>1, <2>2
<1>4. CASE Svc
  <2>1. CASE UNCHANGED queue /\ UNCHANGED <<current, frame>>
    BY <1>0, <1>4, <2>1 DEF Svc
  <2>2. CASE queue[current] # <<>> /\ queue' = [queue EXCEPT ![current] = Tail(@)]
             /\ UNCHANGED <<current, frame>>
    BY <1>4, <2>2 DEF Svc, Contract!Next, Contract!Consume
  <2>3. CASE \E next \in Electable : current' = next /\ frame' = next
             /\ UNCHANGED queue
    <3>1. current' \in Contract!Alive(tstate)
      BY <2>3, ElectContractAlive
    <3>2. QED
      BY <1>4, <2>3, <3>1 DEF Svc, Contract!Next, Contract!Preempt
  <2>4. QED
    BY <1>4, <2>1, <2>2, <2>3 DEF Svc
<1>5. CASE Systick
  <2>1. current \in Contract!Alive(tstate)
    BY <1>5 DEF Systick, Alive, Contract!Alive, Contract!READY
  <2>2. current' \in Contract!Alive(tstate)
    BY <1>5, <2>1, ElectContractAlive DEF Systick
  <2>3. QED
    BY <1>5, <2>2 DEF Systick, Contract!Next, Contract!Preempt
<1>6. CASE UserIsr
  <2> DEFINE dev == DevOfIrq[it]
             owner == OwnerOfDev[dev]
  <2>1. pc = "saved" /\ it \in Irqs
    BY <1>6 DEF UserIsr
  <2>2. CASE dev = NoDev \/ owner = NoOwner
    BY <1>6, <2>2 DEF UserIsr, Contract!Next, Contract!Halt
  <2>3. CASE dev # NoDev /\ owner # NoOwner /\ CanPush(owner)
    <3>1. IrqOwnerBar[it] = owner /\ owner \in Tasks
      BY <2>1, <2>3 DEF IrqOwnerBar
    <3>2. queue' = [queue EXCEPT ![owner] = Append(@, it)] /\ pc' = "halted"
      BY <1>6, <2>3 DEF UserIsr
    <3>3. Contract!Route
      BY <1>6, <2>1, <2>3, <3>1, <3>2
      DEF UserIsr, CanPush, Contract!Route, Contract!READY
    <3>4. QED
      BY <3>3 DEF Contract!Next
  <2>4. CASE dev # NoDev /\ owner # NoOwner /\ ~CanPush(owner)
    BY <1>0, <1>6, <2>4 DEF UserIsr
  <2>5. QED
    BY <2>2, <2>3, <2>4
<1>7. QED
  BY <1>1, <1>2, <1>3, <1>4, <1>5, <1>6 DEF Next

(* Trap dispatch implements TrapContract for every configuration: the     *)
(* frames saved and restored by save_context()/restore_context() and the  *)
(* handlers' choices only ever hand the core to a live task, consume the  *)
(* current task's own events, kill the task that faulted in user mode,    *)
(* route an IRQ's event to its device's owner, or halt.                   *)
THEOREM ImplementsContract == Spec => ImplementsTrapContract
<1>1. []DInv /\ [][Next]_vars => [][Contract!Next]_Contract!vars
  BY MapStep, PTL
<1>2. QED
  BY MapInit, DInvHolds, <1>1, PTL
  DEF Spec, ImplementsTrapContract, Contract!Spec

=============================================================================
