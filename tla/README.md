# TLA+ models of the Sentry kernel

This directory holds TLA+ specifications of the parts of the Sentry
micro-kernel (`src/`) whose behaviour is decided by control flow rather than
by register I/O. It also holds TLC configurations that model-check them on
small instances, and TLAPS proofs of the main safety properties for every
value of the constants.

## The system and its parts

| Part | Source | Module | Status |
|------|--------|--------|--------|
| Task-manager init automaton | `src/src/managers/task/task_init.c` | `TaskInit`, `TaskLoad` (abstract), `TaskSort` | modelled |
| Trap dispatch and context switch | `src/kernel/src/arch/asm-cortex-m/handler.c` | `Dispatch`, `TrapContract` (abstract) | partly (Reset_Handler left out) |
| User interrupt routing | `src/kernel/src/managers/interrupt/interrupt.c` | `Dispatch` | modelled |
| Scheduler, task queues, device directory, SVC and systick handlers | not under `src/` | `Dispatch` (from the spec's contracts) | partly |
| GPIO syscall gates | `src/kernel/src/syscalls/sysgate_gpio.c` | `GpioGate`, `GpioContract` (abstract) | modelled |
| RCC clock driver | `src/src/drivers/clk/stm32f4-rcc.c` | `ClockStart`, `RccBus` | partly (`clk_reset` left out) |
| SYSCFG driver | `src/src/drivers/syscfg/stm32f4-syscfg.c` | `Syscfg` | modelled |
| Kernel entrypoint | `src/src/core/entrypoint.c` | none | not modelled |

How the parts interact:

- At boot, `task_init()` walks the build-provisioned metadata table. It
  checks and maps each task, hands the autostart ones to the scheduler, and
  then appends the idle task and sorts the runtime table by label.
- At run time every exception goes through `Default_Handler`. It runs
  `save_context`, then `Default_SubHandler` (read the IPSR, subtract 16,
  dispatch), then `restore_context`.
- Faults are handled by `may_panic`, which marks the faulting task FAULT
  and elects another task.
- Peripheral IRQs go to `userisr_handler`, which finds the device and its
  owner and pushes an event into the owner's queue.
- `_entrypoint()` does not yet call `task_init()`, so the two halves are not
  composed in the code, and they are not composed in the model either.

## Modules

### `TaskSort`, `TaskSortCheck`

`TaskSort` has `task_swap` (`TaskSwap`) and `task_basic_sort` (`BasicSort`).
The sort's two loops are recursive functions, because `TaskInit` uses them
and `TaskInit` is a module with proofs. `TaskSortCheck` applies the sort to
every labelling of an `N+1`-cell table with the labels `Ids` (N = 3, four
labels: 256 tables) and compares the result with the reference predicate
`IsOrdered`.

### `TaskInit`

State:

- `state`, `numtask` and `status` are the static `ctx`.
- `pc` is the point `task_init()` has reached. It is kept separate from
  `ctx.state`, because every handler first checks that `ctx.state` is the
  state it expects.
- `cell` is the loop index.
- `task_table` holds, for each runtime cell, a reference to the metadata
  entry it was built from.
- `mapped` is the set of entries whose data was copied and bss zeroed.
- `scheduled` is the set of entries given to `sched_schedule()`.

A metadata entry is abstracted to four fields: its magic verdict, its HMAC
verdict, its autostart flag and its label.

Actions:

- one per handler: `DiscoverSanitation`, `CheckMetaIntegrity`,
  `CheckTskIntegrity`, `InitiateLocalinfo`, `TaskInitMap`,
  `TaskInitSchedule` and `TaskInitFinalize`;
- `TaskInitStart` and `LoopTest` for the body of `task_init()` itself.

Each action carries the handler's entering-state check, its early returns,
and the `goto end` on a non-OKAY status. The scheduler's answer is a
nondeterministic choice, OKAY or an error.

### `TaskLoad`, the abstract pass

`TaskLoad` states what the pass promises without its automaton: walk the
table once, in order; `Reject` an entry with a bad magic (the pass ends with
a security error), else `Load` it, then `Conclude` it (register it if it is
autostart, or end the pass with a runtime error when the scheduler refuses),
and `Finish` once every entry is through. Nothing is rolled back on an
abort.

`TaskInit` implements it under the mapping `Pass`:

- `table` is the metadata table, `next` the loop index `cell`;
- `loaded` is `mapped`, `registered` is `scheduled`;
- `outcome` (`outcomeBar`) is "running" until `task_init()` returns, then
  "runtime" on a scheduler error, "finished" when every entry went through,
  and "security" otherwise.

Every other step of `TaskInit` (the HMAC stubs, `initiate_localinfo`, the
loop test, a handler's state mismatch) is a stutter of `TaskLoad`.

`PassOutcome` is `TaskLoad`'s contract for how the pass ends. `finished`
means every entry was valid and loaded, and exactly the autostart entries
were registered. `security` means the current entry is the first bad one,
and exactly the entries before it were loaded. `runtime` means the current
entry, loaded and autostart, was refused after the earlier autostart
entries were registered. `TaskInit` checks it through the mapping as
`PassEndsAsPromised`.

### `Dispatch`

The model has one core. Interrupts are masked from `save_context` to the
exception return, so a trap's three steps are never interleaved with
another trap.

Actions:

- `TrapEntry` does `save_context` and the IPSR read, including the `-16`
  realignment.
- One action per switch case: `HardFault`, `MayPanic` (memfault and usage
  fault), `Svc`, `Systick`, `OtherException` (the `default:` case for
  negative numbers) and `UserIsr`.
- `RestoreContext` models the epilogue. The value of `r1` that it reads is
  a nondeterministic choice.

The scheduler, the event queues and the device directory are not under
`src/`. They are modelled from the spec:

- `sched_elect` returns a READY task, or idle when there is none.
- A push fails on a full queue or a dead owner.
- A system call may pop an event or block the caller.

Register contents and stack frames are abstracted to the identity of the
task they belong to.

### `TrapContract`, the abstract trap

`TrapContract` says what a trap does as the tasks see it. It has no frames,
no IPSR and no CONTROL, only the current task `cur`, the task states, the
event queues and `up`. Its actions are:

- `Preempt`: the core is handed to a live task or idle.
- `Consume`: the current task takes the head of its queue.
- `KillCurrent`: the current task is marked FAULT, and the core goes to a
  task that is alive after that.
- `Route`: an IRQ's event is appended to the queue of the live owner of
  its device, if there is room; the kernel may then halt. The halt is
  allowed because the code panics after a successful push.
- `Halt`.

`Dispatch` maps to it as follows: `cur` is `current`, `up` is
`pc # "halted"`, and an IRQ's owner is the directory's owner of its device
(`IrqOwnerBar`). `TrapEntry`, `OtherException` and `RestoreContext` are
stutters. So are a system call that returns without popping, a failed
push, and a tick that keeps the current task.
`ImplementsTrapContract` checks the mapping. A `may_panic()` that called
`sched_elect()` before `mgr_task_set_state(FAULT)` (the mutant
`MayPanicElectBeforeFault`) breaks it: the faulting task can be
re-elected.

### `GpioGate`

Each of `gate_gpio_set`, `gate_gpio_get`, `gate_gpio_reset` and
`gate_gpio_toggle` is one atomic action. A gate runs in the SVC handler with
interrupts masked. The caller, device handle, io index and value are
enumerated with `\E`.

The gate's checks are modelled in order, as `Accepted` and `RejectCode`:

- the device is known, else `STATUS_INVALID`;
- `do_own_dev`, else `STATUS_DENIED`;
- `io < num_ios`, else `STATUS_INVALID`.

`mgr_io_*` is not under `src/`. Each call either succeeds and acts on the
line, or fails and leaves it. The local `val` of a failed read is
uninitialised, so it is any Boolean.

State:

- `pins` holds the line levels.
- `ret` holds each task's syscall return.
- `exch` holds each task's `svcexchange[0]`.
- `last` is a history variable that records the last call, for the
  properties.

### `GpioContract`, the abstract gates

`GpioContract` states what the gates promise, without return codes. A call
that is not `Permitted` changes no line and no `svcexchange`. A call is
permitted when the device is known, the caller owns it, and the io line is
declared. A permitted call may do the following:

- `set` and `reset` may drive the named line to the requested level. A
  failed `mgr_io_*` leaves the line as it was.
- `get` may write the caller's `svcexchange`.
- `toggle` may drive the named line to any level. The level is not
  promised, because of the uninitialised `val`.

`GpioGate` maps onto it with `pins`, `exch` and the request part of `last`.
The mapping drops `ret` and `last.before`. `ImplementsGpioContract`
checks this mapping. It also catches a `gate_gpio_reset()` that drives the
line high (the mutant `GateGpioResetHigh`), which the two action
properties do not.

### `Syscfg`

One action per function of the SYSCFG driver, over the fields they touch:
`MEMRM.FB_MODE` and `MEM_MODE`, and the sixteen 4-bit EXTICR fields.

- `SyscfgProbe` writes 0 to MEMRM and the EXTICR registers; the bank bit it
  masks into a local is never used.
- `SyscfgSwitchBank` flips `FB_MODE` (dual-bank parts only).
- `SyscfgSetExti` checks the port against `MAX_EXTI_GPIO_PORT` and the pin
  against 15, each an early `K_ERROR_INVPARAM`, and otherwise returns OKAY.
  What it computes is never written, so it changes no register.

`last` records the last call, its arguments, its status and the bank before
it. The ports are character codes ('A', 'C', 'J', 'K'), the pins 0, 5, 15
and 16: every guard outcome occurs.

### `RccBus`

`rcc_get_register()` is the operator `RccGetRegister`; `rcc_enable()` and
`rcc_disable()` are actions on `enr`, the bits set in the register at every
word offset from `RCC_BASE_ADDR`, not only the ten enable registers, so that
a write the arithmetic sent elsewhere would change the state (a mask is a set
of bit positions, so `|=` is union and `&= ~` is difference). The RM0090 register table is `ManualOffset`. The bus
identifiers are generated from the SVD file, so `BUS_APB1` is the constant
`BusApb1`. This module is proved rather than model-checked (see Proofs).

### `ClockStart`

`clk_set_system_clk` is modelled as three poll loops: the oscillator
(`OscPoll`), the PLL (`PllPoll`) and the clock switch (`SwPoll`). Each
action is one loop iteration. Both arguments, `enable_hse` and
`enable_pll`, are chosen in `Init`.

Leaving the oscillator poll includes the voltage-scaling write of lines
140-142 (`VosWrite`). It reads `PWR_CR`, ors in VOS and writes the value at
`RCC_BASE_ADDR + PWR_CR_REG`. That address is `RCC_CR`, not `PWR_CR`. Bit 16
of the value is 0, so HSEON is cleared. HSION is held by the hardware while
the HSI is the system clock, as it still is at that point. `oscOn` is the ON
bit of the requested oscillator. After the write it is true exactly when
that oscillator is the HSI.

The hardware is modelled by its own actions:

- `OscStabilises`: the oscillator becomes ready while it is on;
- `OscStops`: its ready bit falls once it is switched off;
- `PllLocks`: the PLL locks once it is enabled and its source oscillator
  runs;
- `SwitchLands`: the switch takes effect once requested with the PLL
  locked.

Each may happen at any time, or never. The hardware keeps running after the
function has returned.

The timeout `0x500` becomes the constant `Timeout`, set to 16 in the runs.
That is enough for the hardware to become ready before, at, or after every
poll.

The code's steps are weakly fair. The function runs with interrupts off and
never blocks. The hardware's steps are not fair, because a part may never
become ready.

## Runs

| Run | Checks | Result |
|-----|--------|--------|
| `sort_pass` (`TaskSortCheck.cfg`) | `SortKeepsEveryTask`, `SortedTableUnchanged` | pass, 256 tables |
| `sort_order` (`TaskSortCheck_order.cfg`) | `SortOrdersById` | **violated** |
| `taskinit_pass` (`MC_TaskInit.cfg`) | `TypeOK`, `AbortsOnFirstBadMagic`, `RegisteredOnlyWhenMapped`, `PassEndsAsPromised`, `InitTerminates`, `ImplementsTaskLoad` | pass, 43 264 states |
| `taskinit_contract` (`MC_TaskInit_contract.cfg`) | `TaskInitAsDocumented` | **violated** |
| `dispatch_pass` (`MC_Dispatch.cfg`) | `TypeOK`, `RunningIsCurrentAndAlive`, `EventsOnlyForOwner`, `ImplementsTrapContract` | pass, 655 states |
| `dispatch_irq` | `IrqRoutedPerSpec` (action property) | **violated** |
| `dispatch_priv` | `TasksResumeUnprivileged` | **violated** |
| `gpio_pass` (`MC_GpioGate.cfg`) | `PinsDrivenOnlyByOwner`, `SvcExchangeOnlyAfterChecks`, `ImplementsGpioContract` | pass, 1 028 states |
| `gpio_status` | `SyscallStatusTruthful` | **violated** |
| `clock_pass` (`MC_ClockStart.cfg`) | `ClockSetupReturns` | pass, 302 states |
| `clock_status` (`MC_ClockStart_status.cfg`) | `ClockStatusTruthful` | **violated** |
| `syscfg_contract` (`MC_Syscfg_contract.cfg`) | `SyscfgAsCommented` | **violated** |

Each violation run states what the code's comments, or the spec, say of a
component, as one property. Three of them join two promises of one
function or driver:

- `TaskInitAsDocumented` is the header comment of `task_init()` together
  with the spec's rule that only HMAC-verified tasks are mapped.
- `ClockStatusTruthful` says that the status tells which clock runs, both
  for OKAY and for NOTREADY.
- `SyscfgAsCommented` joins the comments of `syscfg_set_exti()` and
  `syscfg_probe()`.

TLC prints the shortest counterexample, so each run shows one defect. The
other defect, where a theorem proves it for every configuration, is named
below.

`ImplementsTaskLoad` is the refinement: `TaskInit`'s behaviours, seen
through `Pass`, are behaviours of `TaskLoad`, fairness included, so the pass
also finishes in the abstract sense.

What the violations show (see `findings` in `PROJECT.json`):

- The HMAC checks are stubs: the trace of `taskinit_contract` maps a task
  whose HMAC is bad.
- `task_init()` never advances `ctx.numtask`. Every task lands in runtime
  cell 0, FINALIZE is never reached, and boot always ends with
  `K_SECURITY_INTEGRITY`. This violates the clear-table half of
  `TaskInitAsDocumented` after a full pass; `InitNeverSucceeds` proves it
  for every table.
- `task_basic_sort` breaks out on the wrong condition.
- `userisr_handler` panics on a *successful* push and drops the event on a
  failed one.
- `restore_context` can resume a task privileged, because it derives
  `CONTROL.nPRIV` from whatever `r1` holds.
- The GPIO gates test the `mgr_io_*` results the wrong way round. A
  successful operation reports `STATUS_INVALID`, and a failed one reports
  `STATUS_OK`, along with an uninitialised value.
- The voltage-scaling write of `clk_set_system_clk()` lands on `RCC_CR` and
  clears HSEON. The trace of `clock_status` asks for the HSE without a PLL
  and gets OKAY with the HSE switched off. With the HSE and a PLL, the PLL
  never locks (`HsePllNeverLocks`).
- The clock-switch wait tests the HSE pattern of `CFGR.SWS` after selecting
  the PLL. It always times out and returns NOTREADY (`PllNeverOkay`), with
  `CFGR.SW` left at the PLL. On the HSI path the PLL then becomes the system
  clock after the error: this violates the NOTREADY half of
  `ClockStatusTruthful`.
- `syscfg_set_exti()` never writes EXTICR: it returns OKAY and the line
  stays routed to port A. This is the trace of `syscfg_contract`.
- `syscfg_probe()` clears `MEMRM.FB_MODE` although its comment says it
  preserves the selected bank, so a probe after a bank switch maps the other
  bank back (`ProbeMapsBankOne`).

Every property of a passing run also has a mutant in `PROJECT.json`: a
plausible bug in the mapped definition that TLC catches with that
property.

### Bounds

`TaskInit`:

- Three metadata entries, a capacity of three, and two labels.
- Every metadata table (2^3 combinations of each field) and every scheduler
  answer are enumerated.
- This covers a bad entry first, in the middle and last, an error after some
  registrations, and runs with and without autostart.

`Dispatch`:

- Two user tasks and idle.
- Three IRQs: one owned, one with an unowned device, one with no device.
- A queue capacity of 1, so both a successful and a failed push occur.
- All core exceptions the switch names.

`Syscfg`: dual bank on, `MAX_EXTI_GPIO_PORT = 'J'`; ports 'A', 'C', 'J',
'K' and pins 0, 5, 15, 16 (each bound met, at and past).

`TaskSortCheck`: four cells and four labels, which gives ties, reverse
order and sorted input.

`GpioGate`:

- Two tasks and one known device with one declared line, owned by the
  first task.
- One unknown handle, and io indices 0 and 1.
- This covers each rejection, both I/O outcomes and both tasks.

### Fairness

`TaskInit` is specified with `WF_vars(Next)`. `task_init()` is straight-line
boot code on one core with no blocking, so once it is called it runs on
until it returns. `InitTerminates` depends on this fairness.

`ClockStart` makes the code's steps weakly fair and leaves the hardware's
steps unfair.

`Dispatch` and `GpioGate` have no fairness. Traps come from the environment, and no liveness
property is claimed for them.

## Proofs

The proofs are checked by TLAPS, in eight modules.

### `TaskInit_proofs`

The assumption `TaskInitConstants` is exactly what the proofs need:

- `NumTasks <= MaxTasks`, and both are natural numbers;
- labels are positive;
- the null and idle references are not cell numbers.

`InitInv` is inductive. It conjoins `TypeOK`, the two safety properties, and
two strengthenings:

- `PcMatchesState` ties each `pc` to the `ctx.state` it is reached in, and
  records that `numtask` stays 0 and that the current entry passed the
  magic check.
- `PrefixAuthentic` says every entry before `cell` passed the magic check.

The properties alone are not inductive. A state where `pc = "map"` but the
current entry's magic was bad satisfies them, yet maps a bad entry. The
strengthening rules such states out.

The lemmas are `InitEstablishes` (Init ⇒ InitInv) and `StepPreserves`
(InitInv ∧ [Next]_vars ⇒ InitInv′). `StepPreserves` has one case per
action, and the branches of each handler become sub-cases. The theorems
follow by PTL:

- `InvariantHolds`: `Spec => []InitInv`;
- `TypeCorrect`: `Spec => []TypeOK`;
- `FailClosedPass`: `Spec => []AbortsOnFirstBadMagic`;
- `RegisterAfterMap`: `Spec => []RegisteredOnlyWhenMapped`;
- `InitNeverSucceeds`: `numtask` stays 0 and `task_init()` never returns
  OKAY, for every table and task count. This is the `numtask` defect stated for every configuration,
  not only the checked one.
- `ImplementsPass`: `Spec => Pass!SafetySpec`, the safety part of the
  refinement. It rests on `LoadOrder` (everything mapped lies before the
  loop index, strictly before it except at the schedule step; at `start`
  nothing is mapped), proved inductive relative to `InitInv` by
  `LoadOrderInit` and `LoadOrderStep`; then `MappingInit` (the initial
  states map to `TaskLoad`'s) and `MappingStep` (each step maps to a
  `TaskLoad` step or a stutter, one case per action).

- `EndsAsPromised`: `Spec => []PassEndsAsPromised`. This is TaskLoad's
  `PassOutcome` seen through the mapping. It is proved once on TaskLoad
  (`OutcomeMatchesTable`), instantiated through `Pass`, and chained with
  `ImplementsPass` by PTL. TLC checks the same formula as an invariant of
  `taskinit_pass`.

Because FINALIZE is unreachable, the proofs never reason about the sort.

### `TaskLoad`

`OutcomeMatchesTable` holds for every `NumTasks \in Nat` (the one assumption,
stated in the theorem because `TaskLoad` declares no ASSUME). It proves
`SafetySpec => []PassOutcome`: how the pass ended fixes what was loaded and
registered. `PassOutcome` is not inductive on its own: a Conclude step from
an arbitrary state could move the index past an unloaded entry. The
inductive `LoadInv` adds the following:

- the entries behind the index are valid;
- `loaded` is those entries, plus the current one once it was loaded;
- `registered` is exactly the autostart entries behind the index;
- each outcome holds only in the state its action requires.

TLC checked `Pass!LoadInv` as an invariant of the `MC_TaskInit` instance
before the proof. The mutant that drops `task_init_schedule()`'s status test
(`ScheduleStepNoStatusCheck`) breaks `PassEndsAsPromised`: a refused task
then ends the pass as a "security" abort on a valid entry.

### `GpioGate_proofs`

Under `GpioConstants`, the two action properties of `gpio_pass` are proved
for every task set, ownership map and io count:

- `OwnerOnlyDrives` proves `PinsDrivenOnlyByOwner`;
- `ExchangeGuarded` proves `SvcExchangeOnlyAfterChecks`.

Both need only a type invariant (`GateTyped`), because each gate records its
call in `last` and decides from the state it reads. `GateStep` shows that
every step satisfies both step conditions. Its cases rest on three lemmas:

- `RejectStep`: a rejected call changes no line and no `svcexchange`;
- `DriveStep`: an accepted drive changes exactly the named line;
- `AcceptedLine`: acceptance means a known device of the caller and a line
  below `num_ios`.

`ImplementsContract` (`ImplementsGpioContract`) proves the refinement of
`GpioContract`:

- `GpioMapInit`: the initial states map to initial states.
- `GpioMapStep`: every gate call is a contract step of the same
  operation. It rests on these lemmas:
  - `AcceptedIsPermitted`: the gate's `io >= num_ios` test is the
    contract's `io < NumIos[d]`, for io lines in `0..MaxIo`.
  - `RecordIsRequest`, `RejectIsRefused` and `DriveIsWrite`.

Only the type invariant is needed.

### `TaskSort_proofs`

This module holds lemmas about `task_swap()`, the step of
`task_basic_sort()`:

- `SwapKeepsPermutation`: swapping two cells of a permutation gives a
  permutation.
- `SwapRemovesOneInversion`: swapping neighbours in the wrong order removes
  exactly one inversion. The proof is a bijection between the inversions
  after the swap and those before it minus the swapped pair, then
  `FS_Bijection` and `FS_RemoveElement`.

These are the facts each iteration of the sort rests on. What the loops
compute as a whole would need induction over `InnerPass` and `BasicSort`
(below).

### `Dispatch_proofs`

Under `DispatchConstants` (IRQ lines within the NVIC vector, directory maps
total, `NoDev`/`NoOwner` fresh, a positive queue capacity), `DInv` is
inductive. It strengthens the properties with what each point of a trap
holds: at `saved`, the frame is the running task's, which is current and
alive or idle, and a non-negative exception number is a declared IRQ; at
`dispatched`, the frame is the current task's, alive or idle. Without the
`saved` conjunct a `Svc` that returns to the caller could resume a task
other than the current one. The lemmas `IpsrMasked` and `RealignedIrq`
give the IPSR arithmetic, `ElectAlive` the contract of `sched_elect()`.
Theorems: `DispatchTyped`, `ResumeCurrentAlive`
(`RunningIsCurrentAndAlive`), `EventsRouted` (`EventsOnlyForOwner`).

`ImplementsContract` (`ImplementsTrapContract`) proves the refinement of
`TrapContract` for every configuration:

- `MapInit`: an initial state maps to an initial state.
- `MapStep`: under `DInv`, every step maps to a contract step or a
  stutter. It has one case per action.

The invariant is needed twice:

- A tick or a system call that keeps the current task maps to `Preempt`
  only because the `saved` conjunct makes that task alive.
- A routed IRQ is a declared line, with a device owner in `Tasks`, only
  because of the `it \in Irqs` conjunct.

`ElectContractAlive` says that `sched_elect()`'s choices are alive in the
contract's sense. Dispatch has no fairness, so the refinement is a safety
refinement only.

### `ClockStart_proofs`

`ClockInv` is inductive for every `Timeout`. Its conjuncts:

- `CFGR.SWS` never shows the HSE pattern, because `SwitchLands` only
  reports the PLL;
- `PLLRDY` implies `PLLON`, which implies that a PLL was asked for and that
  the voltage-scaling write has happened;
- a locked PLL means the HSI was asked for, since the PLL locks only on a
  running source and HSEON was cleared before PLLON;
- past the oscillator poll, `OscAfterVos` holds: the requested oscillator
  is on exactly when it is the HSI, and stable while on;
- an OKAY return happens only on the path without a PLL.

The strengthening is needed because the hardware actions may fire at any
time. Without the first conjunct, the switch poll could seem to end OKAY.
Without `OscAfterVos`, `OscStops` could seem to clear the HSI's ready bit.

Theorems, each the positive form of a defect, for every timeout:

- `OkayLeavesHseOff`: OKAY only without a PLL, with the HSE off if it was
  asked for, and the HSI on and stable otherwise;
- `HsePllNeverLocks`;
- `PllNeverOkay`.

`ClockInv` and the statements of all three were first checked by TLC on
the `clock_pass` instance.

### `RccBus`

Under `BusNumbering` (`BUS_APB1 >= 3`, the AHB identifiers below it):

- `GetRegisterIsManual`: `rcc_get_register()` gives the RM0090 register of
  every bus and flag;
- `RegistersDistinct`: no two (bus, flag) pairs share a register;
- `GateTouchesOnlyItsRegister`: each enable or disable changes only its
  register, which is one of the ten, by the mask;
- `GatesWriteOnlyEnableRegisters`:
  `Spec => [][OnlyEnableRegistersWritten]_vars`. Over the whole register
  space, no step changes a register outside the ten enable registers.
  `enr` has every word offset in its domain, so an offset computed wrong
  would be a visible write, not an `EXCEPT` outside the domain.

### `Syscfg`

`SyscfgInv` is inductive, with no assumption on the constants:

- `last` is a record, so a step's `EXCEPT` on it can be read;
- every EXTICR field is 0;
- after a probe, FB_MODE is 0.

It gives the positive form of both halves of `SyscfgAsCommented`, for every
configuration:

- `SetExtiNeverRoutes`: a `syscfg_set_exti()` that returned OKAY left its
  line on port A.
- `ProbeMapsBankOne`: a probe always maps bank 1.

### What stays with TLC

- `InitTerminates`, `ClockSetupReturns` and the fairness part of
  `ImplementsTaskLoad`: liveness, out of TLAPS's reach here.
- `SortKeepsEveryTask` and `SortedTableUnchanged`, the sort's invariants.
  They are about what the recursive functions `InnerPass` and `BasicSort`
  compute for every input, which needs induction over data. The library's
  induction theorems take the induction predicate as an operator parameter,
  and no installed prover instantiates that. The per-swap facts they rest on
  are proved in `TaskSort_proofs`.
- Every violation run: it shows one counterexample on the checked instance.
  Where the defect holds for every configuration, a theorem states the
  positive form (`InitNeverSucceeds`, `OkayLeavesHseOff`,
  `HsePllNeverLocks`, `PllNeverOkay`, `SetExtiNeverRoutes`,
  `ProbeMapsBankOne`).

## Not modelled, and the plan

- The kernel entrypoint (`_entrypoint()`): a straight-line sequence of calls
  into code that is not under `src/` (`pwr_probe`, `rcc_probe`,
  `platform_init`, `mm_*`) followed by a spin loop. It has no branch, it
  never calls `task_init()` and never enables interrupts, so there is no
  composition of boot and dispatch to model; that absence is a hazard.
- The Reset_Handler (bss/data copy, NVIC clearing) and `clk_reset()`: fixed
  register writes with no control flow.
- The FLASH_ACR wait-state setup is compiled out (`#if 0`) in
  `clk_set_system_clk()`: listed as a hazard, not modelled.
- The autotest, DMA handle helpers and the Frama-C harness, which have no
  kernel state.

Next: a passing run of `Syscfg` once the violation runs can give way to
one, and the finalisation step (the idle entry keyed 0) once the
`numtask` defect is fixed and FINALIZE becomes reachable.
