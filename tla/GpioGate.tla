------------------------------ MODULE GpioGate ------------------------------
(***************************************************************************)
(* The GPIO system-call gates of the Sentry kernel,                       *)
(* src/kernel/src/syscalls/sysgate_gpio.c: gate_gpio_set, gate_gpio_get,  *)
(* gate_gpio_reset and gate_gpio_toggle, with their ownership helper      *)
(* do_own_dev().                                                          *)
(*                                                                         *)
(* A gate runs in the SVC handler with interrupts masked, on one core, so *)
(* each call is one atomic step, taken by whichever task is current.      *)
(* The I/O manager (mgr_io_set/reset/read) is not under src/: each call   *)
(* either succeeds, and then acts on the pin, or fails and leaves it.     *)
(* When mgr_io_read() fails, the gate goes on with its uninitialised      *)
(* local "val": any Boolean.                                               *)
(***************************************************************************)
EXTENDS Naturals

CONSTANTS
  Tasks,     \* task handles that may issue a syscall
  Devices,   \* device handles a task may pass, unknown ones included
  Known,     \* devices the device manager knows (mgr_device_get_info)
  Owner,     \* mgr_device_get_owner(): device -> owning task
  NumIos,    \* devinfo->num_ios of each known device
  MaxIo      \* the largest io index a caller passes

ASSUME GpioConstants ==
  /\ Known \subseteq Devices
  /\ Owner \in [Known -> Tasks]
  /\ MaxIo \in Nat
  /\ NumIos \in [Known -> 0..MaxIo]

Ios == 0..MaxIo

(* Syscall return codes (Status of uapi). NONE: no syscall returned yet. *)
STATUS_OK == "STATUS_OK"
STATUS_INVALID == "STATUS_INVALID"
STATUS_DENIED == "STATUS_DENIED"
NONE == "NONE"
Returns == {NONE, STATUS_OK, STATUS_INVALID, STATUS_DENIED}

Ops == {"set", "get", "reset", "toggle"}

VARIABLES
  pins,    \* level of each io line of each known device
  ret,     \* mgr_task_set_sysreturn(): last syscall return of each task
  exch,    \* svcexchange[0] of each task
  last     \* the last gate call and the level of its line before it

vars == <<pins, ret, exch, last>>

Init ==
  /\ pins \in [Known -> [Ios -> BOOLEAN]]
  /\ ret = [t \in Tasks |-> NONE]
  /\ exch = [t \in Tasks |-> FALSE]
  /\ last = [task |-> CHOOSE t \in Tasks : TRUE, op |-> "none",
             dev |-> CHOOSE d \in Devices : TRUE, io |-> 0, val |-> FALSE,
             before |-> FALSE]

-----------------------------------------------------------------------------
(* do_own_dev(owner, dev): the device's owner is the caller.              *)
DoOwnDev(t, d) == Owner[d] = t

(* Mutant: the io bound tested with > instead of >=.                     *)
AcceptedOffByOne(t, d, io) ==
  /\ d \in Known
  /\ DoOwnDev(t, d)
  /\ ~(io > NumIos[d])

(* The checks every gate makes first, in order, each rejecting the call: *)
(* device known (else INVALID), owned by the caller (else DENIED), io in  *)
(* range (io >= num_ios: INVALID).                                         *)
Accepted(t, d, io) ==
  /\ d \in Known
  /\ DoOwnDev(t, d)
  /\ ~(io >= NumIos[d])

RejectCode(t, d, io) ==
  IF d \notin Known THEN STATUS_INVALID
  ELSE IF ~DoOwnDev(t, d) THEN STATUS_DENIED
  ELSE STATUS_INVALID

(* A rejected call only sets the caller's return code.                    *)
Reject(t, d, io) ==
  /\ ~Accepted(t, d, io)
  /\ ret' = [ret EXCEPT ![t] = RejectCode(t, d, io)]
  /\ UNCHANGED <<pins, exch>>

Record(t, o, d, io, v) ==
  last' = [task |-> t, op |-> o, dev |-> d, io |-> io, val |-> v,
           before |-> IF d \in Known THEN pins[d][io] ELSE FALSE]

(* mgr_io_set/mgr_io_reset to level v, then the gate's inverted test:    *)
(* a successful write reports STATUS_INVALID, a failed one STATUS_OK.     *)
Drive(t, d, io, v) ==
  \/ /\ pins' = [pins EXCEPT ![d][io] = v]
     /\ ret' = [ret EXCEPT ![t] = STATUS_INVALID]
  \/ /\ UNCHANGED pins
     /\ ret' = [ret EXCEPT ![t] = STATUS_OK]

(* gate_gpio_set(device, io, val).                                          *)
GateGpioSet ==
  \E t \in Tasks, d \in Devices, io \in Ios, v \in BOOLEAN :
    /\ Record(t, "set", d, io, v)
    /\ \/ Reject(t, d, io)
       \/ /\ Accepted(t, d, io)
          /\ Drive(t, d, io, v)
          /\ UNCHANGED exch

(* Mutant: gate_gpio_reset() calling mgr_io_set() instead of            *)
(* mgr_io_reset(): the line is driven high.                               *)
GateGpioResetHigh ==
  \E t \in Tasks, d \in Devices, io \in Ios :
    /\ Record(t, "reset", d, io, FALSE)
    /\ \/ Reject(t, d, io)
       \/ /\ Accepted(t, d, io)
          /\ Drive(t, d, io, TRUE)
          /\ UNCHANGED exch

(* gate_gpio_reset(device, io).                                             *)
GateGpioReset ==
  \E t \in Tasks, d \in Devices, io \in Ios :
    /\ Record(t, "reset", d, io, FALSE)
    /\ \/ Reject(t, d, io)
       \/ /\ Accepted(t, d, io)
          /\ Drive(t, d, io, FALSE)
          /\ UNCHANGED exch

(* Mutant: gate_gpio_get() without the do_own_dev() check.               *)
GateGpioGetNoOwn ==
  \E t \in Tasks, d \in Devices, io \in Ios :
    /\ Record(t, "get", d, io, FALSE)
    /\ \/ /\ d \notin Known \/ io >= NumIos[d]
          /\ ret' = [ret EXCEPT ![t] = STATUS_INVALID]
          /\ UNCHANGED <<pins, exch>>
       \/ /\ d \in Known /\ io < NumIos[d]
          /\ UNCHANGED pins
          /\ \/ /\ ret' = [ret EXCEPT ![t] = STATUS_INVALID]
                /\ UNCHANGED exch
             \/ \E garbage \in BOOLEAN :
                  /\ exch' = [exch EXCEPT ![t] = garbage]
                  /\ ret' = [ret EXCEPT ![t] = STATUS_OK]

(* gate_gpio_get(device, io): a successful mgr_io_read() reports          *)
(* STATUS_INVALID; a failed one copies the uninitialised val into the     *)
(* caller's svcexchange and reports STATUS_OK.                             *)
GateGpioGet ==
  \E t \in Tasks, d \in Devices, io \in Ios :
    /\ Record(t, "get", d, io, FALSE)
    /\ \/ Reject(t, d, io)
       \/ /\ Accepted(t, d, io)
          /\ UNCHANGED pins
          /\ \/ /\ ret' = [ret EXCEPT ![t] = STATUS_INVALID]
                /\ UNCHANGED exch
             \/ \E garbage \in BOOLEAN :
                  /\ exch' = [exch EXCEPT ![t] = garbage]
                  /\ ret' = [ret EXCEPT ![t] = STATUS_OK]

(* gate_gpio_toggle(device, io): a successful read already reports        *)
(* STATUS_INVALID; after a failed read the line is driven to the negation *)
(* of the uninitialised val, with the inverted test on that write.        *)
GateGpioToggle ==
  \E t \in Tasks, d \in Devices, io \in Ios :
    /\ Record(t, "toggle", d, io, FALSE)
    /\ \/ Reject(t, d, io)
       \/ /\ Accepted(t, d, io)
          /\ UNCHANGED exch
          /\ \/ /\ ret' = [ret EXCEPT ![t] = STATUS_INVALID]
                /\ UNCHANGED pins
             \/ \E garbage \in BOOLEAN : Drive(t, d, io, ~garbage)

Next == GateGpioSet \/ GateGpioReset \/ GateGpioGet \/ GateGpioToggle

Spec == Init /\ [][Next]_vars

-----------------------------------------------------------------------------
(* Only the owner of a device changes its lines, and only the lines the  *)
(* device declares: do_own_dev() and the num_ios bound guard every write. *)
PinsDrivenOnlyByOwner ==
  [][\A d \in Known, i \in Ios :
       pins'[d][i] # pins[d][i] =>
         /\ last'.task = Owner[d] /\ last'.dev = d /\ last'.io = i
         /\ i < NumIos[d]]_vars

(* A task's svcexchange is written only by a get of its own that passed   *)
(* every check of the gate: known device, owned by the caller, io in      *)
(* range.  No task reads, or has written for it, a line of another's     *)
(* device.                                                                 *)
SvcExchangeOnlyAfterChecks ==
  [][\A t \in Tasks :
       exch'[t] # exch[t] =>
         /\ last'.task = t /\ last'.op = "get"
         /\ Accepted(t, last'.dev, last'.io)]_vars

(* What a gate reports matches what happened: STATUS_OK after set, reset  *)
(* or toggle means the line now has the level asked for, and after get    *)
(* that the caller's svcexchange holds the line's level.                  *)
SyscallStatusTruthful ==
  ret[last.task] = STATUS_OK =>
    CASE last.op \in {"set", "reset"} -> pins[last.dev][last.io] = last.val
      [] last.op = "toggle" -> pins[last.dev][last.io] = ~last.before
      [] last.op = "get" -> exch[last.task] = pins[last.dev][last.io]
      [] OTHER -> TRUE

-----------------------------------------------------------------------------
(* The refinement mapping to GpioContract: the lines and svcexchange are  *)
(* the contract's; the request is the last call without the level of its *)
(* line before it.                                                          *)
Contract == INSTANCE GpioContract WITH
              call <- [task |-> last.task, op |-> last.op, dev |-> last.dev,
                       io |-> last.io, val |-> last.val]

(* The gates implement GpioContract: no call changes a line but the one   *)
(* it names on a device its caller owns, a set or reset only to the level *)
(* asked for, and a get only its caller's svcexchange.                     *)
ImplementsGpioContract == Contract!Spec

=============================================================================
