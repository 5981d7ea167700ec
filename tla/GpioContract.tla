---------------------------- MODULE GpioContract ----------------------------
(***************************************************************************)
(* What the GPIO gates promise the tasks (spec sections 5 and 6): a call  *)
(* names a device, an io line and, for set, a level; a call that is not   *)
(* permitted (unknown device, not the caller's, io beyond num_ios)         *)
(* changes nothing but the request; a permitted set or reset may drive    *)
(* the named line to the level asked for, a get may write the caller's    *)
(* svcexchange, a toggle may drive the named line.  The return codes are  *)
(* left out: they are what SyscallStatusTruthful is about.                *)
(*                                                                         *)
(* The level of a toggle is not promised: gate_gpio_toggle() drives the   *)
(* line from an uninitialised local when mgr_io_read() fails.  A failed   *)
(* mgr_io_set/reset leaves the line as it was.  GpioGate implements this, *)
(* under the mapping given there.                                          *)
(***************************************************************************)
EXTENDS Naturals

CONSTANTS Tasks, Devices, Known, Owner, NumIos, MaxIo

Ios == 0..MaxIo

VARIABLES
  pins,  \* level of each io line of each known device
  exch,  \* svcexchange[0] of each task
  call   \* the last request: task, operation, device, io, level asked for

vars == <<pins, exch, call>>

(* A call the gates must carry out: a known device of the caller, and an  *)
(* io line it declares.                                                     *)
Permitted(t, d, io) == d \in Known /\ Owner[d] = t /\ io < NumIos[d]

Init ==
  /\ pins \in [Known -> [Ios -> BOOLEAN]]
  /\ exch = [t \in Tasks |-> FALSE]
  /\ call.op = "none"

Request(t, o, d, io, v) ==
  call' = [task |-> t, op |-> o, dev |-> d, io |-> io, val |-> v]

(* A refused call changes neither a line nor an svcexchange.              *)
Refused(t, d, io) == ~Permitted(t, d, io) /\ UNCHANGED <<pins, exch>>

(* A permitted write drives the named line to v, or fails and leaves it. *)
Write(d, io, v) ==
  /\ pins' \in {pins, [pins EXCEPT ![d][io] = v]}
  /\ UNCHANGED exch

Set ==
  \E t \in Tasks, d \in Devices, io \in Ios, v \in BOOLEAN :
    /\ Request(t, "set", d, io, v)
    /\ \/ Refused(t, d, io)
       \/ Permitted(t, d, io) /\ Write(d, io, v)

Reset ==
  \E t \in Tasks, d \in Devices, io \in Ios :
    /\ Request(t, "reset", d, io, FALSE)
    /\ \/ Refused(t, d, io)
       \/ Permitted(t, d, io) /\ Write(d, io, FALSE)

Get ==
  \E t \in Tasks, d \in Devices, io \in Ios :
    /\ Request(t, "get", d, io, FALSE)
    /\ \/ Refused(t, d, io)
       \/ /\ Permitted(t, d, io) /\ UNCHANGED pins
          /\ \/ UNCHANGED exch
             \/ \E b \in BOOLEAN : exch' = [exch EXCEPT ![t] = b]

Toggle ==
  \E t \in Tasks, d \in Devices, io \in Ios :
    /\ Request(t, "toggle", d, io, FALSE)
    /\ \/ Refused(t, d, io)
       \/ Permitted(t, d, io) /\ \E b \in BOOLEAN : Write(d, io, b)

Next == Set \/ Reset \/ Get \/ Toggle

Spec == Init /\ [][Next]_vars

=============================================================================
