--------------------------- MODULE GpioGate_proofs ---------------------------
(***************************************************************************)
(* Proofs about the GPIO system-call gates (GpioGate), for every set of  *)
(* tasks and devices, ownership map and io counts allowed by             *)
(* GpioConstants.  Both properties are action properties: every step     *)
(* that changes a line or a task's svcexchange was a call that passed    *)
(* the gate's checks.  They need no strengthening beyond the type of the *)
(* state the gates write, because each gate decides from the state it    *)
(* reads and records its call in last.                                   *)
(***************************************************************************)
EXTENDS GpioGate, TLAPS

USE GpioConstants

(* The state the gates write keeps its type.                              *)
TypeOK ==
  /\ pins \in [Known -> [Ios -> BOOLEAN]]
  /\ ret \in [Tasks -> Returns]
  /\ exch \in [Tasks -> BOOLEAN]

(* The step conditions of the two action properties.                      *)
PinsStep ==
  \A d \in Known, i \in Ios :
    pins'[d][i] # pins[d][i] =>
      /\ last'.task = Owner[d] /\ last'.dev = d /\ last'.io = i
      /\ i < NumIos[d]

ExchStep ==
  \A t \in Tasks :
    exch'[t] # exch[t] =>
      /\ last'.task = t /\ last'.op = "get"
      /\ Accepted(t, last'.dev, last'.io)

(* An accepted call names a known device of the caller and a declared    *)
(* line of it.                                                             *)
LEMMA AcceptedLine ==
  ASSUME NEW t, NEW d, NEW io \in Ios, Accepted(t, d, io)
  PROVE  d \in Known /\ Owner[d] = t /\ io < NumIos[d]
BY DEF Accepted, DoOwnDev, Ios

(* A rejected call changes neither the lines nor any svcexchange.          *)
LEMMA RejectFrame ==
  ASSUME TypeOK, NEW t \in Tasks, NEW d, NEW io, Reject(t, d, io)
  PROVE  pins' = pins /\ exch' = exch /\ ret' \in [Tasks -> Returns]
BY DEF Reject, RejectCode, TypeOK, Returns

(* Driving an accepted line changes that line only, to a Boolean.        *)
LEMMA DriveFrame ==
  ASSUME TypeOK, NEW t \in Tasks, NEW d, NEW io \in Ios, NEW v \in BOOLEAN,
         Accepted(t, d, io), Drive(t, d, io, v)
  PROVE  /\ pins' \in [Known -> [Ios -> BOOLEAN]]
         /\ ret' \in [Tasks -> Returns]
         /\ \A d2 \in Known, i \in Ios :
              pins'[d2][i] # pins[d2][i] => d2 = d /\ i = io
<1>1. d \in Known
  BY AcceptedLine
<1>2. CASE pins' = [pins EXCEPT ![d][io] = v]
           /\ ret' = [ret EXCEPT ![t] = STATUS_INVALID]
  <2>1. pins' \in [Known -> [Ios -> BOOLEAN]]
    BY <1>1, <1>2 DEF TypeOK
  <2>2. \A d2 \in Known, i \in Ios :
          pins'[d2][i] # pins[d2][i] => d2 = d /\ i = io
    BY <1>1, <1>2 DEF TypeOK
  <2>3. QED
    BY <1>2, <2>1, <2>2 DEF TypeOK, Returns
<1>3. CASE UNCHANGED pins /\ ret' = [ret EXCEPT ![t] = STATUS_OK]
  BY <1>3 DEF TypeOK, Returns
<1>4. QED
  BY <1>2, <1>3 DEF Drive

(* A rejected call satisfies both step conditions.                         *)
LEMMA RejectStep ==
  ASSUME TypeOK, NEW t \in Tasks, NEW d, NEW io, Reject(t, d, io)
  PROVE  PinsStep /\ ExchStep
BY RejectFrame DEF PinsStep, ExchStep

(* So does an accepted call that drives a line and leaves svcexchange.     *)
LEMMA DriveStep ==
  ASSUME TypeOK, NEW t \in Tasks, NEW d, NEW io \in Ios, NEW v \in BOOLEAN,
         Accepted(t, d, io), Drive(t, d, io, v), UNCHANGED exch,
         last'.task = t, last'.dev = d, last'.io = io
  PROVE  PinsStep /\ ExchStep
<1>1. PinsStep
  BY DriveFrame, AcceptedLine DEF PinsStep
<1>2. ExchStep
  BY DEF ExchStep
<1>3. QED
  BY <1>1, <1>2

(* The gates keep the state well typed.                                    *)
LEMMA GateTyped == Spec => []TypeOK
<1>1. Init => TypeOK
  BY DEF Init, TypeOK, Returns
<1>2. TypeOK /\ [Next]_vars => TypeOK'
  <2> SUFFICES ASSUME TypeOK, [Next]_vars PROVE TypeOK'
    OBVIOUS
  <2>1. CASE GateGpioSet
    <3>1. PICK t \in Tasks, d \in Devices, io \in Ios, v \in BOOLEAN :
            \/ Reject(t, d, io)
            \/ Accepted(t, d, io) /\ Drive(t, d, io, v) /\ UNCHANGED exch
      BY <2>1 DEF GateGpioSet
    <3>2. QED
      BY <3>1, RejectFrame, DriveFrame DEF TypeOK
  <2>2. CASE GateGpioReset
    <3>1. PICK t \in Tasks, d \in Devices, io \in Ios :
            \/ Reject(t, d, io)
            \/ Accepted(t, d, io) /\ Drive(t, d, io, FALSE) /\ UNCHANGED exch
      BY <2>2 DEF GateGpioReset
    <3>2. QED
      BY <3>1, RejectFrame, DriveFrame DEF TypeOK
  <2>3. CASE GateGpioGet
    <3>1. PICK t \in Tasks, d \in Devices, io \in Ios :
            \/ Reject(t, d, io)
            \/ /\ Accepted(t, d, io) /\ UNCHANGED pins
               /\ \/ ret' = [ret EXCEPT ![t] = STATUS_INVALID] /\ UNCHANGED exch
                  \/ \E g \in BOOLEAN : exch' = [exch EXCEPT ![t] = g]
                                        /\ ret' = [ret EXCEPT ![t] = STATUS_OK]
      BY <2>3 DEF GateGpioGet
    <3>2. QED
      BY <3>1, RejectFrame DEF TypeOK, Returns
  <2>4. CASE GateGpioToggle
    <3>1. PICK t \in Tasks, d \in Devices, io \in Ios :
            \/ Reject(t, d, io)
            \/ /\ Accepted(t, d, io) /\ UNCHANGED exch
               /\ \/ ret' = [ret EXCEPT ![t] = STATUS_INVALID] /\ UNCHANGED pins
                  \/ \E g \in BOOLEAN : Drive(t, d, io, ~g)
      BY <2>4 DEF GateGpioToggle
    <3>2. QED
      BY <3>1, RejectFrame, DriveFrame DEF TypeOK, Returns
  <2>5. CASE UNCHANGED vars
    BY <2>5 DEF vars, TypeOK
  <2>6. QED
    BY <2>1, <2>2, <2>3, <2>4, <2>5 DEF Next
<1>3. QED
  BY <1>1, <1>2, PTL DEF Spec

-----------------------------------------------------------------------------
(* Every gate step satisfies both step conditions.                         *)
LEMMA GateStep == TypeOK /\ [Next]_vars => PinsStep /\ ExchStep
<1> SUFFICES ASSUME TypeOK, [Next]_vars PROVE PinsStep /\ ExchStep
  OBVIOUS
<1>1. CASE GateGpioSet
  <2>1. PICK t \in Tasks, d \in Devices, io \in Ios, v \in BOOLEAN :
          /\ Record(t, "set", d, io, v)
          /\ \/ Reject(t, d, io)
             \/ Accepted(t, d, io) /\ Drive(t, d, io, v) /\ UNCHANGED exch
    BY <1>1 DEF GateGpioSet
  <2>2. last'.task = t /\ last'.dev = d /\ last'.io = io
    BY <2>1 DEF Record
  <2>3. QED
    BY <2>1, <2>2, RejectStep, DriveStep
<1>2. CASE GateGpioReset
  <2>1. PICK t \in Tasks, d \in Devices, io \in Ios :
          /\ Record(t, "reset", d, io, FALSE)
          /\ \/ Reject(t, d, io)
             \/ Accepted(t, d, io) /\ Drive(t, d, io, FALSE) /\ UNCHANGED exch
    BY <1>2 DEF GateGpioReset
  <2>2. last'.task = t /\ last'.dev = d /\ last'.io = io
    BY <2>1 DEF Record
  <2>3. QED
    BY <2>1, <2>2, RejectStep, DriveStep
<1>3. CASE GateGpioGet
  <2>1. PICK t \in Tasks, d \in Devices, io \in Ios :
          /\ Record(t, "get", d, io, FALSE)
          /\ \/ Reject(t, d, io)
             \/ /\ Accepted(t, d, io) /\ UNCHANGED pins
                /\ \/ UNCHANGED exch
                   \/ \E g \in BOOLEAN : exch' = [exch EXCEPT ![t] = g]
    BY <1>3 DEF GateGpioGet
  <2>2. last'.task = t /\ last'.op = "get" /\ last'.dev = d /\ last'.io = io
    BY <2>1 DEF Record
  <2>3. \A t2 \in Tasks : exch'[t2] # exch[t2] => t2 = t /\ Accepted(t, d, io)
    BY <2>1, RejectFrame DEF TypeOK
  <2>4. QED
    BY <2>1, <2>2, <2>3, RejectFrame DEF PinsStep, ExchStep
<1>4. CASE GateGpioToggle
  <2>1. PICK t \in Tasks, d \in Devices, io \in Ios :
          /\ Record(t, "toggle", d, io, FALSE)
          /\ \/ Reject(t, d, io)
             \/ /\ Accepted(t, d, io) /\ UNCHANGED exch
                /\ \/ UNCHANGED pins
                   \/ \E g \in BOOLEAN : Drive(t, d, io, ~g)
    BY <1>4 DEF GateGpioToggle
  <2>2. last'.task = t /\ last'.dev = d /\ last'.io = io
    BY <2>1 DEF Record
  <2>3. CASE Reject(t, d, io)
    BY <2>3, RejectStep
  <2>4. CASE UNCHANGED exch /\ UNCHANGED pins
    BY <2>4 DEF PinsStep, ExchStep
  <2>5. CASE Accepted(t, d, io) /\ UNCHANGED exch
             /\ \E g \in BOOLEAN : Drive(t, d, io, ~g)
    <3>1. PICK g \in BOOLEAN : Drive(t, d, io, ~g)
      BY <2>5
    <3>2. QED
      BY <2>2, <2>5, <3>1, DriveStep
  <2>6. QED
    BY <2>1, <2>3, <2>4, <2>5
<1>5. CASE UNCHANGED vars
  BY <1>5 DEF vars, PinsStep, ExchStep
<1>6. QED
  BY <1>1, <1>2, <1>3, <1>4, <1>5 DEF Next

(* Only the owner of a device changes its lines, and only lines the      *)
(* device declares: do_own_dev() and the num_ios bound guard every write *)
(* of gate_gpio_set/reset/toggle.                                          *)
THEOREM OwnerOnlyDrives == Spec => PinsDrivenOnlyByOwner
BY GateTyped, GateStep, PTL DEF Spec, PinsDrivenOnlyByOwner, PinsStep

(* A task's svcexchange is written only by its own gate_gpio_get() that  *)
(* passed every check: no task reads a line of another task's device.    *)
THEOREM ExchangeGuarded == Spec => SvcExchangeOnlyAfterChecks
BY GateTyped, GateStep, PTL DEF Spec, SvcExchangeOnlyAfterChecks, ExchStep

-----------------------------------------------------------------------------
(* Refinement of GpioContract.  The three checks of a gate are the         *)
(* contract's permission: io >= num_ios rejects exactly the io lines the   *)
(* device does not declare.                                                 *)
LEMMA AcceptedIsPermitted ==
  ASSUME NEW t, NEW d, NEW io \in Ios
  PROVE  Accepted(t, d, io) <=> Contract!Permitted(t, d, io)
BY DEF Accepted, DoOwnDev, Contract!Permitted, Ios

(* Recording a call is the contract's request, the level before left out. *)
LEMMA RecordIsRequest ==
  ASSUME NEW t, NEW o, NEW d, NEW io, NEW v, Record(t, o, d, io, v)
  PROVE  Contract!Request(t, o, d, io, v)
BY DEF Record, Contract!Request

(* A rejected call is a refused one.                                        *)
LEMMA RejectIsRefused ==
  ASSUME TypeOK, NEW t \in Tasks, NEW d, NEW io \in Ios, Reject(t, d, io)
  PROVE  Contract!Refused(t, d, io)
BY RejectFrame, AcceptedIsPermitted DEF Reject, Contract!Refused

(* Driving an accepted line is a permitted write.                           *)
LEMMA DriveIsWrite ==
  ASSUME NEW t, NEW d, NEW io, NEW v, Drive(t, d, io, v), UNCHANGED exch
  PROVE  Contract!Write(d, io, v)
BY DEF Drive, Contract!Write

(* The initial state of the gates is one of the contract.                  *)
LEMMA GpioMapInit == Init => Contract!Init
BY DEF Init, Contract!Init, Contract!Ios, Ios

(* Every gate call is a contract step of the same operation.               *)
LEMMA GpioMapStep == TypeOK /\ [Next]_vars => [Contract!Next]_Contract!vars
<1> SUFFICES ASSUME TypeOK, [Next]_vars PROVE [Contract!Next]_Contract!vars
  OBVIOUS
<1>0. Ios = Contract!Ios
  BY DEF Ios, Contract!Ios
<1>1. CASE GateGpioSet
  <2>1. PICK t \in Tasks, d \in Devices, io \in Ios, v \in BOOLEAN :
          /\ Record(t, "set", d, io, v)
          /\ \/ Reject(t, d, io)
             \/ Accepted(t, d, io) /\ Drive(t, d, io, v) /\ UNCHANGED exch
    BY <1>1 DEF GateGpioSet
  <2>2. Contract!Request(t, "set", d, io, v)
    BY <2>1, RecordIsRequest
  <2>3. \/ Contract!Refused(t, d, io)
        \/ Contract!Permitted(t, d, io) /\ Contract!Write(d, io, v)
    BY <2>1, RejectIsRefused, AcceptedIsPermitted, DriveIsWrite
  <2>4. QED
    BY <1>0, <2>2, <2>3 DEF Contract!Next, Contract!Set
<1>2. CASE GateGpioReset
  <2>1. PICK t \in Tasks, d \in Devices, io \in Ios :
          /\ Record(t, "reset", d, io, FALSE)
          /\ \/ Reject(t, d, io)
             \/ Accepted(t, d, io) /\ Drive(t, d, io, FALSE) /\ UNCHANGED exch
    BY <1>2 DEF GateGpioReset
  <2>2. Contract!Request(t, "reset", d, io, FALSE)
    BY <2>1, RecordIsRequest
  <2>3. \/ Contract!Refused(t, d, io)
        \/ Contract!Permitted(t, d, io) /\ Contract!Write(d, io, FALSE)
    BY <2>1, RejectIsRefused, AcceptedIsPermitted, DriveIsWrite
  <2>4. QED
    BY <1>0, <2>2, <2>3 DEF Contract!Next, Contract!Reset
<1>3. CASE GateGpioGet
  <2>1. PICK t \in Tasks, d \in Devices, io \in Ios :
          /\ Record(t, "get", d, io, FALSE)
          /\ \/ Reject(t, d, io)
             \/ /\ Accepted(t, d, io) /\ UNCHANGED pins
                /\ \/ UNCHANGED exch
                   \/ \E b \in BOOLEAN : exch' = [exch EXCEPT ![t] = b]
    BY <1>3 DEF GateGpioGet
  <2>2. Contract!Request(t, "get", d, io, FALSE)
    BY <2>1, RecordIsRequest
  <2>3. \/ Contract!Refused(t, d, io)
        \/ /\ Contract!Permitted(t, d, io) /\ UNCHANGED pins
           /\ \/ UNCHANGED exch
              \/ \E b \in BOOLEAN : exch' = [exch EXCEPT ![t] = b]
    BY <2>1, RejectIsRefused, AcceptedIsPermitted
  <2>4. QED
    BY <1>0, <2>2, <2>3 DEF Contract!Next, Contract!Get
<1>4. CASE GateGpioToggle
  <2>1. PICK t \in Tasks, d \in Devices, io \in Ios :
          /\ Record(t, "toggle", d, io, FALSE)
          /\ \/ Reject(t, d, io)
             \/ /\ Accepted(t, d, io) /\ UNCHANGED exch
                /\ \/ UNCHANGED pins
                   \/ \E g \in BOOLEAN : Drive(t, d, io, ~g)
    BY <1>4 DEF GateGpioToggle
  <2>2. Contract!Request(t, "toggle", d, io, FALSE)
    BY <2>1, RecordIsRequest
  <2>3. \/ Contract!Refused(t, d, io)
        \/ Contract!Permitted(t, d, io) /\ \E b \in BOOLEAN : Contract!Write(d, io, b)
    <3>1. CASE Reject(t, d, io)
      BY <3>1, RejectIsRefused
    <3>2. CASE Accepted(t, d, io) /\ UNCHANGED exch /\ UNCHANGED pins
      <4>1. Contract!Write(d, io, FALSE)
        BY <3>2 DEF Contract!Write
      <4>2. QED
        BY <3>2, <4>1, AcceptedIsPermitted
    <3>3. CASE Accepted(t, d, io) /\ UNCHANGED exch
               /\ \E g \in BOOLEAN : Drive(t, d, io, ~g)
      <4>1. PICK g \in BOOLEAN : Drive(t, d, io, ~g)
        BY <3>3
      <4>2. Contract!Write(d, io, ~g)
        BY <3>3, <4>1, DriveIsWrite
      <4>3. QED
        BY <3>3, <4>2, AcceptedIsPermitted
    <3>4. QED
      BY <2>1, <3>1, <3>2, <3>3
  <2>4. QED
    BY <1>0, <2>2, <2>3 DEF Contract!Next, Contract!Toggle
<1>5. CASE UNCHANGED vars
  BY <1>5 DEF vars, Contract!vars
<1>6. QED
  BY <1>1, <1>2, <1>3, <1>4, <1>5 DEF Next

(* The gates implement GpioContract for every configuration: whatever     *)
(* tasks call, a line changes only by a permitted call naming it, a set   *)
(* or reset only to the level asked for, and an svcexchange only by a      *)
(* permitted get of its own task.                                           *)
THEOREM ImplementsContract == Spec => ImplementsGpioContract
<1>1. []TypeOK /\ [][Next]_vars => [][Contract!Next]_Contract!vars
  BY GpioMapStep, PTL
<1>2. QED
  BY GpioMapInit, GateTyped, <1>1, PTL
  DEF Spec, ImplementsGpioContract, Contract!Spec

=============================================================================
