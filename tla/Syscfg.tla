------------------------------- MODULE Syscfg -------------------------------
(***************************************************************************)
(* The STM32F4 SYSCFG driver, src/src/drivers/syscfg/stm32f4-syscfg.c:    *)
(* syscfg_probe(), syscfg_set_exti() and, on dual-bank parts,             *)
(* syscfg_switch_bank().  The driver is called from the kernel's own      *)
(* thread with nothing running beside it, so each function is one step.  *)
(*                                                                         *)
(* The registers are abstracted to the fields the functions touch: MEMRM  *)
(* as its FB_MODE bit and its MEM_MODE field, and the four EXTICR          *)
(* registers as their sixteen 4-bit fields, one per EXTI line.  PMC and    *)
(* CMPCR are only zeroed by the probe and are left out.  What            *)
(* syscfg_set_exti() computes (the EXTICR address, then gpio_port_id <<   *)
(* exticr_shift over it) stays in a local and is never written, so it is  *)
(* not kept.                                                               *)
(***************************************************************************)
EXTENDS Naturals, TLAPS

CONSTANTS
  DualBank,   \* CONFIG_HAS_FLASH_DUAL_BANK
  MaxPort,    \* MAX_EXTI_GPIO_PORT: 'J' on F429/F439, 'I' on F419
  PortIds,    \* the gpio_port_id values callers pass (character codes)
  PinIds      \* the gpio_pin_id values callers pass

OKAY == "K_STATUS_OKAY"
INVPARAM == "K_ERROR_INVPARAM"

CharA == 65   \* 'A'
Lines == 0..15
MemModes == 0..3

VARIABLES
  fbMode,   \* MEMRM.FB_MODE: which flash bank is mapped at 0x0
  memMode,  \* MEMRM.MEM_MODE: what is mapped at 0x0
  exticr,   \* the EXTICR field of each EXTI line: its source port index
  last      \* the last call: its name, arguments, status and the bank before it

vars == <<fbMode, memMode, exticr, last>>

(* Before the probe: EXTICR at its reset value, MEMRM as the boot pins   *)
(* and the boot stage left it.                                             *)
Init ==
  /\ fbMode \in BOOLEAN
  /\ memMode \in MemModes
  /\ exticr = [l \in Lines |-> 0]
  /\ last = [op |-> "none", pin |-> 0, port |-> 0, status |-> OKAY,
             fb |-> fbMode]

-----------------------------------------------------------------------------
(* syscfg_switch_bank(): read MEMRM, flip FB_MODE, write it back.         *)
SyscfgSwitchBank ==
  /\ DualBank
  /\ fbMode' = ~fbMode
  /\ last' = [last EXCEPT !.op = "switch_bank", !.fb = fbMode]
  /\ UNCHANGED <<memMode, exticr>>

(* syscfg_probe(): the FB_MODE bit is masked into the local reg, which is *)
(* never used; MEMRM, PMC, the four EXTICR and CMPCR are written with 0.  *)
SyscfgProbe ==
  /\ fbMode' = FALSE /\ memMode' = 0
  /\ exticr' = [l \in Lines |-> 0]
  /\ last' = [last EXCEPT !.op = "probe", !.status = OKAY, !.fb = fbMode]

(* syscfg_set_exti(pin, port): the port and pin bounds, each an early     *)
(* INVPARAM; then the register address is computed and overwritten with  *)
(* the shifted port, and the function returns OKAY without a write.      *)
SyscfgSetExti ==
  \E pin \in PinIds, port \in PortIds :
    /\ last' = [op |-> "set_exti", pin |-> pin, port |-> port,
                status |-> IF port > MaxPort \/ pin > 15 THEN INVPARAM
                           ELSE OKAY,
                fb |-> fbMode]
    /\ UNCHANGED <<fbMode, memMode, exticr>>

Next == SyscfgSwitchBank \/ SyscfgProbe \/ SyscfgSetExti

Spec == Init /\ [][Next]_vars

-----------------------------------------------------------------------------
(* After syscfg_set_exti(pin, port) returns K_STATUS_OKAY, EXTI line pin  *)
(* is routed to the port: its EXTICR field holds port - 'A', as the        *)
(* comment on the EXTICR encoding and the one on "set the corresponding   *)
(* value" say.                                                             *)
ExtiRoutedAsRequested ==
  (last.op = "set_exti" /\ last.status = OKAY) =>
    exticr[last.pin] = last.port - CharA

(* syscfg_probe() keeps the flash bank that was mapped at 0x0, as its     *)
(* comment "preserve currently selected bank" says: a probe after a bank  *)
(* switch must not map the other bank back.                                *)
ProbeKeepsBank == (last.op = "probe" /\ DualBank) => fbMode = last.fb

(* The SYSCFG driver does what its comments say: a successful set_exti   *)
(* routes its line, and a probe keeps the mapped bank.                   *)
SyscfgAsCommented == ExtiRoutedAsRequested /\ ProbeKeepsBank

-----------------------------------------------------------------------------
(* What the violation run shows, for every configuration: no            *)
(* sequence of probes, bank switches and set_exti calls ever writes an    *)
(* EXTICR field other than to 0, and the bank a probe leaves is always    *)
(* bank 1 (FB_MODE = 0), whatever was mapped before it.  The record type  *)
(* of last is what lets a step's EXCEPT on it be read.                    *)
SyscfgInv ==
  /\ last \in [op : {"none", "probe", "switch_bank", "set_exti"},
               pin : PinIds \cup {0}, port : PortIds \cup {0},
               status : {OKAY, INVPARAM}, fb : BOOLEAN]
  /\ fbMode \in BOOLEAN
  /\ exticr = [l \in Lines |-> 0]
  /\ last.op = "probe" => fbMode = FALSE

(* No step of the driver breaks it.                                        *)
LEMMA SyscfgInvHolds == Spec => []SyscfgInv
<1>1. Init => SyscfgInv
  BY DEF Init, SyscfgInv
<1>2. SyscfgInv /\ [Next]_vars => SyscfgInv'
  <2> SUFFICES ASSUME SyscfgInv, [Next]_vars PROVE SyscfgInv'
    OBVIOUS
  <2>1. CASE SyscfgSwitchBank
    BY <2>1 DEF SyscfgInv, SyscfgSwitchBank
  <2>2. CASE SyscfgProbe
    BY <2>2 DEF SyscfgInv, SyscfgProbe
  <2>3. CASE SyscfgSetExti
    BY <2>3 DEF SyscfgInv, SyscfgSetExti
  <2>4. CASE UNCHANGED vars
    BY <2>4 DEF SyscfgInv, vars
  <2>5. QED
    BY <2>1, <2>2, <2>3, <2>4 DEF Next
<1>3. QED
  BY <1>1, <1>2, PTL DEF Spec

(* Every syscfg_set_exti() that returns K_STATUS_OKAY leaves its line      *)
(* routed to port A: the EXTICR field it was asked to set still holds 0,  *)
(* so a caller asking for any other port gets OKAY for a routing that did *)
(* not happen.                                                             *)
THEOREM SetExtiNeverRoutes ==
  Spec => [](last.op = "set_exti" /\ last.status = OKAY /\ last.pin \in Lines
               => exticr[last.pin] = 0)
<1>1. SyscfgInv => (last.op = "set_exti" /\ last.status = OKAY
                      /\ last.pin \in Lines => exticr[last.pin] = 0)
  BY DEF SyscfgInv
<1>2. QED
  BY <1>1, SyscfgInvHolds, PTL

(* syscfg_probe() never preserves the selected bank: after a probe,       *)
(* FB_MODE is 0, even when syscfg_switch_bank() had mapped bank 2.        *)
THEOREM ProbeMapsBankOne ==
  Spec => [](last.op = "probe" => fbMode = FALSE)
BY SyscfgInvHolds, PTL DEF SyscfgInv

=============================================================================
