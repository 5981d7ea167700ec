------------------------------- MODULE RccBus -------------------------------
(***************************************************************************)
(* The bus clock gates of the STM32F4 RCC driver,                          *)
(* src/src/drivers/clk/stm32f4-rcc.c: rcc_get_register() computes the     *)
(* address of a bus's enable register, nominal or low-power, by offset     *)
(* arithmetic instead of a switch; rcc_enable() and rcc_disable() set or   *)
(* clear a mask in it by read-modify-write.                                *)
(*                                                                         *)
(* A register is its offset from RCC_BASE_ADDR and a mask the set of bits *)
(* it holds, so |= is union and &= ~ is set difference.  The state is the *)
(* whole register space above RCC_BASE_ADDR, so that a write the offset   *)
(* arithmetic sends past the enable registers is a change of state.  The offsets are  *)
(* those of RM0090 (section 7.3), which the driver's header cites.  The   *)
(* bus identifiers are generated from the SVD file: the AHB buses are    *)
(* numbered from 0 and the APB buses from BusApb1 (BUS_APB1) on.  The     *)
(* driver runs in the kernel's own thread, one call at a time.            *)
(***************************************************************************)
EXTENDS Naturals, TLAPS

CONSTANT BusApb1   \* BUS_APB1

(* Register offsets of RM0090, table 34.                                   *)
RCC_AHB1ENR_REG == 48     \* 0x30
RCC_APB1ENR_REG == 64     \* 0x40
RCC_AHB1LPENR_REG == 80   \* 0x50

(* The buses of an STM32F4 and their identifiers.                          *)
AhbIds == 0..2                        \* AHB1, AHB2, AHB3
ApbIds == {BusApb1, BusApb1 + 1}      \* APB1, APB2
BusIds == AhbIds \cup ApbIds

(* The enable register of each bus as RM0090 lists it: nominal, and for   *)
(* the RCC_LPCONFIG flag the low-power one.                                *)
ManualOffset(busid, lp) ==
  LET nominal == IF busid \in AhbIds THEN 48 + 4 * busid
                 ELSE 64 + 4 * (busid - BusApb1)
  IN  IF lp THEN nominal + 32 ELSE nominal

Offsets == {ManualOffset(b, lp) : b \in BusIds, lp \in BOOLEAN}
Bits == 0..31

(* rcc_get_register(busid, flags): the low-power base or the nominal one, *)
(* then the AHB offset busid * 4, or the distance to APB1ENR plus         *)
(* (busid - BUS_APB1) * 4.                                                 *)
RccGetRegister(busid, lp) ==
  LET base == IF lp THEN RCC_AHB1LPENR_REG ELSE RCC_AHB1ENR_REG
  IN  IF busid < BusApb1
        THEN base + busid * 4
        ELSE base + (RCC_APB1ENR_REG - RCC_AHB1ENR_REG) + (busid - BusApb1) * 4

VARIABLE enr   \* the bits set in the register at each offset from RCC_BASE_ADDR

vars == <<enr>>

Init == enr \in [Nat -> SUBSET Bits]

(* rcc_enable(busid, clk_msk, flags): read, or in the mask, write back.   *)
RccEnable(busid, msk, lp) ==
  enr' = [enr EXCEPT ![RccGetRegister(busid, lp)] = @ \cup msk]

(* rcc_disable(busid, clk_msk, flags): read, mask out, write back.        *)
RccDisable(busid, msk, lp) ==
  enr' = [enr EXCEPT ![RccGetRegister(busid, lp)] = @ \ msk]

Next == \E b \in BusIds, msk \in SUBSET Bits, lp \in BOOLEAN :
          RccEnable(b, msk, lp) \/ RccDisable(b, msk, lp)

Spec == Init /\ [][Next]_vars

-----------------------------------------------------------------------------
(* The generated numbering puts every AHB identifier below BUS_APB1, the  *)
(* test rcc_get_register() uses to tell the two kinds of bus apart.       *)
BusNumbering == BusApb1 \in Nat /\ BusApb1 >= 3

(* rcc_get_register() computes the register RM0090 assigns to every bus  *)
(* and flag, for every BUS_APB1 above the three AHB buses (empty slots    *)
(* between them included): the arithmetic replacing the switch of the     *)
(* comment loses no case.                                                  *)
THEOREM GetRegisterIsManual ==
  ASSUME BusNumbering
  PROVE  \A b \in BusIds, lp \in BOOLEAN :
           RccGetRegister(b, lp) = ManualOffset(b, lp)
BY DEF BusNumbering, BusIds, AhbIds, ApbIds, RccGetRegister, ManualOffset,
       RCC_AHB1ENR_REG, RCC_APB1ENR_REG, RCC_AHB1LPENR_REG

(* Two different buses, or the nominal and the low-power register of one  *)
(* bus, never share an enable register: enabling a device's clock cannot  *)
(* switch another bus's device on or off.                                  *)
THEOREM RegistersDistinct ==
  ASSUME BusNumbering
  PROVE  \A b1, b2 \in BusIds, lp1, lp2 \in BOOLEAN :
           RccGetRegister(b1, lp1) = RccGetRegister(b2, lp2)
             => b1 = b2 /\ lp1 = lp2
<1>1. \A b1, b2 \in BusIds, lp1, lp2 \in BOOLEAN :
        ManualOffset(b1, lp1) = ManualOffset(b2, lp2) => b1 = b2 /\ lp1 = lp2
  BY DEF BusNumbering, BusIds, AhbIds, ApbIds, ManualOffset
<1>2. QED
  BY <1>1, GetRegisterIsManual

(* rcc_enable() and rcc_disable() change the bits of the one register of *)
(* their bus and flag, and no other register; within it, enabling adds   *)
(* exactly the mask and disabling removes exactly the mask.               *)
THEOREM GateTouchesOnlyItsRegister ==
  ASSUME BusNumbering, enr \in [Nat -> SUBSET Bits],
         NEW b \in BusIds, NEW msk \in SUBSET Bits, NEW lp \in BOOLEAN,
         RccEnable(b, msk, lp) \/ RccDisable(b, msk, lp)
  PROVE  /\ enr' \in [Nat -> SUBSET Bits]
         /\ RccGetRegister(b, lp) \in Offsets
         /\ \A r \in Nat : r # RccGetRegister(b, lp) => enr'[r] = enr[r]
         /\ LET r == RccGetRegister(b, lp)
            IN  enr'[r] = enr[r] \cup msk \/ enr'[r] = enr[r] \ msk
<1>1. RccGetRegister(b, lp) \in Offsets
  BY GetRegisterIsManual DEF Offsets
<1>2. Offsets \subseteq Nat
  BY DEF BusNumbering, Offsets, BusIds, AhbIds, ApbIds, ManualOffset
<1>3. QED
  BY <1>1, <1>2 DEF RccEnable, RccDisable

(* The register file keeps its shape: 32 bits at every offset.            *)
RccTyped == enr \in [Nat -> SUBSET Bits]

(* No step of the clock gates changes a register other than the ten bus   *)
(* enable registers (nominal and low-power) of RM0090: whatever sequence  *)
(* of rcc_enable()/rcc_disable() calls the drivers make, the offset       *)
(* arithmetic of rcc_get_register() never lands on RCC_CR, CFGR, PLLCFGR, *)
(* a reset register or a reserved slot.                                   *)
OnlyEnableRegistersWritten == \A r \in Nat \ Offsets : enr'[r] = enr[r]

THEOREM GatesWriteOnlyEnableRegisters ==
  ASSUME BusNumbering
  PROVE  Spec => [][OnlyEnableRegistersWritten]_vars
<1>1. Init => RccTyped
  BY DEF Init, RccTyped
<1>2. RccTyped /\ [Next]_vars => RccTyped' /\ [OnlyEnableRegistersWritten]_vars
  <2> SUFFICES ASSUME RccTyped, [Next]_vars
               PROVE  RccTyped' /\ [OnlyEnableRegistersWritten]_vars
    OBVIOUS
  <2>1. CASE Next
    <3>1. PICK b \in BusIds, msk \in SUBSET Bits, lp \in BOOLEAN :
            RccEnable(b, msk, lp) \/ RccDisable(b, msk, lp)
      BY <2>1 DEF Next
    <3>2. QED
      BY <3>1, GateTouchesOnlyItsRegister
         DEF RccTyped, OnlyEnableRegistersWritten
  <2>2. CASE UNCHANGED vars
    BY <2>2 DEF vars, RccTyped
  <2>3. QED
    BY <2>1, <2>2
<1>3. QED
  BY <1>1, <1>2, PTL DEF Spec

=============================================================================
