-------------------------- MODULE ClockStart_proofs --------------------------
(***************************************************************************)
(* Proofs about clk_set_system_clk() (ClockStart), for every timeout.     *)
(* The argument is one inductive invariant, ClockInv: the hardware never  *)
(* reports the HSE pattern in CFGR.SWS; once the oscillator poll is       *)
(* passed, the requested oscillator is on exactly when it is the HSI (the *)
(* voltage-scaling write cleared HSEON) and, while on, stable; a PLL is   *)
(* only locked on the HSI; and a return with K_STATUS_OKAY only happens   *)
(* on the path without a PLL.                                             *)
(***************************************************************************)
EXTENDS ClockStart, TLAPS

USE ClockConstants DEF OKAY, NOTREADY

(* The variables keep their types.                                        *)
TypeOK ==
  /\ enableHse \in BOOLEAN /\ enablePll \in BOOLEAN
  /\ oscOn \in BOOLEAN /\ oscRdy \in BOOLEAN /\ pllOn \in BOOLEAN
  /\ pllRdy \in BOOLEAN /\ swReq \in BOOLEAN
  /\ pc \in {"osc", "pll", "sw", "done"}
  /\ counter \in Nat
  /\ sws \in Sources /\ seen \in Sources
  /\ status \in {OKAY, NOTREADY}

(* The oscillator left behind by the voltage-scaling write: on exactly    *)
(* when it is the HSI, and then stable.                                   *)
OscAfterVos == (oscOn <=> ~enableHse) /\ (oscOn => oscRdy)

(* What the code and the hardware have established at each point.        *)
ClockInv ==
  /\ TypeOK
  /\ sws \in {"HSI", "PLL"}
  /\ pllRdy => pllOn
  /\ pllOn => enablePll /\ (oscOn <=> ~enableHse)
  /\ pllRdy => ~enableHse
  /\ pc \in {"osc", "pll", "sw"} => status = OKAY
  /\ pc \in {"pll", "sw"} => pllOn /\ OscAfterVos
  /\ pc = "sw" => pllRdy
  /\ (pc = "done" /\ status = OKAY) => ~enablePll /\ OscAfterVos

(* The initial states satisfy the invariant.                               *)
LEMMA ClockInit == Init => ClockInv
<1> SUFFICES ASSUME Init PROVE ClockInv
  OBVIOUS
<1>1. TypeOK
  BY DEF Init, TypeOK, Sources
<1>2. QED
  BY <1>1 DEF Init, ClockInv

(* Every step, of the code or of the hardware, preserves it.               *)
LEMMA ClockStep == ClockInv /\ [Next]_vars => ClockInv'
<1> SUFFICES ASSUME ClockInv, [Next]_vars PROVE ClockInv'
  OBVIOUS
<1>1. CASE OscPoll
  <2>1. CASE ~oscRdy /\ counter + 1 # Timeout
    BY <1>1, <2>1 DEF OscPoll, ClockInv, TypeOK, OscAfterVos
  <2>2. CASE ~oscRdy /\ ~(counter + 1 # Timeout)
    BY <1>1, <2>2 DEF OscPoll, ClockInv, TypeOK, OscAfterVos
  <2>3. CASE oscRdy /\ enablePll
    <3>1. /\ pc = "osc" /\ pc' = "pll" /\ pllOn' = TRUE /\ oscOn' = ~enableHse
          /\ counter' = 0 /\ status' = status
          /\ UNCHANGED <<enableHse, enablePll, oscRdy, pllRdy, swReq, sws,
                         seen>>
      BY <1>1, <2>3 DEF OscPoll, VosWrite, ClockInv, TypeOK
    <3>2. TypeOK'
      BY <3>1 DEF ClockInv, TypeOK
    <3>3. QED
      BY <2>3, <3>1, <3>2, Zenon DEF ClockInv, OscAfterVos
  <2>4. CASE oscRdy /\ ~enablePll
    <3>1. /\ pc = "osc" /\ pc' = "done" /\ pllOn' = pllOn /\ oscOn' = ~enableHse
          /\ counter' = counter + 1 /\ status' = status
          /\ UNCHANGED <<enableHse, enablePll, oscRdy, pllRdy, swReq, sws,
                         seen>>
      BY <1>1, <2>4 DEF OscPoll, VosWrite, ClockInv, TypeOK
    <3>2. TypeOK'
      BY <3>1 DEF ClockInv, TypeOK
    <3>3. QED
      BY <2>4, <3>1, <3>2, Zenon DEF ClockInv, OscAfterVos
  <2>5. QED
    BY <2>1, <2>2, <2>3, <2>4 DEF ClockInv, TypeOK
<1>2. CASE PllPoll
  <2>1. CASE pllRdy
    BY <1>2, <2>1 DEF PllPoll, ClockInv, TypeOK, OscAfterVos
  <2>2. CASE ~pllRdy /\ counter + 1 < Timeout
    BY <1>2, <2>2 DEF PllPoll, ClockInv, TypeOK, OscAfterVos
  <2>3. CASE ~pllRdy /\ ~(counter + 1 < Timeout)
    BY <1>2, <2>3 DEF PllPoll, ClockInv, TypeOK, OscAfterVos
  <2>4. QED
    BY <2>1, <2>2, <2>3 DEF ClockInv, TypeOK
<1>3. CASE SwPoll
  BY <1>3 DEF SwPoll, ClockInv, TypeOK, OscAfterVos, Sources
<1>4. CASE OscStabilises
  BY <1>4 DEF OscStabilises, ClockInv, TypeOK, OscAfterVos
<1>5. CASE OscStops
  BY <1>5 DEF OscStops, ClockInv, TypeOK, OscAfterVos
<1>6. CASE PllLocks
  BY <1>6 DEF PllLocks, ClockInv, TypeOK, OscAfterVos
<1>7. CASE SwitchLands
  BY <1>7 DEF SwitchLands, ClockInv, TypeOK, OscAfterVos, Sources
<1>8. CASE Done \/ UNCHANGED vars
  BY <1>8 DEF Done, vars, ClockInv, TypeOK, OscAfterVos
<1>9. QED
  BY <1>1, <1>2, <1>3, <1>4, <1>5, <1>6, <1>7, <1>8
     DEF Next, Code, Hardware

(* The invariant holds in every reachable state.                           *)
THEOREM ClockInvHolds == Spec => []ClockInv
BY ClockInit, ClockStep, PTL DEF Spec

(* clk_set_system_clk() returns K_STATUS_OKAY only without a PLL, and    *)
(* then with the HSE switched off when the HSE was asked for (line 142    *)
(* writes the PWR_CR value over RCC_CR), and with the HSI on and stable   *)
(* otherwise: the voltage-scaling defect, for every timeout.              *)
OkayClock ==
  (pc = "done" /\ status = OKAY) =>
    /\ ~enablePll
    /\ enableHse => ~oscOn
    /\ ~enableHse => oscOn /\ oscRdy

THEOREM OkayLeavesHseOff == Spec => []OkayClock
<1>1. ClockInv => OkayClock
  BY DEF ClockInv, TypeOK, OscAfterVos, OkayClock
<1>2. QED
  BY <1>1, ClockInvHolds, PTL

(* A PLL fed by the HSE never locks, since HSEON was cleared before PLLON *)
(* was set: with enable_hse and enable_pll the PLL poll of                *)
(* clk_set_system_clk() always runs into its timeout.                     *)
THEOREM HsePllNeverLocks == Spec => [](enableHse => ~pllRdy)
<1>1. ClockInv => (enableHse => ~pllRdy)
  BY DEF ClockInv, TypeOK
<1>2. QED
  BY <1>1, ClockInvHolds, PTL

(* With a PLL asked for, clk_set_system_clk() never returns               *)
(* K_STATUS_OKAY, however fast the oscillator, the PLL and the switch     *)
(* become ready: the switch poll waits for the HSE pattern of CFGR.SWS    *)
(* after selecting the PLL -- where the comment "Wait till the main PLL   *)
(* is used as system clock source" has it end once the PLL is the system  *)
(* clock.  The SWS-pattern defect, for every timeout.                     *)
PllStartNeverOkay == (pc = "done" /\ enablePll) => status = NOTREADY

THEOREM PllNeverOkay == Spec => []PllStartNeverOkay
<1>1. ClockInv => PllStartNeverOkay
  BY DEF ClockInv, TypeOK, PllStartNeverOkay
<1>2. QED
  BY <1>1, ClockInvHolds, PTL

=============================================================================
