----------------------------- MODULE ClockStart -----------------------------
(***************************************************************************)
(* System clock start-up of the STM32F4 RCC driver, clk_set_system_clk()  *)
(* in src/src/drivers/clk/stm32f4-rcc.c: enable the oscillator (HSE or    *)
(* HSI) and poll its ready bit; if a PLL is asked for, configure and      *)
(* enable it, poll PLLRDY, select it as system clock and poll CFGR.SWS.  *)
(* Every poll loop is bounded by a timeout (0x500 in the code, Timeout   *)
(* here).                                                                  *)
(*                                                                         *)
(* The hardware runs beside the code: a ready bit may rise at any time    *)
(* after its unit is enabled, or never, and falls once its oscillator is  *)
(* switched off; the PLL locks only while its source runs; the clock      *)
(* switch takes effect at any time after it is requested and the PLL is   *)
(* locked.  The register writes that configure dividers and the PLL       *)
(* factors are folded into the step that follows them.                    *)
(***************************************************************************)
EXTENDS Naturals

CONSTANT Timeout   \* HSE/HSI/PLL_STARTUP_TIMEOUT

ASSUME ClockConstants == Timeout \in Nat \ {0}

OKAY == "K_STATUS_OKAY"
NOTREADY == "K_ERROR_NOTREADY"

(* CFGR.SWS as the code decodes it: SWS0 alone is the HSE pattern.       *)
Sources == {"HSI", "HSE", "PLL"}

VARIABLES
  enableHse, \* the enable_hse argument: which oscillator is requested
  enablePll, \* the enable_pll argument
  pc,        \* "osc", "pll", "sw" (the three poll loops), "done"
  counter,   \* StartUpCounter
  oscOn,     \* RCC_CR.HSEON / HSION of the requested oscillator
  oscRdy,    \* RCC_CR.HSERDY / HSIRDY as the hardware drives it
  pllOn,     \* RCC_CR.PLLON written
  pllRdy,    \* RCC_CR.PLLRDY
  swReq,     \* CFGR.SW selects the PLL
  sws,       \* CFGR.SWS: the source the hardware reports
  seen,      \* the last SWS value the switch poll read
  status     \* the returned kstatus_t

vars == <<enableHse, enablePll, pc, counter, oscOn, oscRdy, pllOn, pllRdy,
          swReq, sws, seen, status>>

(* The first lines: HSEON or HSION is set, the poll starts; the HSI is   *)
(* the system clock out of reset.                                         *)
Init ==
  /\ enableHse \in BOOLEAN /\ enablePll \in BOOLEAN
  /\ pc = "osc" /\ counter = 0
  /\ oscOn = TRUE /\ oscRdy \in BOOLEAN
  /\ pllOn = FALSE /\ pllRdy = FALSE /\ swReq = FALSE
  /\ sws = "HSI" /\ seen = "HSI"
  /\ status = OKAY

-----------------------------------------------------------------------------
(* Hardware: the oscillator stabilises while on, and its ready bit falls  *)
(* once it is off; the PLL locks on a running source; the switch lands.   *)
OscStabilises == oscOn /\ ~oscRdy /\ oscRdy' = TRUE
  /\ UNCHANGED <<enableHse, enablePll, pc, counter, oscOn, pllOn, pllRdy,
                 swReq, sws, seen, status>>

OscStops == ~oscOn /\ oscRdy /\ oscRdy' = FALSE
  /\ UNCHANGED <<enableHse, enablePll, pc, counter, oscOn, pllOn, pllRdy,
                 swReq, sws, seen, status>>

PllLocks == pllOn /\ ~pllRdy /\ oscOn /\ oscRdy /\ pllRdy' = TRUE
  /\ UNCHANGED <<enableHse, enablePll, pc, counter, oscOn, oscRdy, pllOn,
                 swReq, sws, seen, status>>

SwitchLands == swReq /\ pllRdy /\ sws # "PLL" /\ sws' = "PLL"
  /\ UNCHANGED <<enableHse, enablePll, pc, counter, oscOn, oscRdy, pllOn,
                 pllRdy, swReq, seen, status>>

Hardware == OscStabilises \/ OscStops \/ PllLocks \/ SwitchLands

-----------------------------------------------------------------------------
(* The voltage-scaling write: PWR_CR | VOS is read from the PWR block and *)
(* written at RCC_BASE_ADDR + PWR_CR_REG, that is to RCC_CR, whose HSEON  *)
(* bit it clears (PWR_CR bit 16 is 0).  HSION is held set by the hardware *)
(* while the HSI is the system clock, as it still is here.                *)
VosWrite == oscOn' = ~enableHse

(* One iteration of the oscillator poll: do { read RDY; ++counter } while *)
(* (!RDY && counter != TIMEOUT); then "if (reg.raw == 0)" fails with      *)
(* NOTREADY; otherwise PWREN, the voltage-scaling write, the dividers     *)
(* and, with a PLL, its configuration and PLLON, and the PLL poll starts  *)
(* from counter 0 -- or the function returns OKAY.                        *)
OscPoll ==
  /\ pc = "osc"
  /\ \/ /\ ~oscRdy /\ counter + 1 # Timeout
        /\ counter' = counter + 1
        /\ UNCHANGED <<pc, oscOn, pllOn, status>>
     \/ /\ ~oscRdy /\ counter + 1 = Timeout
        /\ counter' = counter + 1 /\ pc' = "done" /\ status' = NOTREADY
        /\ UNCHANGED <<oscOn, pllOn>>
     \/ /\ oscRdy /\ enablePll /\ VosWrite
        /\ pc' = "pll" /\ pllOn' = TRUE /\ counter' = 0 /\ UNCHANGED status
     \/ /\ oscRdy /\ ~enablePll /\ VosWrite
        /\ counter' = counter + 1 /\ pc' = "done"
        /\ UNCHANGED <<pllOn, status>>
  /\ UNCHANGED <<enableHse, enablePll, oscRdy, pllRdy, swReq, sws, seen>>

(* Mutant: the PLL poll never advancing its counter.                     *)
PllPollNoCount ==
  /\ pc = "pll"
  /\ IF pllRdy
       THEN pc' = "sw" /\ swReq' = TRUE /\ counter' = 0 /\ UNCHANGED status
       ELSE UNCHANGED <<pc, swReq, counter, status>>
  /\ UNCHANGED <<enableHse, enablePll, oscOn, oscRdy, pllOn, pllRdy, sws,
                 seen>>

(* One iteration of the PLL poll: do { if (PLLRDY) break; ++counter }    *)
(* while (counter < TIMEOUT); then "counter == TIMEOUT" fails with        *)
(* NOTREADY; after a break, CFGR.SW selects the PLL and the switch poll   *)
(* starts from counter 0.                                                  *)
PllPoll ==
  /\ pc = "pll"
  /\ IF pllRdy
       THEN pc' = "sw" /\ swReq' = TRUE /\ counter' = 0 /\ UNCHANGED status
     ELSE /\ counter' = counter + 1 /\ UNCHANGED swReq
          /\ IF counter + 1 < Timeout
               THEN UNCHANGED <<pc, status>>
               ELSE pc' = "done" /\ status' = NOTREADY
  /\ UNCHANGED <<enableHse, enablePll, oscOn, oscRdy, pllOn, pllRdy, sws,
                 seen>>

(* One iteration of the switch poll: do { read CFGR; if ((SWS0|SWS1) ==  *)
(* SWS0) break; ++counter } while (counter < TIMEOUT); then "counter ==   *)
(* TIMEOUT" fails with NOTREADY, else the function returns OKAY.  The     *)
(* pattern tested is the HSE one, while the code asked for the PLL.       *)
SwPoll ==
  /\ pc = "sw"
  /\ seen' = sws
  /\ IF sws = "HSE"
       THEN pc' = "done" /\ UNCHANGED <<counter, status>>
     ELSE /\ counter' = counter + 1
          /\ IF counter + 1 < Timeout
               THEN UNCHANGED <<pc, status>>
               ELSE pc' = "done" /\ status' = NOTREADY
  /\ UNCHANGED <<enableHse, enablePll, oscOn, oscRdy, pllOn, pllRdy, swReq,
                 sws>>

(* The function has returned; the hardware goes on.                       *)
Done == pc = "done" /\ UNCHANGED vars

Code == OscPoll \/ PllPoll \/ SwPoll

Next == Code \/ Hardware \/ Done

(* clk_set_system_clk() runs on one core with interrupts off and never   *)
(* blocks: its own steps are weakly fair; the hardware's are not.        *)
Spec == Init /\ [][Next]_vars /\ WF_vars(Code)

-----------------------------------------------------------------------------
(* The function returns, whatever the hardware does: every poll loop is  *)
(* bounded by its timeout.                                                 *)
ClockSetupReturns == <>(pc = "done")

(* The status clk_set_system_clk() returns tells the caller which clock   *)
(* runs, as its error paths and the comments of its poll loops say:       *)
(* K_STATUS_OKAY only with the requested oscillator on and stable and,    *)
(* when a PLL was asked for, the PLL the system clock; K_ERROR_NOTREADY   *)
(* after the PLL was selected ("Wait till the main PLL is used as system  *)
(* clock source") only while the PLL is not the system clock.  A caller   *)
(* that falls back on its oscillator after the error relies on the latter.*)
ClockStatusTruthful ==
  pc = "done" =>
    /\ status = OKAY => oscOn /\ oscRdy /\ (enablePll => sws = "PLL")
    /\ (status = NOTREADY /\ swReq) => sws # "PLL"

=============================================================================
