----------------------------- MODULE SdhciClock -----------------------------
(***************************************************************************)
(* The clock manager of sdhci.c: sdhci_clk_supply, sdhci_stop_sdcc_clk,    *)
(* sdhci_change_freq_clk and the two mode switches sdhci_set_sdr_mode and  *)
(* sdhci_set_ddr_mode, which stop the SD clock, set a bit of HOST_CTRL2    *)
(* and supply the clock again.  The controller side is the clock control   *)
(* register (divider field, internal clock enable, internal clock stable,  *)
(* SD clock enable) and the CMD/DAT line activity of the present-state     *)
(* register, driven by commands outside this module.                       *)
(***************************************************************************)
EXTENDS ClockDivider

CONSTANTS
  BaseClks,   \* base clock rates (Hz) the capabilities register may report
  Requests,   \* rates (Hz) callers pass to sdhci_clk_supply / change_freq
  Clk100MHz   \* SDHCI_CLK_100MHZ, the rate sdhci_set_sdr_mode asks for

ASSUME ClockAssumption ==
  /\ BaseClks \subseteq Nat \ {0}
  /\ Requests \subseteq Nat
  /\ Clk100MHz \in Nat

VARIABLES
  base,     \* host->caps.base_clk_rate, read once by sdhci_init
  sdr50,    \* host->caps.sdr50_support
  clkReg,   \* SDHCI_CLK_CTRL_REG: [n, intEn, stable, sdEn]
  curClk,   \* host->cur_clk_rate
  ctrl2,    \* the mode bits set in SDHCI_HOST_CTRL2_REG
  pc,       \* "Idle", or "Stable": spinning on SDHCI_CLK_STABLE
  pend,     \* freq, to be stored in cur_clk_rate once the clock is stable
  op,       \* the entry point the running (or last) call went through
  ret,      \* what the last call returned: "ok", "fail"
  lines     \* SDHCI_CMD_ACT | SDHCI_DAT_ACT in the present-state register

vars == <<base, sdr50, clkReg, curClk, ctrl2, pc, pend, op, ret, lines>>

Ops == {"none", "supply", "stop", "change", "sdr", "ddr"}

\* SDHCI_CLK_DIS: the whole clock control register written as 0.
ClkOff == [n |-> 0, intEn |-> FALSE, stable |-> FALSE, sdEn |-> FALSE]

\* Rates cur_clk_rate may hold: what clk_supply records for any request.
Rates == {0} \cup BaseClks \cup {b \div d : b \in BaseClks, d \in 2..MaxDiv}

Init ==
  /\ base \in BaseClks
  /\ sdr50 \in BOOLEAN
  /\ clkReg = ClkOff
  /\ curClk = 0
  /\ ctrl2 = {}
  /\ pc = "Idle"
  /\ pend = 0
  /\ op = "none"
  /\ ret = "ok"
  /\ lines = FALSE

-----------------------------------------------------------------------------
\* Fault variant: clk_val written without SDHCI_INT_CLK_EN.
ClkSupplyStartNoIntEn(r, clk) ==
  IF clk > base
    THEN /\ clkReg' = r
         /\ pc' = "Idle"
         /\ ret' = "fail"
         /\ UNCHANGED pend
    ELSE /\ clkReg' = [n |-> SdclkField(ClkCtrlVal(ClkSetting(base, clk).n)),
                       intEn |-> FALSE, stable |-> FALSE, sdEn |-> FALSE]
         /\ pc' = "Stable"
         /\ pend' = ClkSetting(base, clk).freq
         /\ UNCHANGED ret

(* sdhci_clk_supply up to the stable-wait loop, on clock register r.  A    *)
(* request above the base rate fails without touching the register;       *)
(* otherwise the divider is written with the internal clock enabled and    *)
(* the SD clock off, and the call spins until the clock is stable.  The    *)
(* divider the controller holds is what it decodes from clk_val.  Whether  *)
(* the stable bit is already set right after the write is the hardware's   *)
(* choice.                                                                 *)
ClkSupplyStart(r, clk) ==
  IF clk > base
    THEN /\ clkReg' = r
         /\ pc' = "Idle"
         /\ ret' = "fail"
         /\ UNCHANGED pend
    ELSE /\ \E st \in BOOLEAN :
              clkReg' = [n |-> SdclkField(ClkCtrlVal(ClkSetting(base, clk).n)),
                         intEn |-> TRUE, stable |-> st, sdEn |-> FALSE]
         /\ pc' = "Stable"
         /\ pend' = ClkSetting(base, clk).freq
         /\ UNCHANGED ret

\* sdhci_clk_supply called by the platform code with a rate of Requests.
ClkSupply(clk) ==
  /\ pc = "Idle"
  /\ op' = "supply"
  /\ ClkSupplyStart(clkReg, clk)
  /\ UNCHANGED <<base, sdr50, curClk, ctrl2, lines>>

\* Fault variant: the stable-wait loop left out.
ClkEnableNoWait ==
  /\ pc = "Stable"
  /\ clkReg' = [clkReg EXCEPT !.sdEn = TRUE]
  /\ curClk' = pend
  /\ pc' = "Idle"
  /\ ret' = "ok"
  /\ UNCHANGED <<base, sdr50, ctrl2, pend, op, lines>>

\* The end of sdhci_clk_supply: once SDHCI_CLK_STABLE reads set, the SD
\* clock is enabled and freq is stored in cur_clk_rate.
ClkEnable ==
  /\ pc = "Stable"
  /\ clkReg.stable
  /\ clkReg' = [clkReg EXCEPT !.sdEn = TRUE]
  /\ curClk' = pend
  /\ pc' = "Idle"
  /\ ret' = "ok"
  /\ UNCHANGED <<base, sdr50, ctrl2, pend, op, lines>>

\* sdhci_stop_sdcc_clk: refuses while a line is active, else SDHCI_CLK_DIS.
StopSdccClk ==
  /\ pc = "Idle"
  /\ op' = "stop"
  /\ IF lines THEN clkReg' = clkReg /\ ret' = "fail"
              ELSE clkReg' = ClkOff /\ ret' = "ok"
  /\ UNCHANGED <<base, sdr50, curClk, ctrl2, pc, pend, lines>>

\* sdhci_change_freq_clk: stop the clock, then supply the new rate.
ChangeFreqClk(clk) ==
  /\ pc = "Idle"
  /\ op' = "change"
  /\ IF lines THEN /\ clkReg' = clkReg /\ ret' = "fail"
                   /\ UNCHANGED <<pc, pend>>
              ELSE ClkSupplyStart(ClkOff, clk)
  /\ UNCHANGED <<base, sdr50, curClk, ctrl2, lines>>

\* sdhci_set_sdr_mode: SD clock off, SDR50 enabled if the capabilities
\* say so, and the clock supplied again at 100 MHz (result ignored).
SetSdrMode ==
  /\ pc = "Idle"
  /\ op' = "sdr"
  /\ ctrl2' = IF sdr50 THEN ctrl2 \cup {"SDR50"} ELSE ctrl2
  /\ ClkSupplyStart([clkReg EXCEPT !.sdEn = FALSE], Clk100MHz)
  /\ UNCHANGED <<base, sdr50, curClk, lines>>

\* sdhci_set_ddr_mode: SD clock off, DDR enabled, and the clock supplied
\* again at the recorded rate host->cur_clk_rate.
SetDdrMode ==
  /\ pc = "Idle"
  /\ op' = "ddr"
  /\ ctrl2' = ctrl2 \cup {"DDR"}
  /\ ClkSupplyStart([clkReg EXCEPT !.sdEn = FALSE], curClk)
  /\ UNCHANGED <<base, sdr50, curClk, lines>>

-----------------------------------------------------------------------------
(* The controller.                                                         *)

\* The internal clock oscillator settles.
HwClkStable ==
  /\ clkReg.intEn /\ ~clkReg.stable
  /\ clkReg' = [clkReg EXCEPT !.stable = TRUE]
  /\ UNCHANGED <<base, sdr50, curClk, ctrl2, pc, pend, op, ret, lines>>

\* A command starts or finishes driving the CMD/DAT lines.
HwLines ==
  /\ lines' = ~lines
  /\ UNCHANGED <<base, sdr50, clkReg, curClk, ctrl2, pc, pend, op, ret>>

Next ==
  \/ \E clk \in Requests : ClkSupply(clk) \/ ChangeFreqClk(clk)
  \/ ClkEnable \/ StopSdccClk \/ SetSdrMode \/ SetDdrMode
  \/ HwClkStable \/ HwLines

\* The driver spins until the stable bit is set.  No fairness: the spin on SDHCI_CLK_STABLE has no bound, and nothing in
\* the code makes the oscillator settle.
Spec == Init /\ [][Next]_vars

-----------------------------------------------------------------------------
(* Properties.                                                             *)

TypeOK ==
  /\ base \in BaseClks /\ sdr50 \in BOOLEAN
  /\ clkReg \in [n : 0..1023, intEn : BOOLEAN, stable : BOOLEAN, sdEn : BOOLEAN]
  /\ curClk \in Rates /\ pend \in Rates
  /\ ctrl2 \subseteq {"SDR50", "DDR"}
  /\ pc \in {"Idle", "Stable"} /\ op \in Ops /\ ret \in {"ok", "fail"}
  /\ pc = "Stable" => clkReg.intEn
  /\ lines \in BOOLEAN

\* The SD clock is driven to the card only from a settled internal clock:
\* sdhci_clk_supply enables SDHCI_CLK_EN only after it has read
\* SDHCI_CLK_STABLE, and every rewrite of the divider turns SDHCI_CLK_EN
\* off in the same write.
SdClockFromStable == clkReg.sdEn => clkReg.intEn /\ clkReg.stable

\* The rate recorded in host->cur_clk_rate after a successful supply is the
\* rate the controller produces from the divider sdhci_clk_supply wrote.
RecordedRateIsProgrammed ==
  (pc = "Idle" /\ clkReg.sdEn) => curClk = SdclkRate(base, clkReg.n)

\* When sdhci_set_sdr_mode or sdhci_set_ddr_mode has returned, the SD
\* clock runs again: both "run the clock back" after switching the mode,
\* and neither reports a failure to its caller.
ClockRunsAfterSwitch ==
  (pc = "Idle" /\ op \in {"sdr", "ddr"}) => clkReg.sdEn


\* The SD clock is cut only while the CMD and DAT lines are idle, the check
\* sdhci_stop_sdcc_clk makes ("command & data line are active"); the mode
\* switches and sdhci_clk_supply clear SDHCI_CLK_EN without it.
SdClockCutWhenIdle == [][clkReg.sdEn /\ ~clkReg'.sdEn => ~lines]_vars

=============================================================================
