-------------------------- MODULE SdhciClockProofs --------------------------
(***************************************************************************)
(* Proofs about the clock manager: for every base clock, request set,      *)
(* SDHCI_CLK_MAX_DIV and SDHCI_CLK_100MHZ allowed by the assumptions, the  *)
(* state stays well typed (the divider fits the 10-bit field, the rates    *)
(* recorded are rates of the base clocks) and the SD clock is only ever    *)
(* enabled from a stable internal clock.                                   *)
(***************************************************************************)
EXTENDS SdhciClock, ClockDividerProofs

\* The values of the clock control register the model distinguishes.
ClkRegs == [n : 0..1023, intEn : BOOLEAN, stable : BOOLEAN, sdEn : BOOLEAN]

-----------------------------------------------------------------------------
(* The divider scan of sdhci_clk_supply.                                    *)

\* The divider field and the rate sdhci_clk_supply records for a request
\* it accepts.
LEMMA SettingType ==
  ASSUME NEW b \in BaseClks, NEW c \in Nat
  PROVE  /\ ClkSetting(b, c).n \in Nat
         /\ ClkSetting(b, c).freq \in Rates
<1>1. b \in Nat
  BY ClockAssumption
<1>2. CASE c = b
  BY <1>2 DEF ClkSetting, Rates
<1>3. CASE c /= b
  <2>1. ClkSetting(b, c) = [n |-> ClkScan(b, c).div \div 2, freq |-> ClkScan(b, c).freq]
    BY <1>3 DEF ClkSetting
  <2>2. ClkScan(b, c).div \div 2 \in Nat
    <3>1. ClkScan(b, c).div \in Nat
      BY <1>1, ScanType
    <3>. QED  BY <3>1
  <2>3. ClkScan(b, c).freq \in Rates
    <3>1. PICK d \in 2..MaxDiv : ClkScan(b, c).freq = b \div d
      BY <1>1, ScanType
    <3>. QED  BY <3>1 DEF Rates
  <2>. QED  BY <2>1, <2>2, <2>3
<1>. QED  BY <1>2, <1>3

\* Every rate cur_clk_rate may hold is a natural number, so it can be
\* passed back to sdhci_clk_supply (sdhci_set_ddr_mode).
LEMMA RatesNat == Rates \subseteq Nat
<1>1. BaseClks \subseteq Nat
  BY ClockAssumption
<1>2. \A b \in BaseClks, d \in 2..MaxDiv : b \div d \in Nat
  BY <1>1, MaxDivAssumption
<1> SUFFICES ASSUME NEW x \in Rates PROVE x \in Nat
  OBVIOUS
<1>3. \/ x = 0
      \/ x \in BaseClks
      \/ \E b \in BaseClks, d \in 2..MaxDiv : x = b \div d
  BY DEF Rates
<1>4. CASE \E b \in BaseClks, d \in 2..MaxDiv : x = b \div d
  <2>1. PICK b \in BaseClks, d \in 2..MaxDiv : x = b \div d
    BY <1>4
  <2>. QED  BY <2>1, <1>2
<1>5. CASE x = 0
  BY <1>5
<1>6. CASE x \in BaseClks
  BY <1>6, <1>1
<1>. QED  BY <1>3, <1>4, <1>5, <1>6

\* Turning one enable or status bit of a well-formed clock control value
\* on or off leaves it well formed and the other fields as they were.
LEMMA SetBit ==
  ASSUME NEW r \in ClkRegs, NEW v \in BOOLEAN
  PROVE  /\ [r EXCEPT !.sdEn = v] \in ClkRegs
         /\ [r EXCEPT !.sdEn = v].sdEn = v
         /\ [r EXCEPT !.sdEn = v].stable = r.stable
         /\ [r EXCEPT !.sdEn = v].intEn = r.intEn
         /\ [r EXCEPT !.stable = v] \in ClkRegs
         /\ [r EXCEPT !.stable = v].stable = v
         /\ [r EXCEPT !.stable = v].sdEn = r.sdEn
         /\ [r EXCEPT !.stable = v].intEn = r.intEn
BY DEF ClkRegs

-----------------------------------------------------------------------------
(* Steps.                                                                   *)

\* The invariant: the type invariant and the property that the SD clock
\* runs only from a stable internal clock.
Inv == TypeOK /\ SdClockFromStable

\* sdhci_clk_supply up to its stable wait, on any well-formed register
\* value r: the register it leaves is well formed, and either it is r
\* (the request was refused) or the SD clock is off in it.
LEMMA StartStep ==
  ASSUME TypeOK, NEW r \in ClkRegs, NEW clk \in Nat, ClkSupplyStart(r, clk)
  PROVE  /\ clkReg' \in ClkRegs
         /\ pend' \in Rates
         /\ pc' \in {"Idle", "Stable"}
         /\ ret' \in {"ok", "fail"}
         /\ pc' = "Stable" => clkReg'.intEn
         /\ clkReg' = r \/ ~clkReg'.sdEn
<1>1. CASE clk > base
  BY <1>1 DEF ClkSupplyStart, TypeOK
<1>2. CASE ~(clk > base)
  <2> DEFINE set == ClkSetting(base, clk)
             fld == SdclkField(ClkCtrlVal(set.n))
  <2>1. set.n \in Nat /\ set.freq \in Rates
    BY SettingType DEF TypeOK
  <2>2. fld \in 0..1023
    BY <2>1, CtrlValNat, FieldRange
  <2>3. PICK st \in BOOLEAN :
          clkReg' = [n |-> fld, intEn |-> TRUE, stable |-> st, sdEn |-> FALSE]
    BY <1>2 DEF ClkSupplyStart
  <2>4. pc' = "Stable" /\ pend' = set.freq /\ ret' = ret
    BY <1>2 DEF ClkSupplyStart
  <2>. QED  BY <2>1, <2>2, <2>3, <2>4 DEF ClkRegs, TypeOK
<1>. QED  BY <1>1, <1>2

LEMMA ClkSupplyStep ==
  ASSUME Inv, NEW clk \in Requests, ClkSupply(clk)
  PROVE  Inv'
<1>1. clkReg \in ClkRegs /\ clk \in Nat
  BY ClockAssumption DEF Inv, TypeOK, ClkRegs
<1>2. /\ clkReg' \in ClkRegs /\ pend' \in Rates /\ pc' \in {"Idle", "Stable"}
      /\ ret' \in {"ok", "fail"} /\ (pc' = "Stable" => clkReg'.intEn)
      /\ (clkReg' = clkReg \/ ~clkReg'.sdEn)
  BY <1>1, StartStep DEF ClkSupply, Inv
<1>. QED  BY <1>2 DEF ClkSupply, Inv, TypeOK, SdClockFromStable, ClkRegs, Ops

LEMMA ChangeFreqClkStep ==
  ASSUME Inv, NEW clk \in Requests, ChangeFreqClk(clk)
  PROVE  Inv'
<1>1. CASE lines
  BY <1>1 DEF ChangeFreqClk, Inv, TypeOK, SdClockFromStable, Ops
<1>2. CASE ~lines
  <2>1. ClkOff \in ClkRegs /\ clk \in Nat
    BY ClockAssumption DEF ClkOff, ClkRegs
  <2>2. ClkSupplyStart(ClkOff, clk)
    BY <1>2 DEF ChangeFreqClk
  <2>3. /\ clkReg' \in ClkRegs /\ pend' \in Rates /\ pc' \in {"Idle", "Stable"}
        /\ ret' \in {"ok", "fail"} /\ (pc' = "Stable" => clkReg'.intEn)
        /\ (clkReg' = ClkOff \/ ~clkReg'.sdEn)
    BY <2>1, <2>2, StartStep DEF Inv
  <2>. QED  BY <2>3 DEF ChangeFreqClk, Inv, TypeOK, SdClockFromStable, ClkRegs,
                       ClkOff, Ops
<1>. QED  BY <1>1, <1>2

LEMMA SetSdrModeStep ==
  ASSUME Inv, SetSdrMode
  PROVE  Inv'
<1> DEFINE r == [clkReg EXCEPT !.sdEn = FALSE]
<1>1. r \in ClkRegs /\ ~r.sdEn /\ Clk100MHz \in Nat
  <2>1. clkReg \in ClkRegs
    BY DEF Inv, TypeOK, ClkRegs
  <2>2. r \in ClkRegs /\ r.sdEn = FALSE
    BY <2>1, SetBit
  <2>. QED  BY <2>2, ClockAssumption
<1>2. /\ clkReg' \in ClkRegs /\ pend' \in Rates /\ pc' \in {"Idle", "Stable"}
      /\ ret' \in {"ok", "fail"} /\ (pc' = "Stable" => clkReg'.intEn)
      /\ (clkReg' = r \/ ~clkReg'.sdEn)
  BY <1>1, StartStep DEF SetSdrMode, Inv
<1>. QED  BY <1>1, <1>2 DEF SetSdrMode, Inv, TypeOK, SdClockFromStable, ClkRegs, Ops

LEMMA SetDdrModeStep ==
  ASSUME Inv, SetDdrMode
  PROVE  Inv'
<1> DEFINE r == [clkReg EXCEPT !.sdEn = FALSE]
<1>1. r \in ClkRegs /\ ~r.sdEn /\ curClk \in Nat
  <2>1. clkReg \in ClkRegs /\ curClk \in Rates
    BY DEF Inv, TypeOK, ClkRegs
  <2>2. r \in ClkRegs /\ r.sdEn = FALSE
    BY <2>1, SetBit
  <2>. QED  BY <2>1, <2>2, RatesNat
<1>2. /\ clkReg' \in ClkRegs /\ pend' \in Rates /\ pc' \in {"Idle", "Stable"}
      /\ ret' \in {"ok", "fail"} /\ (pc' = "Stable" => clkReg'.intEn)
      /\ (clkReg' = r \/ ~clkReg'.sdEn)
  BY <1>1, StartStep DEF SetDdrMode, Inv
<1>. QED  BY <1>1, <1>2 DEF SetDdrMode, Inv, TypeOK, SdClockFromStable, ClkRegs, Ops

LEMMA ClkEnableStep ==
  ASSUME Inv, ClkEnable
  PROVE  Inv'
<1>1. clkReg \in ClkRegs /\ clkReg.stable /\ clkReg.intEn /\ pend \in Rates
  BY DEF ClkEnable, Inv, TypeOK, ClkRegs
<1>2. clkReg' \in ClkRegs /\ clkReg'.sdEn /\ clkReg'.stable /\ clkReg'.intEn
  <2>1. clkReg' = [clkReg EXCEPT !.sdEn = TRUE]
    BY DEF ClkEnable
  <2>2. /\ [clkReg EXCEPT !.sdEn = TRUE] \in ClkRegs
        /\ [clkReg EXCEPT !.sdEn = TRUE].sdEn = TRUE
        /\ [clkReg EXCEPT !.sdEn = TRUE].stable = clkReg.stable
        /\ [clkReg EXCEPT !.sdEn = TRUE].intEn = clkReg.intEn
    BY <1>1, SetBit
  <2>. QED  BY <1>1, <2>1, <2>2
<1>. QED  BY <1>1, <1>2 DEF ClkEnable, Inv, TypeOK, SdClockFromStable, ClkRegs

LEMMA StopSdccClkStep ==
  ASSUME Inv, StopSdccClk
  PROVE  Inv'
<1>1. CASE lines
  BY <1>1 DEF StopSdccClk, Inv, TypeOK, SdClockFromStable, Ops
<1>2. CASE ~lines
  <2>1. clkReg' = ClkOff /\ ret' = "ok" /\ pc' = pc /\ pc = "Idle"
    BY <1>2 DEF StopSdccClk
  <2>2. ClkOff \in ClkRegs /\ ~ClkOff.sdEn
    BY DEF ClkOff, ClkRegs
  <2>. QED  BY <2>1, <2>2 DEF StopSdccClk, Inv, TypeOK, SdClockFromStable, Ops,
                       ClkRegs
<1>. QED  BY <1>1, <1>2

LEMMA HwStep ==
  ASSUME Inv, HwClkStable \/ HwLines
  PROVE  Inv'
<1>1. CASE HwClkStable
  <2>1. clkReg \in ClkRegs /\ clkReg.intEn
    BY <1>1 DEF HwClkStable, Inv, TypeOK, ClkRegs
  <2>2. clkReg' \in ClkRegs /\ clkReg'.stable /\ clkReg'.intEn
        /\ clkReg'.sdEn = clkReg.sdEn
    <3>1. clkReg' = [clkReg EXCEPT !.stable = TRUE]
      BY <1>1 DEF HwClkStable
    <3>2. /\ [clkReg EXCEPT !.stable = TRUE] \in ClkRegs
          /\ [clkReg EXCEPT !.stable = TRUE].stable = TRUE
          /\ [clkReg EXCEPT !.stable = TRUE].sdEn = clkReg.sdEn
          /\ [clkReg EXCEPT !.stable = TRUE].intEn = clkReg.intEn
      BY <2>1, SetBit
    <3>. QED  BY <2>1, <3>1, <3>2
  <2>. QED  BY <1>1, <2>1, <2>2 DEF HwClkStable, Inv, TypeOK, SdClockFromStable,
                              ClkRegs
<1>2. CASE HwLines
  BY <1>2 DEF HwLines, Inv, TypeOK, SdClockFromStable
<1>. QED  BY <1>1, <1>2

LEMMA InvStep == Inv /\ [Next]_vars => Inv'
<1> SUFFICES ASSUME Inv, [Next]_vars PROVE Inv'
  OBVIOUS
<1>1. CASE \E clk \in Requests : ClkSupply(clk)
  BY <1>1, ClkSupplyStep
<1>2. CASE \E clk \in Requests : ChangeFreqClk(clk)
  BY <1>2, ChangeFreqClkStep
<1>3. CASE ClkEnable
  BY <1>3, ClkEnableStep
<1>4. CASE StopSdccClk
  BY <1>4, StopSdccClkStep
<1>5. CASE SetSdrMode
  BY <1>5, SetSdrModeStep
<1>6. CASE SetDdrMode
  BY <1>6, SetDdrModeStep
<1>7. CASE HwClkStable \/ HwLines
  BY <1>7, HwStep
<1>8. CASE UNCHANGED vars
  BY <1>8 DEF Inv, TypeOK, SdClockFromStable, vars
<1>. QED  BY <1>1, <1>2, <1>3, <1>4, <1>5, <1>6, <1>7, <1>8 DEF Next

LEMMA InitInv == Init => Inv
<1> SUFFICES ASSUME Init PROVE Inv
  OBVIOUS
<1>1. clkReg \in ClkRegs /\ ~clkReg.sdEn
  BY DEF Init, ClkOff, ClkRegs
<1>2. curClk \in Rates /\ pend \in Rates
  BY DEF Init, Rates
<1>. QED  BY <1>1, <1>2 DEF Init, Inv, TypeOK, SdClockFromStable, Ops, ClkRegs

\* Every reachable state of the clock manager is well typed: the divider
\* sdhci_clk_supply writes always decodes to a 10-bit field, and the rate
\* recorded in cur_clk_rate is 0, a base clock or a base clock divided by
\* a divisor of the scan, for all base clocks and requests.
THEOREM TypeCorrect == Spec => []TypeOK
<1>1. Inv => TypeOK
  BY DEF Inv
<1>. QED  BY InitInv, InvStep, <1>1, PTL DEF Spec

\* sdhci_clk_supply sets SDHCI_CLK_EN only once SDHCI_CLK_STABLE reads set,
\* and every rewrite of the divider, stop and mode switch clears it: the
\* SD clock never runs from an unsettled internal clock, for any base
\* clock, request set and divider bound.
THEOREM SdClockSafety == Spec => []SdClockFromStable
<1>1. Inv => SdClockFromStable
  BY DEF Inv
<1>. QED  BY InitInv, InvStep, <1>1, PTL DEF Spec

=============================================================================
