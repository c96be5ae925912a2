---------------------------- MODULE ClockDivider ----------------------------
(***************************************************************************)
(* The divider computation of sdhci_clk_supply: the scan for an even       *)
(* divisor, the value programmed into the 10-bit SDCLK frequency select    *)
(* field of the clock control register, the rate recorded in               *)
(* host->cur_clk_rate, and the rate the controller then produces.          *)
(***************************************************************************)
EXTENDS Naturals

CONSTANT MaxDiv   \* SDHCI_CLK_MAX_DIV, the bound of the divisor scan

\* The scan needs one iteration, and the divisor it ends with, halved,
\* must fit the 10-bit divider field (SDHCI_CLK_MAX_DIV is 2046).
ASSUME MaxDivAssumption == MaxDiv \in 3..2046

\* Register layout of the clock control register (SDHCI 3.0): the low 8
\* bits of the divider go to bits 15:8 (SDHCI_SDCLK_FREQ_SEL), bits 9:8 go
\* to bits 7:6 (SDHCI_SDCLK_UP_BIT_SEL); bit 0 is SDHCI_INT_CLK_EN.
IntClkEn == 1

\* The values div takes in the body of the for loop of sdhci_clk_supply:
\* 2, 4, ... while div < MaxDiv.
DivIter == {d \in 2..(MaxDiv - 1) : d % 2 = 0}

\* The last iteration, after which div += 2 ends the loop.
LastDiv == CHOOSE d \in DivIter : \A e \in DivIter : e <= d

\* Fault variant: the loop breaks only when freq < clk.
ClkScanStrict(base, clk) ==
  LET Hit == {d \in DivIter : base \div d < clk}
      first == CHOOSE d \in Hit : \A e \in Hit : d <= e
  IN  IF Hit = {} THEN [div |-> LastDiv + 2, freq |-> base \div LastDiv]
                  ELSE [div |-> first, freq |-> base \div first]

\* The for loop of sdhci_clk_supply: freq = base / div in each iteration and
\* the loop breaks at the first div with freq <= clk.  Result: div and freq
\* after the loop, i.e. the first iteration that breaks, or the value div
\* has when the loop runs out with freq of the last iteration.
ClkScan(base, clk) ==
  LET Hit == {d \in DivIter : base \div d <= clk}
      first == CHOOSE d \in Hit : \A e \in Hit : d <= e
  IN  IF Hit = {} THEN [div |-> LastDiv + 2, freq |-> base \div LastDiv]
                  ELSE [div |-> first, freq |-> base \div first]

\* What sdhci_clk_supply programs for a request clk <= base: the divider
\* field (div >>= 1, or 0 when the base rate itself is requested and the
\* scan is skipped) and the value it stores in cur_clk_rate (freq, still 0
\* on the skipped path).
ClkSetting(base, clk) ==
  IF clk = base THEN [n |-> 0, freq |-> 0]
  ELSE [n |-> ClkScan(base, clk).div \div 2, freq |-> ClkScan(base, clk).freq]

\* Fault variant: only the low 8 bits of the divider written (the layout
\* of SDHCI versions before 3.0).
ClkCtrlValNoUpper(n) == ((n % 256) * 256) + IntClkEn

\* clk_val as written to SDHCI_CLK_CTRL_REG for divider field n.
ClkCtrlVal(n) == ((n % 256) * 256) + (((n \div 256) % 4) * 64) + IntClkEn

\* The divider field the controller reads back from a clock control value.
SdclkField(v) == ((v \div 256) % 256) + (((v \div 64) % 4) * 256)

\* The SD clock the controller produces for divider field n (SDHCI 3.0
\* divided clock mode: 0 selects the base clock, otherwise base / 2n).
SdclkRate(base, n) == IF n = 0 THEN base ELSE base \div (2 * n)

=============================================================================
