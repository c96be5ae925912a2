-------------------------- MODULE ClockDividerCheck --------------------------
(***************************************************************************)
(* The divider computation of sdhci_clk_supply checked over a range of     *)
(* inputs: each state is one call, a base clock rate b of the capabilities *)
(* and a requested rate c <= b, chosen near every divisor boundary.        *)
(***************************************************************************)
EXTENDS ClockDivider

CONSTANTS
  BaseClks,   \* base clock rates (Hz)
  Quotients   \* the divisors k whose boundary rates b \div k are tried

\* Rates are uint32_t values; the divisors name boundaries b / k.
ASSUME CheckAssumption ==
  BaseClks \subseteq Nat /\ Quotients \subseteq Nat \ {0}

VARIABLES b, c

vars == <<b, c>>

\* Requests at, just above and just below the rate of each divisor k.
Requested(x) ==
  {r \in {x \div k : k \in Quotients} \cup {x \div k + 1 : k \in Quotients}
           \cup {x \div k - 1 : k \in Quotients} \cup {0} : r <= x}

Init == b \in BaseClks /\ c \in Requested(b)

\* Each call is independent of the others: nothing further happens.
Next == UNCHANGED vars

Spec == Init /\ [][Next]_vars

\* The divider field programmed when the scan runs out: the slowest clock
\* sdhci_clk_supply can set (1023 for SDHCI_CLK_MAX_DIV = 2046).
SlowestField == (LastDiv + 2) \div 2

\* The divider field the controller holds after the call.
Programmed(x, y) == SdclkField(ClkCtrlVal(ClkSetting(x, y).n))

\* sdhci_clk_supply never drives the card faster than requested whenever
\* the slowest divider it can program meets the request: the search, the
\* halving (div >>= 1) and the split of the divider over bits 15:8 and
\* 7:6 of the clock control register together give a rate b / 2n <= c.
NeverOverclocks ==
  c >= SdclkRate(b, SlowestField) => SdclkRate(b, Programmed(b, c)) <= c

\* No divider field the controller accepts gives a faster clock that still
\* meets the request: the first-fit scan over even divisors finds the
\* fastest admissible rate.
FastestFit ==
  LET got == SdclkRate(b, Programmed(b, c))
  IN  \A n \in 0..1023 : SdclkRate(b, n) <= c => SdclkRate(b, n) <= got

=============================================================================
