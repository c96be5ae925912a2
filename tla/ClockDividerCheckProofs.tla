------------------------ MODULE ClockDividerCheckProofs ------------------------
(***************************************************************************)
(* The properties the clock_divider run checks, proved for every set of    *)
(* base clocks, every set of boundary divisors and every SDHCI_CLK_MAX_DIV *)
(* the assumptions allow.  Each state of ClockDividerCheck is one call of  *)
(* sdhci_clk_supply, so the invariant is only that the call is one the     *)
(* function accepts (clk <= base_clk_rate); the work is in the lemmas of   *)
(* ClockDividerProofs.                                                     *)
(***************************************************************************)
EXTENDS ClockDividerCheck, ClockDividerProofs

\* The state is a base clock and a request at or below it.
CallOK == b \in BaseClks /\ c \in Int /\ c <= b /\ b \in Nat

LEMMA CallOKInit == Init => CallOK
<1> SUFFICES ASSUME Init PROVE CallOK
  OBVIOUS
<1>1. b \in BaseClks /\ b \in Nat
  BY CheckAssumption DEF Init
<1>2. c \in Requested(b)
  BY DEF Init
<1>3. \A k \in Quotients : b \div k \in Int
  BY <1>1, CheckAssumption
<1>. QED  BY <1>1, <1>2, <1>3 DEF Requested, CallOK

LEMMA CallOKStep == CallOK /\ [Next]_vars => CallOK'
BY DEF CallOK, Next, vars

\* sdhci_clk_supply never programs a clock faster than the request when
\* the slowest clock it can program meets it (clock_divider run).
THEOREM NoOverclock == Spec => []NeverOverclocks
<1>1. CallOK => NeverOverclocks
  BY ScanNoOverclock DEF CallOK, NeverOverclocks, Programmed, Produced, SlowestField
<1>. QED  BY <1>1, CallOKInit, CallOKStep, PTL DEF Spec

\* The clock sdhci_clk_supply programs is the fastest one of the 10-bit
\* divider field that does not exceed the request (clock_divider run).
THEOREM FastestClock == Spec => []FastestFit
<1>1. CallOK => FastestFit
  BY ScanFastest DEF CallOK, FastestFit, Programmed, Produced
<1>. QED  BY <1>1, CallOKInit, CallOKStep, PTL DEF Spec

=============================================================================
