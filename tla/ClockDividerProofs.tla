--------------------------- MODULE ClockDividerProofs ---------------------------
(***************************************************************************)
(* Proofs about the divider computation of sdhci_clk_supply, for every     *)
(* base clock, every request the function accepts and every                *)
(* SDHCI_CLK_MAX_DIV the assumption allows: what the for loop leaves in    *)
(* div, that the divider survives its split over the clock control         *)
(* register, and that the programmed clock is the fastest one that does    *)
(* not exceed the request.                                                 *)
(***************************************************************************)
EXTENDS ClockDivider, WellFoundedInduction, TLAPS

-----------------------------------------------------------------------------
(* The for loop of sdhci_clk_supply.                                        *)

\* The last iteration of the for loop exists: the largest even number
\* below SDHCI_CLK_MAX_DIV.
LEMMA LastDivIsMax == LastDiv \in DivIter /\ \A e \in DivIter : e <= LastDiv
<1> DEFINE w == IF MaxDiv % 2 = 0 THEN MaxDiv - 2 ELSE MaxDiv - 1
<1>1. w \in DivIter /\ \A e \in DivIter : e <= w
  BY MaxDivAssumption DEF DivIter
<1>2. \E d \in DivIter : \A e \in DivIter : e <= d
  BY <1>1
<1>. QED  BY <1>2 DEF LastDiv

\* A non-empty set of naturals has a least element: the break of the for
\* loop happens at a first iteration.
LEMMA LeastNat ==
  ASSUME NEW H, H \subseteq Nat, H /= {}
  PROVE  \E d \in H : \A e \in H : d <= e
<1>1. \E x \in H : \A y \in H : ~(<<y, x>> \in OpToRel(<, Nat))
  BY NatLessThanWellFounded, WFMin
<1>2. PICK x \in H : \A y \in H : ~(<<y, x>> \in OpToRel(<, Nat))
  BY <1>1
<1>3. \A y \in H : <<y, x>> \in Nat \X Nat
  OBVIOUS
<1>4. \A y \in H : ~(y < x)
  BY <1>2, <1>3 DEF OpToRel
<1>. QED  BY <1>4

\* What the scan leaves behind: a natural divisor, and freq the base clock
\* divided by one of the divisors the loop tries.
LEMMA ScanType ==
  ASSUME NEW b \in Nat, NEW c \in Nat
  PROVE  /\ ClkScan(b, c).div \in Nat
         /\ \E d \in 2..MaxDiv : ClkScan(b, c).freq = b \div d
<1> DEFINE Hit == {d \in DivIter : b \div d <= c}
           first == CHOOSE d \in Hit : \A e \in Hit : d <= e
<1>1. DivIter \subseteq 2..MaxDiv
  BY MaxDivAssumption DEF DivIter
<1>2. CASE Hit = {}
  <2>1. ClkScan(b, c) = [div |-> LastDiv + 2, freq |-> b \div LastDiv]
    BY <1>2 DEF ClkScan
  <2>2. LastDiv \in 2..MaxDiv
    BY <1>1, LastDivIsMax
  <2>3. ClkScan(b, c).freq = b \div LastDiv /\ ClkScan(b, c).div = LastDiv + 2
    BY <2>1
  <2>. QED  BY <2>2, <2>3
<1>3. CASE Hit /= {}
  <2>0. Hit \subseteq Nat
    <3>1. 2..MaxDiv \subseteq Nat
      BY MaxDivAssumption
    <3>. QED  BY <1>1, <3>1, Zenon
  <2>1. \E d \in Hit : \A e \in Hit : d <= e
    BY <1>3, <2>0, LeastNat
  <2>2. first \in Hit
    BY <2>1
  <2>3. ClkScan(b, c) = [div |-> first, freq |-> b \div first]
    BY <1>3 DEF ClkScan
  <2>4. first \in 2..MaxDiv
    BY <2>2, <1>1
  <2>5. ClkScan(b, c).freq = b \div first /\ ClkScan(b, c).div = first
    BY <2>3
  <2>. HIDE DEF first
  <2>. QED  BY <2>4, <2>5
<1>. QED  BY <1>2, <1>3

\* Dividing by a larger divisor never gives a larger quotient.
LEMMA DivAntitone ==
  ASSUME NEW b \in Nat, NEW d1 \in Nat \ {0}, NEW d2 \in Nat, d1 <= d2
  PROVE  b \div d2 <= b \div d1
OBVIOUS

\* Nor one larger than the dividend.
LEMMA DivBelow ==
  ASSUME NEW b \in Nat, NEW d \in Nat \ {0}
  PROVE  b \div d <= b
OBVIOUS

\* What the for loop leaves in div: an even divisor no larger than the
\* value after the last iteration; the loop broke there (freq <= clk) or
\* ran out; and every earlier iteration gave freq > clk.
LEMMA ScanFacts ==
  ASSUME NEW b \in Nat, NEW c \in Int
  PROVE  /\ ClkScan(b, c).div % 2 = 0
         /\ ClkScan(b, c).div \in 2..(LastDiv + 2)
         /\ b \div ClkScan(b, c).div <= c \/ ClkScan(b, c).div = LastDiv + 2
         /\ \A d \in DivIter : d < ClkScan(b, c).div => b \div d > c
<1> DEFINE Hit == {d \in DivIter : b \div d <= c}
           first == CHOOSE d \in Hit : \A e \in Hit : d <= e
<1>1. LastDiv \in DivIter /\ \A e \in DivIter : e <= LastDiv
  BY LastDivIsMax
<1>2. LastDiv % 2 = 0 /\ LastDiv \in 2..2044
  BY <1>1, MaxDivAssumption DEF DivIter
<1>3. CASE Hit = {}
  <2>1. ClkScan(b, c).div = LastDiv + 2
    BY <1>3 DEF ClkScan
  <2>2. \A d \in DivIter : b \div d > c
    BY <1>3 DEF DivIter
  <2>. QED  BY <1>2, <2>1, <2>2
<1>4. CASE Hit /= {}
  <2>1. Hit \subseteq Nat
    BY DEF DivIter
  <2>2. \E d \in Hit : \A e \in Hit : d <= e
    BY <1>4, <2>1, LeastNat
  <2>3. first \in Hit /\ \A e \in Hit : first <= e
    BY <2>2
  <2>4. ClkScan(b, c).div = first
    BY <1>4 DEF ClkScan
  <2>. HIDE DEF first
  <2>5. first % 2 = 0 /\ first \in 2..(LastDiv + 2) /\ b \div first <= c
    BY <2>3, <1>1 DEF DivIter
  <2>6. \A d \in DivIter : d < first => b \div d > c
    BY <2>3 DEF DivIter
  <2>. QED  BY <2>4, <2>5, <2>6
<1>. QED  BY <1>3, <1>4

-----------------------------------------------------------------------------
(* The clock control register.                                              *)

\* Whatever is written to the clock control register, the divider field
\* the controller decodes from it fits in ten bits.
LEMMA FieldRange ==
  ASSUME NEW v \in Nat
  PROVE  SdclkField(v) \in 0..1023
BY DEF SdclkField

LEMMA CtrlValNat ==
  ASSUME NEW n \in Nat
  PROVE  ClkCtrlVal(n) \in Nat
BY DEF ClkCtrlVal, IntClkEn

\* The split of the divider over bits 15:8 and 7:6 of the clock control
\* register in sdhci_clk_supply loses nothing: for every 10-bit divider,
\* the field the controller decodes is the divider that was written.
THEOREM EncodingRoundTrip ==
  \A n \in 0..1023 : SdclkField(ClkCtrlVal(n)) = n
<1> SUFFICES ASSUME NEW n \in 0..1023 PROVE SdclkField(ClkCtrlVal(n)) = n
  OBVIOUS
<1> DEFINE lo == n % 256
           hi == n \div 256
<1>1. n = lo + hi * 256 /\ lo \in 0..255 /\ hi \in 0..3
  OBVIOUS
<1>2. ClkCtrlVal(n) = lo * 256 + hi * 64 + 1
  BY <1>1 DEF ClkCtrlVal, IntClkEn
<1>3. (lo * 256 + hi * 64 + 1) \div 256 = lo
  BY <1>1
<1>4. ((lo * 256 + hi * 64 + 1) \div 64) % 4 = hi
  BY <1>1
<1>. QED  BY <1>1, <1>2, <1>3, <1>4 DEF SdclkField

-----------------------------------------------------------------------------
(* The clock sdhci_clk_supply programs.                                     *)

\* The divider field sdhci_clk_supply writes for a request it accepts:
\* 0 for the base clock itself, otherwise half the even divisor of the
\* loop; either way a 10-bit value the controller reads back unchanged.
LEMMA SettingFacts ==
  ASSUME NEW b \in Nat, NEW c \in Int, c <= b
  PROVE  /\ ClkSetting(b, c).n \in 0..1023
         /\ SdclkField(ClkCtrlVal(ClkSetting(b, c).n)) = ClkSetting(b, c).n
         /\ c = b => ClkSetting(b, c).n = 0
         /\ c /= b => /\ ClkSetting(b, c).n >= 1
                      /\ 2 * ClkSetting(b, c).n = ClkScan(b, c).div
<1>1. LastDiv \in 2..2044
  BY LastDivIsMax, MaxDivAssumption DEF DivIter
<1>2. CASE c = b
  <2>1. ClkSetting(b, c).n = 0
    BY <1>2 DEF ClkSetting
  <2>. QED  BY <2>1, <1>2, EncodingRoundTrip
<1>3. CASE c /= b
  <2>1. ClkSetting(b, c).n = ClkScan(b, c).div \div 2
    BY <1>3 DEF ClkSetting
  <2>2. ClkScan(b, c).div % 2 = 0 /\ ClkScan(b, c).div \in 2..(LastDiv + 2)
    BY ScanFacts
  <2>3. ClkSetting(b, c).n \in 1..1023 /\ 2 * ClkSetting(b, c).n = ClkScan(b, c).div
    BY <1>1, <2>1, <2>2
  <2>. QED  BY <1>3, <2>3, EncodingRoundTrip
<1>. QED  BY <1>2, <1>3

\* The rate the controller produces from what sdhci_clk_supply writes.
Produced(x, y) == SdclkRate(x, SdclkField(ClkCtrlVal(ClkSetting(x, y).n)))

\* The rate for a request below the base clock: the base clock over the
\* divisor the loop left in div.
LEMMA ProducedBelowBase ==
  ASSUME NEW b \in Nat, NEW c \in Int, c < b
  PROVE  Produced(b, c) = b \div ClkScan(b, c).div
<1>1. /\ SdclkField(ClkCtrlVal(ClkSetting(b, c).n)) = ClkSetting(b, c).n
      /\ ClkSetting(b, c).n >= 1
      /\ 2 * ClkSetting(b, c).n = ClkScan(b, c).div
  BY SettingFacts
<1>. QED  BY <1>1 DEF Produced, SdclkRate

\* For any request the loop can meet, the controller runs at most at the
\* requested rate.
LEMMA ScanNoOverclock ==
  ASSUME NEW b \in Nat, NEW c \in Int, c <= b,
         c >= SdclkRate(b, (LastDiv + 2) \div 2)
  PROVE  Produced(b, c) <= c
<1>1. CASE c = b
  <2>1. SdclkField(ClkCtrlVal(ClkSetting(b, c).n)) = 0
    BY <1>1, SettingFacts
  <2>. QED  BY <1>1, <2>1 DEF Produced, SdclkRate
<1>2. CASE c < b
  <2>1. Produced(b, c) = b \div ClkScan(b, c).div
    BY <1>2, ProducedBelowBase
  <2>2. CASE ClkScan(b, c).div = LastDiv + 2
    <3>1. LastDiv % 2 = 0 /\ LastDiv \in 2..2044
      BY LastDivIsMax, MaxDivAssumption DEF DivIter
    <3>2. SdclkRate(b, (LastDiv + 2) \div 2) = b \div (LastDiv + 2)
      BY <3>1 DEF SdclkRate
    <3>. QED  BY <2>1, <2>2, <3>2
  <2>. QED  BY <2>1, <2>2, ScanFacts
<1>. QED  BY <1>1, <1>2

\* No divider field faster than the programmed one meets the request.
LEMMA ScanFastest ==
  ASSUME NEW b \in Nat, NEW c \in Int, c <= b,
         NEW m \in 0..1023, SdclkRate(b, m) <= c
  PROVE  SdclkRate(b, m) <= Produced(b, c)
<1>1. m >= 1 => SdclkRate(b, m) = b \div (2 * m)
  BY DEF SdclkRate
<1>2. CASE c = b
  <2>1. Produced(b, c) = b
    BY <1>2, SettingFacts DEF Produced, SdclkRate
  <2>2. SdclkRate(b, m) <= b
    BY <1>1, DivBelow DEF SdclkRate
  <2>. QED  BY <2>1, <2>2
<1>3. CASE c < b
  <2>1. m >= 1
    BY <1>3 DEF SdclkRate
  <2>2. ClkScan(b, c).div <= 2 * m
    <3> SUFFICES ASSUME 2 * m < ClkScan(b, c).div PROVE FALSE
      BY ScanFacts
    <3>1. LastDiv \in Nat /\ LastDiv % 2 = 0 /\ LastDiv < MaxDiv
      BY LastDivIsMax, MaxDivAssumption DEF DivIter
    <3>2. CASE 2 * m \in DivIter
      <4>1. b \div (2 * m) > c
        BY <3>2, ScanFacts
      <4>. QED  BY <4>1, <2>1, <1>1
    <3>3. CASE 2 * m \notin DivIter
      <4>1. 2 * m >= MaxDiv
        BY <3>3, <2>1, MaxDivAssumption DEF DivIter
      <4>2. ClkScan(b, c).div \in 2..(LastDiv + 2)
        BY ScanFacts
      <4>3. 2 * m >= LastDiv + 2
        BY <4>1, <3>1, MaxDivAssumption
      <4>. QED  BY <4>2, <4>3, <3>1
    <3>. QED  BY <3>2, <3>3
  <2>3. ClkScan(b, c).div \in Nat \ {0}
    BY ScanFacts
  <2>4. b \div (2 * m) <= b \div ClkScan(b, c).div
    <3>1. 2 * m \in Nat
      BY <2>1
    <3>. QED  BY <2>2, <2>3, <3>1, DivAntitone
  <2>. QED  BY <1>1, <2>1, <2>4, <1>3, ProducedBelowBase
<1>. QED  BY <1>2, <1>3

=============================================================================
