--------------------------- MODULE SdhciInitProofs ---------------------------
(***************************************************************************)
(* Proofs about SdhciInit, for every number of sdhci_init calls and every  *)
(* initial bus power: type correctness, and that host->caps agrees with    *)
(* the capabilities registers from the first decoding on.                  *)
(***************************************************************************)
EXTENDS SdhciInit, TLAPS

\* The step relation is one of the actions, or a stutter.
LEMMA NextCases ==
  ASSUME [Next]_vars
  PROVE  \/ InitStart \/ RegisterIrq \/ BusPowerOn \/ EventWait \/ Configure
         \/ \E w \in Widths : SetBusWidth(w)
         \/ IntHandler \/ HwResetDone \/ HwRaiseReq
         \/ UNCHANGED vars
BY DEF Next, Thread, Caller

-----------------------------------------------------------------------------
(* The voltage tiers and the decoding of the capabilities.                 *)

\* The tiers are three distinct strings, and Rank undoes Volts.
LEMMA RankVolts == \A i \in 1..3 : Rank(Volts[i]) = i
<1> SUFFICES ASSUME NEW i \in 1..3 PROVE Rank(Volts[i]) = i
  OBVIOUS
<1>1. \E j \in 1..3 : Volts[j] = Volts[i]
  OBVIOUS
<1>2. Rank(Volts[i]) \in 1..3 /\ Volts[Rank(Volts[i])] = Volts[i]
  BY <1>1 DEF Rank
<1>3. \A j, k \in 1..3 : Volts[j] = Volts[k] => j = k
  BY DEF Volts
<1>4. QED
  BY <1>2, <1>3

\* The voltage sdhci_init records: the first tier, in the order 3.3 V,
\* 3.0 V, 1.8 V, that the register advertises, or the old value if none.
LEMMA DecodeVoltage ==
  ASSUME NEW r \in CapsRegs, NEW old
  PROVE  /\ r.volts /= {} =>
              /\ DecodeCaps(r, old).voltage \in r.volts
              /\ \A v \in r.volts : Rank(DecodeCaps(r, old).voltage) <= Rank(v)
         /\ r.volts = {} => DecodeCaps(r, old).voltage = old.voltage
<1> DEFINE First == CHOOSE i \in 1..3 : Volts[i] \in r.volts
                                       /\ \A j \in 1..(i - 1) : Volts[j] \notin r.volts
<1>1. r.volts \subseteq {Volts[i] : i \in 1..3}
  BY DEF CapsRegs, VoltSet
<1>2. (\E i \in 1..3 : Volts[i] \in r.volts) <=> r.volts /= {}
  BY <1>1
<1>3. ASSUME r.volts /= {}
      PROVE  /\ DecodeCaps(r, old).voltage \in r.volts
             /\ \A v \in r.volts : Rank(DecodeCaps(r, old).voltage) <= Rank(v)
  <2>1. \E i \in 1..3 : Volts[i] \in r.volts
                       /\ \A j \in 1..(i - 1) : Volts[j] \notin r.volts
    <3>1. \E i \in 1..3 : Volts[i] \in r.volts
      BY <1>2, <1>3
    <3>2. CASE Volts[1] \in r.volts
      <4> WITNESS 1 \in 1..3
      <4> QED BY <3>2
    <3>3. CASE Volts[1] \notin r.volts /\ Volts[2] \in r.volts
      <4> WITNESS 2 \in 1..3
      <4> QED BY <3>3
    <3>4. CASE Volts[1] \notin r.volts /\ Volts[2] \notin r.volts
      <4>1. Volts[3] \in r.volts
        BY <3>1, <3>4
      <4> WITNESS 3 \in 1..3
      <4> QED BY <3>4, <4>1
    <3>5. QED
      BY <3>2, <3>3, <3>4
  <2>2. /\ First \in 1..3
        /\ Volts[First] \in r.volts
        /\ \A j \in 1..(First - 1) : Volts[j] \notin r.volts
    BY <2>1
  <2>3. DecodeCaps(r, old).voltage = Volts[First]
    BY <1>2, <1>3 DEF DecodeCaps
  <2> HIDE DEF First
  <2>4. ASSUME NEW v \in r.volts PROVE Rank(Volts[First]) <= Rank(v)
    <3>1. PICK k \in 1..3 : v = Volts[k]
      BY <1>1
    <3>2. First <= k
      BY <2>2, <3>1
    <3>3. Rank(Volts[First]) = First /\ Rank(Volts[k]) = k
      BY <2>2, RankVolts
    <3>4. QED
      BY <3>1, <3>2, <3>3
  <2>5. QED
    BY <2>2, <2>3, <2>4
<1>4. ASSUME r.volts = {} PROVE DecodeCaps(r, old).voltage = old.voltage
  BY <1>2, <1>4 DEF DecodeCaps
<1>5. QED
  BY <1>3, <1>4

\* Decoding keeps host->caps a host capability record.
LEMMA DecodeType ==
  ASSUME NEW r \in CapsRegs, NEW old \in HostCaps
  PROVE  DecodeCaps(r, old) \in HostCaps
<1>1. DecodeCaps(r, old).voltage \in VoltSet \cup {"unset"}
  <2>1. CASE r.volts /= {}
    BY <2>1, DecodeVoltage DEF CapsRegs
  <2>2. CASE r.volts = {}
    BY <2>2, DecodeVoltage DEF HostCaps
  <2>3. QED
    BY <2>1, <2>2
<1>2. QED
  BY <1>1 DEF DecodeCaps, HostCaps, CapsRegs


-----------------------------------------------------------------------------
(* Type correctness, one lemma per action.                                  *)

LEMMA InitType == Init => TypeOK
<1> SUFFICES ASSUME Init PROVE TypeOK
  OBVIOUS
<1>1. ev \in [Calls -> BOOLEAN] /\ calls \in 0..MaxInits /\ arg \in 0..calls
  BY InitAssumption DEF Init
<1>2. power \in BOOLEAN
  BY InitAssumption DEF Init
<1>3. QED
  BY <1>1, <1>2, Zenon DEF Init, TypeOK

LEMMA InitStartType == ASSUME TypeOK, InitStart PROVE TypeOK'
<1>1. calls' = calls + 1 /\ calls' \in 1..MaxInits /\ calls' \in 0..MaxInits
  BY InitAssumption DEF InitStart, TypeOK
<1>2. ev' \in [Calls -> BOOLEAN]
  BY <1>1 DEF InitStart, TypeOK, Calls
<1>3. arg' \in 0..calls'
  BY <1>1 DEF InitStart, TypeOK
<1>4. QED
  BY <1>1, <1>2, <1>3, Zenon DEF InitStart, TypeOK, Calls

LEMMA RegisterIrqType == ASSUME TypeOK, RegisterIrq PROVE TypeOK'
<1>1. caps' \in HostCaps
  BY DecodeType DEF RegisterIrq, TypeOK
<1>2. QED
  BY <1>1 DEF RegisterIrq, TypeOK, Calls

LEMMA ThreadRestType ==
  ASSUME TypeOK, BusPowerOn \/ EventWait \/ Configure PROVE TypeOK'
<1>1. CASE BusPowerOn
  <2>1. caps.voltage \in VoltSet \cup {"unset"}
    BY DEF TypeOK, HostCaps
  <2>2. QED
    BY <1>1, <2>1, Zenon DEF BusPowerOn, TypeOK
<1>2. CASE EventWait
  <2>1. ev' \in [Calls -> BOOLEAN]
    BY <1>2 DEF EventWait, TypeOK
  <2>2. QED
    BY <1>2, <2>1, Zenon DEF EventWait, TypeOK
<1>3. CASE Configure
  <2>1. lastWidth' \in {0} \cup Widths
    BY <1>3 DEF Configure, Widths
  <2>2. QED
    BY <1>3, <2>1, Zenon DEF Configure, TypeOK
<1>4. QED
  BY <1>1, <1>2, <1>3

LEMMA SetBusWidthType ==
  ASSUME TypeOK, NEW w \in Widths, SetBusWidth(w) PROVE TypeOK'
<1>1. Pattern(w) \subseteq {"W4", "W8"}
  BY DEF Pattern
<1>2. QED
  BY <1>1 DEF SetBusWidth, TypeOK

\* The handler signals the event of the running call, or a dead frame's
\* slot, which a running later call may occupy.
LEMMA IntHandlerType == ASSUME TypeOK, IntHandler PROVE TypeOK'
<1>1. ev' \in [Calls -> BOOLEAN]
  <2>1. CASE Live(arg)
    BY <2>1 DEF IntHandler, Live, TypeOK
  <2>2. CASE ~Live(arg)
    BY <2>2 DEF IntHandler, TypeOK
  <2>3. QED
    BY <2>1, <2>2
<1>2. QED
  BY <1>1 DEF IntHandler, TypeOK

LEMMA HwType == ASSUME TypeOK, HwResetDone \/ HwRaiseReq PROVE TypeOK'
BY DEF HwResetDone, HwRaiseReq, TypeOK

LEMMA TypeStep == TypeOK /\ [Next]_vars => TypeOK'
<1> SUFFICES ASSUME TypeOK, [Next]_vars PROVE TypeOK'
  OBVIOUS
<1>1. CASE UNCHANGED vars
  BY <1>1 DEF vars, TypeOK
<1>2. QED
  BY <1>1, NextCases, InitStartType, RegisterIrqType, ThreadRestType,
     SetBusWidthType, IntHandlerType, HwType

\* Every reachable state of sdhci_init, the handler, the caller and the
\* controller is well typed: the event of every call exists, the
\* registered address is a call already made, and host->caps is a record
\* of the decodable values.
THEOREM TypeCorrect == Spec => []TypeOK
BY InitType, TypeStep, PTL DEF Spec


-----------------------------------------------------------------------------
(* The capabilities.  CapsDecoded is not inductive: during the reset of a  *)
(* second call it says nothing, yet the next call's BusPowerOn relies on   *)
(* host->caps as the first call left it.  CapsHeld states the facts from   *)
(* the first decoding on, the reset phase of later calls included.         *)

\* What host->caps says of the capabilities registers.
CapsFacts ==
  /\ caps.ddr = hwCaps.ddr /\ caps.sdr50 = hwCaps.sdr50
  /\ hwCaps.w8 => caps.w8
  /\ hwCaps.adma => caps.adma
  /\ hwCaps.volts /= {} =>
        /\ caps.voltage \in hwCaps.volts
        /\ \A v \in hwCaps.volts : Rank(caps.voltage) <= Rank(v)

\* The first call has decoded the registers.
Decoded == calls > 1 \/ (calls = 1 /\ ipc /= "Reset")

CapsHeld == Decoded => CapsFacts /\ (ipc /= "Power" => pwrVolt = caps.voltage)

\* A decoding establishes the facts whatever host->caps held before.
LEMMA DecodeFacts ==
  ASSUME NEW r \in CapsRegs, NEW old
  PROVE  LET c == DecodeCaps(r, old)
         IN  /\ c.ddr = r.ddr /\ c.sdr50 = r.sdr50
             /\ r.w8 => c.w8
             /\ r.adma => c.adma
             /\ r.volts /= {} =>
                   /\ c.voltage \in r.volts
                   /\ \A v \in r.volts : Rank(c.voltage) <= Rank(v)
<1>1. /\ DecodeCaps(r, old).ddr = r.ddr /\ DecodeCaps(r, old).sdr50 = r.sdr50
      /\ r.w8 => DecodeCaps(r, old).w8
      /\ r.adma => DecodeCaps(r, old).adma
  BY DEF DecodeCaps
<1>2. QED
  BY <1>1, DecodeVoltage

LEMMA CapsStep == TypeOK /\ CapsHeld /\ [Next]_vars => CapsHeld'
<1> SUFFICES ASSUME TypeOK, CapsHeld, [Next]_vars PROVE CapsHeld'
  OBVIOUS
<1>1. CASE InitStart
  <2>1. CASE calls = 0
    <3>1. calls' = 1 /\ ipc' = "Reset"
      BY <1>1, <2>1 DEF InitStart
    <3>2. QED
      BY <3>1 DEF CapsHeld, Decoded
  <2>2. CASE calls /= 0
    <3>1. Decoded /\ ipc = "Out"
      BY <1>1, <2>2 DEF InitStart, TypeOK, Decoded
    <3>2. Decoded' /\ ipc' = "Reset"
      BY <1>1, <2>2 DEF InitStart, TypeOK, Decoded
    <3>3. UNCHANGED <<hwCaps, caps, pwrVolt>>
      BY <1>1 DEF InitStart
    <3>4. QED
      BY <3>1, <3>2, <3>3 DEF CapsHeld, CapsFacts
  <2>3. QED
    BY <2>1, <2>2
<1>2. CASE RegisterIrq
  <2>1. ipc' = "Power" /\ hwCaps' = hwCaps /\ caps' = DecodeCaps(hwCaps, caps)
    BY <1>2 DEF RegisterIrq
  <2>2. CapsFacts'
    BY <2>1, DecodeFacts DEF CapsFacts, TypeOK
  <2>3. QED
    BY <2>1, <2>2 DEF CapsHeld
<1>3. CASE BusPowerOn
  <2>1. ipc = "Power" /\ ipc' = "Wait" /\ pwrVolt' = caps.voltage
        /\ UNCHANGED <<calls, hwCaps, caps>>
    BY <1>3 DEF BusPowerOn
  <2>2. Decoded /\ Decoded'
    BY <2>1 DEF TypeOK, Calls, Decoded
  <2>3. QED
    BY <2>1, <2>2 DEF CapsHeld, CapsFacts
<1>4. CASE EventWait \/ Configure
  <2>1. ipc \in {"Wait", "Config"} /\ ipc' \in {"Config", "Out"}
        /\ UNCHANGED <<calls, hwCaps, caps, pwrVolt>>
    BY <1>4 DEF EventWait, Configure
  <2>2. Decoded /\ Decoded'
    BY <2>1 DEF TypeOK, Calls, Decoded
  <2>3. QED
    BY <2>1, <2>2 DEF CapsHeld, CapsFacts
<1>5. CASE \/ \E w \in Widths : SetBusWidth(w)
           \/ IntHandler \/ HwResetDone \/ HwRaiseReq \/ UNCHANGED vars
  <2>1. UNCHANGED <<ipc, calls, hwCaps, caps, pwrVolt>>
    BY <1>5 DEF SetBusWidth, IntHandler, HwResetDone, HwRaiseReq, vars
  <2>2. QED
    BY <2>1 DEF CapsHeld, CapsFacts, Decoded
<1>6. QED
  BY <1>1, <1>2, <1>3, <1>4, <1>5, NextCases

\* Once sdhci_init has read the capabilities, host->caps agrees with the
\* registers (the highest voltage tier advertised, the DDR and SDR50 bits,
\* the 8-bit and ADMA support), and bus power is switched on at the
\* recorded voltage, for any number of sdhci_init calls.
THEOREM CapsSafety == Spec => []CapsDecoded
<1>1. Init => CapsHeld
  BY DEF Init, CapsHeld, Decoded
<1>2. TypeOK /\ CapsHeld => CapsDecoded
  <2> SUFFICES ASSUME TypeOK, CapsHeld,
                      ipc \in {"Power", "Wait", "Config"} \/ (ipc = "Out" /\ calls > 0)
               PROVE  CapsFacts /\ (ipc /= "Power" => pwrVolt = caps.voltage)
    BY DEF CapsDecoded, CapsFacts
  <2>1. Decoded
    BY DEF TypeOK, Calls, Decoded
  <2>2. QED
    BY <2>1 DEF CapsHeld
<1>3. QED
  BY <1>1, <1>2, InitType, TypeStep, CapsStep, PTL DEF Spec

=============================================================================
