------------------------------ MODULE SdhciInit ------------------------------
(***************************************************************************)
(* Bring-up of the controller by sdhci_init and its one concurrent         *)
(* partner, the power-control interrupt handler sdhci_int_handler.  The    *)
(* handler is registered with the address of sdhci_init's local event      *)
(* sdhc_event; sdhci_init turns bus power on and blocks on the event until *)
(* the handler has acknowledged the power request.  After sdhci_init the   *)
(* platform code may call sdhci_set_bus_width, and may call sdhci_init     *)
(* again.                                                                  *)
(*                                                                         *)
(* Controller behaviour assumed: a write of bus power on, and a software   *)
(* reset of the whole controller while bus power is on (which clears the   *)
(* power control register), raise a bus on / bus off request in the       *)
(* vendor power-control status; the request raises SDCC_PWRCTRL_IRQ while  *)
(* it is enabled in SDCC_HC_PWRCTL_MASK_REG and unmasked at the interrupt  *)
(* controller, some time after the write, until the handler writes the    *)
(* acknowledgement.  The soft reset does not touch the vendor mask         *)
(* register nor the interrupt controller.  A newer request replaces an    *)
(* older one not yet acked.                                                *)
(***************************************************************************)
EXTENDS Naturals

CONSTANTS
  MaxInits,   \* calls of sdhci_init on the host
  InitPower   \* whether bus power may already be on when sdhci_init runs

ASSUME InitAssumption == MaxInits \in Nat \ {0} /\ InitPower \subseteq BOOLEAN
                         /\ InitPower /= {}

Calls == 1..MaxInits

\* Voltage tiers of the capabilities register, in the order sdhci_init
\* tests them, and the value of a host record field never written.
Volts == <<"3.3", "3.0", "1.8">>
VoltSet == {Volts[i] : i \in 1..3}

\* The support bits of SDHCI_CAPS_REG1/2 that sdhci_init decodes (the base
\* clock field is decoded and used in SdhciClock).
CapsRegs == [volts : SUBSET VoltSet, w8 : BOOLEAN, adma : BOOLEAN,
             ddr : BOOLEAN, sdr50 : BOOLEAN]

\* host->caps: the voltage field, or "unset", and the support flags.
HostCaps == [voltage : VoltSet \cup {"unset"}, w8 : BOOLEAN, adma : BOOLEAN,
             ddr : BOOLEAN, sdr50 : BOOLEAN]

\* Widths of sdhci_set_bus_width: DATA_BUS_WIDTH_1BIT/4BIT/8BIT.  Any
\* other value takes the default branch, which returns 1 with nothing
\* written: a stuttering step.
Widths == {1, 4, 8}

VARIABLES
  ipc,        \* where sdhci_init is: "Out" when no call is running
  calls,      \* how many times sdhci_init has been entered
  ev,         \* ev[k]: the sdhc_event of call k is signalled
  arg,        \* the event address registered with the handler (call no.)
  irqOn,      \* SDCC_PWRCTRL_IRQ unmasked at the interrupt controller
  pwrMask,    \* SDCC_HC_PWR_CTRL_INT enabled in SDCC_HC_PWRCTL_MASK_REG
  power,      \* bus power on in SDHCI_PWR_CTRL_REG
  hwReq,      \* a power request the controller has yet to raise
  req,        \* raised power request awaiting the ack: "none", "on", "off"
  resetting,  \* SDHCI_SOFT_RESET in progress
  ctrl1,      \* bits set in SDHCI_HOST_CTRL1_REG
  errEn,      \* interrupt status and signal generation enabled
  lastWidth,  \* the width of the last successful sdhci_set_bus_width
  onAcked,    \* history: the bus-on request of the running call was acked
  dangling,   \* history: the handler signalled a dead stack event
  hwCaps,     \* the capabilities registers of this controller
  caps,       \* host->caps
  pwrVolt     \* the voltage select written with bus power on

vars == <<ipc, calls, ev, arg, irqOn, pwrMask, power, hwReq, req, resetting, ctrl1,
          errEn, lastWidth, onAcked, dangling, hwCaps, caps, pwrVolt>>

\* The position of a tier in the order of preference.
Rank(v) == CHOOSE i \in 1..3 : Volts[i] = v

\* Fault variant: the voltage tests in the opposite order.
DecodeCapsLowFirst(r, old) ==
  [voltage |-> IF \E i \in 1..3 : Volts[i] \in r.volts
                 THEN Volts[CHOOSE i \in 1..3 : Volts[i] \in r.volts
                                    /\ \A j \in (i + 1)..3 : Volts[j] \notin r.volts]
                 ELSE old.voltage,
   w8 |-> r.w8 \/ old.w8,
   adma |-> r.adma \/ old.adma,
   ddr |-> r.ddr,
   sdr50 |-> r.sdr50]

\* The capability decoding of sdhci_init: the first of 3.3 V, 3.0 V, 1.8 V
\* advertised wins, and the voltage is left as it was if none is; the
\* 8-bit and ADMA flags are only ever set, never cleared; DDR and SDR50
\* are assigned from their bits.
DecodeCaps(r, old) ==
  [voltage |-> IF \E i \in 1..3 : Volts[i] \in r.volts
                 THEN Volts[CHOOSE i \in 1..3 : Volts[i] \in r.volts
                                    /\ \A j \in 1..(i - 1) : Volts[j] \notin r.volts]
                 ELSE old.voltage,
   w8 |-> r.w8 \/ old.w8,
   adma |-> r.adma \/ old.adma,
   ddr |-> r.ddr,
   sdr50 |-> r.sdr50]

\* The frame of call k (and its sdhc_event) exists while k is running.
Live(k) == ipc /= "Out" /\ k = calls

\* SDCC_PWRCTRL_IRQ is asserted and delivered to the registered handler.
IrqAsserted == req /= "none" /\ pwrMask /\ irqOn /\ arg /= 0

\* The host-control pattern for a width (SDHCI_BUS_WITDH_*): 1 bit is no
\* bit, 4 bit the data width bit, 8 bit the extended data width bit.
Pattern(w) == IF w = 8 THEN {"W8"} ELSE IF w = 4 THEN {"W4"} ELSE {}

\* The data bus width the controller uses for HOST_CTRL1 bits c.
BusWidth(c) == IF "W8" \in c THEN 8 ELSE IF "W4" \in c THEN 4 ELSE 1

Init ==
  /\ ipc = "Out"
  /\ calls = 0
  /\ ev = [k \in Calls |-> FALSE]
  /\ arg = 0
  /\ irqOn = FALSE
  /\ pwrMask = FALSE
  /\ power \in InitPower
  /\ hwReq = "none"
  /\ req = "none"
  /\ resetting = FALSE
  /\ ctrl1 = {}
  /\ errEn = FALSE
  /\ lastWidth = 0
  /\ onAcked = FALSE
  /\ dangling = FALSE
  /\ hwCaps \in CapsRegs
  /\ caps \in HostCaps
  /\ pwrVolt = "unset"

-----------------------------------------------------------------------------
(* sdhci_init, one action per stretch between two waits.                   *)

\* Entry: event_init(&sdhc_event) unsignalled, then sdhci_reset writes
\* SDHCI_SOFT_RESET and starts spinning on it.
InitStart ==
  /\ ipc = "Out" /\ calls < MaxInits
  /\ calls' = calls + 1
  /\ ev' = [ev EXCEPT ![calls + 1] = FALSE]
  /\ resetting' = TRUE
  /\ onAcked' = FALSE
  /\ ipc' = "Reset"
  /\ UNCHANGED <<arg, irqOn, pwrMask, power, hwReq, req, ctrl1, errEn, lastWidth,
                 dangling>>
  /\ UNCHANGED <<hwCaps, caps, pwrVolt>>

\* Fault variant: the handler registered with a NULL argument.
RegisterIrqNullArg ==
  /\ ipc = "Reset" /\ ~resetting
  /\ arg' = 0
  /\ irqOn' = TRUE
  /\ pwrMask' = TRUE
  /\ ipc' = "Power"
  /\ UNCHANGED <<calls, ev, power, hwReq, req, resetting, ctrl1, errEn, lastWidth,
                 onAcked, dangling>>
  /\ caps' = DecodeCaps(hwCaps, caps)
  /\ UNCHANGED <<hwCaps, pwrVolt>>

\* The reset bit reads clear: the capabilities are read, the handler is
\* registered with &sdhc_event, the interrupt unmasked and the power
\* interrupts enabled in the mask register.
RegisterIrq ==
  /\ ipc = "Reset" /\ ~resetting
  /\ arg' = calls
  /\ irqOn' = TRUE
  /\ pwrMask' = TRUE
  /\ ipc' = "Power"
  /\ UNCHANGED <<calls, ev, power, hwReq, req, resetting, ctrl1, errEn, lastWidth,
                 onAcked, dangling>>
  /\ caps' = DecodeCaps(hwCaps, caps)
  /\ UNCHANGED <<hwCaps, pwrVolt>>

\* sdhci_set_bus_power_on: the voltage of host->caps and the power enable
\* written; the controller raises the bus-on request.
BusPowerOn ==
  /\ ipc = "Power"
  /\ power' = TRUE
  /\ hwReq' = "on"
  /\ ipc' = "Wait"
  /\ UNCHANGED <<calls, ev, arg, irqOn, pwrMask, req, resetting, ctrl1, errEn,
                 lastWidth, onAcked, dangling>>
  /\ pwrVolt' = caps.voltage
  /\ UNCHANGED <<hwCaps, caps>>

\* event_wait(&sdhc_event): returns once the event is signalled and, the
\* event being EVENT_FLAG_AUTOUNSIGNAL, consumes the signal.
EventWait ==
  /\ ipc = "Wait" /\ ev[calls]
  /\ ev' = [ev EXCEPT ![calls] = FALSE]
  /\ ipc' = "Config"
  /\ UNCHANGED <<calls, arg, irqOn, pwrMask, power, hwReq, req, resetting, ctrl1,
                 errEn, lastWidth, onAcked, dangling>>
  /\ UNCHANGED <<hwCaps, caps, pwrVolt>>

\* The rest of sdhci_init: sdhci_set_bus_width(SDHCI_BUS_WITDH_1BIT) ORs
\* no width bit in, sdhci_set_adma_mode overwrites HOST_CTRL1 with
\* SDHCI_ADMA_32BIT, sdhci_error_status_enable enables all status and
\* signal bits; then the call returns and its frame is gone.
Configure ==
  /\ ipc = "Config"
  /\ ctrl1' = {"ADMA32"}
  /\ errEn' = TRUE
  /\ lastWidth' = 1
  /\ ipc' = "Out"
  /\ UNCHANGED <<calls, ev, arg, irqOn, pwrMask, power, hwReq, req, resetting,
                 onAcked, dangling>>
  /\ UNCHANGED <<hwCaps, caps, pwrVolt>>

\* sdhci_set_bus_width called by the platform code after sdhci_init: an
\* invalid width fails with the register untouched; a valid one is ORed
\* into HOST_CTRL1 without clearing the width bits already there.
SetBusWidth(w) ==
  /\ ipc = "Out" /\ calls > 0
  /\ ctrl1' = ctrl1 \cup Pattern(w)
  /\ lastWidth' = w
  /\ UNCHANGED <<ipc, calls, ev, arg, irqOn, pwrMask, power, hwReq, req, resetting,
                 errEn, onAcked, dangling>>
  /\ UNCHANGED <<hwCaps, caps, pwrVolt>>

-----------------------------------------------------------------------------
(* The interrupt handler and the controller.                               *)

\* Fault variant: the acknowledgement write left out.
IntHandlerNoAck ==
  /\ IrqAsserted
  /\ UNCHANGED <<req, onAcked>>
  /\ IF Live(arg)
       THEN ev' = [ev EXCEPT ![arg] = TRUE] /\ UNCHANGED dangling
       ELSE /\ dangling' = TRUE
            /\ \/ ev' = ev
               \/ ipc /= "Out" /\ ev' = [ev EXCEPT ![calls] = TRUE]
  /\ UNCHANGED <<ipc, calls, arg, irqOn, pwrMask, power, hwReq, resetting, ctrl1,
                 errEn, lastWidth>>
  /\ UNCHANGED <<hwCaps, caps, pwrVolt>>

\* sdhci_int_handler: reads the mask register, writes the success ack for
\* the enabled request kinds (clearing the request) and signals the event
\* it was registered with.  If that call has returned, the event address
\* is a dead stack slot: a running later call of sdhci_init, entered from
\* the same caller, may have its own sdhc_event there, or nothing visible.
IntHandler ==
  /\ IrqAsserted
  /\ req' = "none"
  /\ onAcked' = (onAcked \/ req = "on")
  /\ IF Live(arg)
       THEN ev' = [ev EXCEPT ![arg] = TRUE] /\ UNCHANGED dangling
       ELSE /\ dangling' = TRUE
            /\ \/ ev' = ev
               \/ ipc /= "Out" /\ ev' = [ev EXCEPT ![calls] = TRUE]
  /\ UNCHANGED <<ipc, calls, arg, irqOn, pwrMask, power, hwReq, resetting, ctrl1,
                 errEn, lastWidth>>
  /\ UNCHANGED <<hwCaps, caps, pwrVolt>>

\* The software reset completes; a reset while the bus was powered turns
\* it off and raises the bus-off request.
HwResetDone ==
  /\ resetting
  /\ resetting' = FALSE
  /\ power' = FALSE
  /\ hwReq' = IF power THEN "off" ELSE hwReq
  /\ ctrl1' = {}
  /\ errEn' = FALSE
  /\ UNCHANGED <<ipc, calls, ev, arg, irqOn, pwrMask, req, lastWidth, onAcked,
                 dangling>>
  /\ UNCHANGED <<hwCaps, caps, pwrVolt>>

\* The controller raises the request, replacing one not yet acked.
HwRaiseReq ==
  /\ hwReq /= "none"
  /\ req' = hwReq
  /\ hwReq' = "none"
  /\ UNCHANGED <<ipc, calls, ev, arg, irqOn, pwrMask, power, resetting, ctrl1,
                 errEn, lastWidth, onAcked, dangling, hwCaps, caps, pwrVolt>>

\* The thread is preempted while the level-triggered interrupt is asserted
\* and enabled: the CPU takes it before the next thread instruction.
Thread ==
  /\ ~IrqAsserted
  /\ InitStart \/ RegisterIrq \/ BusPowerOn \/ EventWait \/ Configure

Caller ==
  /\ ~IrqAsserted
  /\ \E w \in Widths : SetBusWidth(w)

Next == Thread \/ Caller \/ IntHandler \/ HwResetDone \/ HwRaiseReq

\* The init thread runs whenever it can; an asserted interrupt is taken;
\* the reset completes.
Spec == Init /\ [][Next]_vars /\ WF_vars(Thread) /\ WF_vars(IntHandler)
        /\ WF_vars(HwResetDone) /\ WF_vars(HwRaiseReq)

-----------------------------------------------------------------------------
(* Properties.                                                             *)

TypeOK ==
  /\ ipc \in {"Out", "Reset", "Power", "Wait", "Config"}
  /\ calls \in 0..MaxInits
  /\ ev \in [Calls -> BOOLEAN]
  /\ arg \in 0..calls
  /\ irqOn \in BOOLEAN /\ pwrMask \in BOOLEAN /\ power \in BOOLEAN
  /\ req \in {"none", "on", "off"}
  /\ resetting \in BOOLEAN /\ errEn \in BOOLEAN
  /\ ctrl1 \subseteq {"W4", "W8", "ADMA32"}
  /\ lastWidth \in {0} \cup Widths
  /\ onAcked \in BOOLEAN /\ dangling \in BOOLEAN
  /\ ipc /= "Out" => calls \in Calls
  /\ ipc \in {"Power", "Wait", "Config"} => arg = calls
  /\ hwReq \in {"none", "on", "off"}
  /\ hwCaps \in CapsRegs /\ caps \in HostCaps
  /\ pwrVolt \in VoltSet \cup {"unset"}

\* sdhci_init goes past event_wait only once the handler has acknowledged
\* the bus-on request raised by this call's sdhci_set_bus_power_on: the
\* configuration is written to a powered bus (spec 4.7: "block on the
\* power-acknowledgment event").  The code does not keep it: the handler
\* acks whichever request is raised, and the bus-off request of a soft
\* reset on a powered bus (power on at entry, or a second call) releases
\* the wait first.  TLC finds it violated with InitPower = {TRUE} or
\* MaxInits = 2; it holds only where bus-on is the only request.
PowerAckedBeforeConfig == ipc = "Config" => onAcked

\* Once sdhci_init has read the capabilities, host->caps agrees with the
\* registers: the DDR and SDR50 flags are the register bits, the voltage
\* is the highest tier advertised, and a controller advertising 8-bit or
\* ADMA support is recorded as doing so; bus power is switched on at that
\* voltage.
CapsDecoded ==
  (ipc \in {"Power", "Wait", "Config"} \/ (ipc = "Out" /\ calls > 0)) =>
    /\ caps.ddr = hwCaps.ddr /\ caps.sdr50 = hwCaps.sdr50
    /\ hwCaps.w8 => caps.w8
    /\ hwCaps.adma => caps.adma
    /\ hwCaps.volts /= {} =>
          /\ caps.voltage \in hwCaps.volts
          /\ \A v \in hwCaps.volts : Rank(caps.voltage) <= Rank(v)
    /\ ipc /= "Power" => pwrVolt = caps.voltage

\* sdhci_int_handler only ever signals the sdhc_event of a sdhci_init
\* call that is still running: the address registered with
\* register_int_handler is never used after the frame it points into
\* has been left.
HandlerEventLive == ~dangling

\* Every call of sdhci_init returns: the reset completes, and the power
\* interrupt is delivered and signals the event the call waits on, in
\* whichever order the interrupt and the wait come.
InitReturns == ipc /= "Out" ~> ipc = "Out"

\* Outside sdhci_init the controller uses the data bus width last asked
\* for: 1 bit after sdhci_init, else the width of the last successful
\* sdhci_set_bus_width.
WidthIsLastSet == (ipc = "Out" /\ calls > 0) => BusWidth(ctrl1) = lastWidth

=============================================================================
