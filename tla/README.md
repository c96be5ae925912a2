# Formal model of the MSM SDHCI driver

TLA+ modules, TLC configurations and TLAPS proofs for
`src/platform/msm_shared/sdhci.c`, the SD host controller driver of the
bootloader.  Everything here is translated from that file; `PROJECT.json`
maps each definition to the lines it models.

## 1. The system

The driver is one thread of control with busy-wait loops, with one
interrupt handler that runs concurrently with it.

| Part | Code | State | Operations |
|---|---|---|---|
| Command engine | `sdhci_send_command`, `sdhci_cmd_complete`, `sdhci_cmd_err_status` | present state, normal/error interrupt status, response registers, the descriptor table | wait for free lines (10 polls), dispatch, wait for Command Complete, wait for Transfer Complete, error check, line reset, free |
| Descriptor builder / transfer set-up | `sdhci_prep_desc_table`, `sdhci_adma_transfer` | the ADMA2 table, block size, block count, transfer mode | build the chain, program the registers |
| Clock manager | `sdhci_clk_supply`, `sdhci_stop_sdcc_clk`, `sdhci_change_freq_clk`, `sdhci_set_sdr_mode`, `sdhci_set_ddr_mode` | clock control register, HOST_CTRL2, `host->cur_clk_rate` | divider scan, wait for stable (no bound), enable, stop, mode switches |
| Initialisation | `sdhci_init`, `sdhci_reset`, `sdhci_set_bus_power_on`, `sdhci_set_bus_width`, `sdhci_set_adma_mode`, `sdhci_error_status_enable` | `host->caps`, HOST_CTRL1, power control, the stack event `sdhc_event` | reset (no bound), capability decoding, register the handler, bus power on, wait for the event, configure |
| Power interrupt | `sdhci_int_handler` | the vendor power-control mask/ack registers, the registered event pointer | acknowledge the request, signal the event |
| Mode enable | `sdhci_mode_enable` | one register | not modelled (a single write nothing reads back) |

How they interact: `sdhci_init` decodes the base clock the clock manager
divides, and the capability flags the mode switches test. It hands the
address of its local event to the interrupt handler, and the handler
signals it when the power request is acknowledged. The command engine calls
the descriptor builder for data commands and owns the table until the
free. The clock manager refuses to stop the clock while the command engine
has the lines busy.

Hard behaviours the code is exposed to, all of them in `PROJECT.json`
under `hazards`:
- controller answers that arrive late, after the driver's retry loop has
  given up;
- sticky error bits;
- the table freed while DMA could still read it;
- unbounded spins on the hardware;
- the interrupt racing the wait, and a stack pointer outliving its frame;
- 16-bit fields (descriptor length, block count) at their wrap;
- the 10-bit divider split over two register fields.

## 2. Modules

| Module | Models | Checked by |
|---|---|---|
| `SdhciCommandSpec` | what a call of `sdhci_send_command` promises: wait, then give up or start the command on an idle controller in one step, then return; the controller runs at most one command; a data command's table is freed only by the successful return that stops the controller | refined by `SdhciCommand` |
| `SdhciCommand` | command engine as a state machine: driver `pc` per wait loop, retry counters, the table set, and a controller (`hw`, `nis`, `errSts`, `respReg`) that completes, errors, holds DAT or stops answering | `MC_SdhciCommand` + `SdhciCommand.cfg` |
| `SdhciCommandProofs` | TLAPS proofs about `SdhciCommand` | `tlapm` |
| `SdhciAdma` | `sdhci_prep_desc_table` and `sdhci_adma_transfer` as operators of the byte length / block count, plus how ADMA2 reads them (`HwLen`, `BlocksMoved`) | `DataPathCheck` |
| `SdhciResponse` | the R2 branch of `sdhci_cmd_complete`: `resp[i] = RESP[i] << 8 \| RESP[i-1] >> 24`, each 32-bit word as its four bytes (both shifts are whole bytes; the OR is `ByteOr`, bit by bit over the eight bits of a byte, equal to `Bitwise`'s `\|` on all 65,536 byte pairs) | `DataPathCheck` |
| `DataPathCheck` | one state per (data command of a block count and direction, response register contents) | `DataPathCheck.cfg` |
| `DataPathProofs` | TLAPS proofs of the four `data_path` invariants for every input | `tlapm` |
| `ClockDivider` | the divider scan, `div >>= 1`, the register encoding and the rate the controller derives | `ClockDividerCheck`, `SdhciClock` |
| `ClockDividerProofs` | TLAPS lemmas about the divider scan and the register encoding | `tlapm` |
| `ClockDividerCheck` | one state per (base clock, request) near every divisor boundary | `ClockDividerCheck.cfg` |
| `ClockDividerCheckProofs` | TLAPS proofs of the two `clock_divider` invariants | `tlapm` |
| `SdhciClock` | the clock manager's calls as actions; the stable spin is a `pc` of its own | `SdhciClock.cfg` |
| `SdhciClockProofs` | TLAPS proofs about `SdhciClock` | `tlapm` |
| `SdhciInit` | `sdhci_init` as a thread of five steps between waits, the caller's `sdhci_set_bus_width`, the interrupt handler, and the controller's reset and power requests | `SdhciInit.cfg` |
| `SdhciInitProofs` | TLAPS proofs about `SdhciInit` | `tlapm` |

Correspondence:
- Each action is one stretch of code between two places where the
  hardware can change what the driver reads next: one iteration of a
  polling loop, or straight-line code up to the next loop.
- An action's guard is the loop condition or early return; its primed
  variables are the register writes and host fields.
- Helpers keep the source names: `PrepDescTable`, `ClkScan`, `DecodeCaps`,
  `IntHandler`.
- Data is abstracted:
  - a command is an id and a shape `[data, read, switch, resp]`;
  - a response is the id of the command that produced it;
  - register bits are sets of names.
- Arithmetic is kept where it matters: the divider arithmetic and the
  16-bit fields.
- Each module also holds *fault variants*: an operator defined just
  before the one it varies, with the same parameters, used to show that a
  property does detect the bug.

## 3. Runs

| Run | Expect | Shows |
|---|---|---|
| `command_engine` | pass | 3 calls, shapes plain/read/switch(R1B)/bad, 2 polls per loop, error bits `{crc, vendor}`: `TypeOK`; the controller never DMAs from a freed table (`NoDmaFromFreedTable`); the command register is never written over a running command (`NoCommandOverlap`, an action property); every call returns (`SendCommandReturns`); the engine implements `SdhciCommandSpec`, fairness included (`RefinesCommandSpec`) |
| `success_means_completed` | violation | a timed-out command returns 0 |
| `response_is_own` | violation | a late Command Complete of an earlier command is copied as the response |
| `lines_released` | violation | the error path returns without the line reset |
| `failure_has_cause` | violation | a stale error bit fails a later command |
| `clock` | pass | two base clocks, three requests, all call sequences: `TypeOK` (10-bit divider, internal clock enabled before the stable wait), `SdClockFromStable` |
| `recorded_rate` | violation | `cur_clk_rate` is 0 after a supply at the base rate |
| `clock_after_switch` | violation | SDR switch leaves the clock off on a 50 MHz base |
| `clock_divider` | pass | `NeverOverclocks`, `FastestFit` over requests at, above and below every divisor boundary (including 255/256/511/512/1023 and the end of the scan) |
| `init` | pass | up to two `sdhci_init` calls, bus power off or already on at entry, the interrupt at any point (including the bus-off request of a powered reset and the handler signalling a dead frame): `TypeOK`, `CapsDecoded`, `InitReturns` |
| `handler_event_live` | violation | two `sdhci_init` calls: the handler signals the first call's dead stack event |
| `data_path` | pass | 1..65 blocks and the boundaries 127..129, 255..257, 383..385, 4095..4097, 65535: the chain covers the buffer, `END` only at the end, block count agrees with the chain. For 19 response register contents (all bytes distinct, all ones, each byte alone, alternating bits): the R2 copy holds bits 119:0 of RESP0..RESP3 at bits 127:8 with a zero low byte (`R2Aligned`) |

The findings each violation supports are in `PROJECT.json`. Seven more
properties are stated in the modules and are not standing runs. TLC finds
each of them violated with a one-line change of a cfg:
- `PowerAckedBeforeConfig` with `SdhciInit.cfg`'s constants: the reset
  of a powered bus raises a bus-off request. The handler acks it and
  signals the event, so `event_wait` (line 823) returns before bus power
  on is acknowledged, against spec 4.7's "block on the
  power-acknowledgment event". The property holds only for one call on an
  unpowered bus, where bus-on is the only request there is, so no
  passing run checks it.
- `NoTableLeak` with `SdhciCommand.cfg`'s constants: the error path
  returns without freeing the table, which spec 9 already records.
- `WidthIsLastSet` with `SdhciInit.cfg`'s constants: 8-bit then 4-bit
  leaves 8 bits.
- `ChainCoversBuffer` with `Blocks = {0}`: a zero-length descriptor is
  read as 64 KiB.
- `BlocksMatchChain` with `Blocks = {65536}`: the 16-bit block count
  wraps to 0.
- `R2LowByteKept` with `DataPathCheck.cfg`'s constants: the spec (4.6, 8)
  says R0 stays "low-aligned, unmodified in its low byte", while the code
  shifts RESP0 left by 8 as well. The code agrees with its own comment
  and with the R2 layout (`R2Aligned` holds), so the spec's wording is
  the one that is off.
- `SdClockCutWhenIdle` with `SdhciClock.cfg`'s constants: a direct
  `sdhci_clk_supply`, and both mode switches, clear `SDHCI_CLK_EN`
  while a command may still drive the lines. `sdhci_stop_sdcc_clk` is
  the only path that checks them.

Bounds and why they are enough:
- **Command engine.** Two polls per loop are enough to reach both exits
  of each loop: success on a poll, and exhaustion. Three calls let a
  late answer of call 1 meet calls 2 and 3. The four shapes cover every
  branch of the switch and of `cmd_complete`. One classified error bit
  and one unclassified bit separate "error raised" from "error reported".
- **Divider.** The exact boundaries are tried, and the real
  `SDHCI_CLK_MAX_DIV` = 2046 is used. The constant is not in this
  repository: 2046 is the value the 10-bit field allows.
- **Response.** Distinct bytes show that every byte lands in the right
  place, and all-ones shows that the OR loses nothing. A single byte set
  at each of the 16 positions tests each carry and each byte that falls
  off the top of `RESP3`.
- **ADMA.** `SDHCI_ADMA_DESC_LINE_SZ` is taken as 65536, the ADMA2
  maximum; it is also not in this repository. Every remainder class
  around 1, 2 and 3 descriptors is tried.
- **Init.** Two calls, and both initial bus powers, reach every request
  the handler can see: the bus-on request of each call, the bus-off
  request of a powered reset, and a handler step on a returned call's
  frame. The dangling-pointer run needs only the second call.

## 4. Fairness

- The driver runs on the only CPU and busy-waits, so its steps are
  weakly fair (`WF_vars(DriverStep)`, `WF_vars(Thread)`).
- The command engine's controller gets no fairness: it may stop
  answering at any point, and `SendCommandReturns` holds anyway because
  every loop there is bounded.
- The clock and init loops have no bound. The clock spin on
  `SDHCI_CLK_STABLE` (line 140) returns only if the oscillator settles,
  and nothing in the code ensures that. Its liveness would hold only
  under a fairness assumption that assumes the hazard away, so
  `SdhciClock`'s `Spec` has no fairness and states no liveness.
- `InitReturns` is stated under explicit assumptions about the
  controller: the reset completes (`WF_vars(HwResetDone)`, which assumes
  away the unbounded reset wait at line 731), the power request is
  raised, and an asserted level interrupt is taken. What the run shows is
  the handshake: the event wait returns whether the interrupt comes
  before or after it, and a handler that does not ack is caught.
- While the interrupt is asserted the thread takes no step. This is the
  interrupt's priority over thread code, and it is why the handler is
  fair.

## 5. Proofs

`SdhciCommandProofs` proves, for every value of the constants that
satisfies `CmdAssumption`:
- **`TypeCorrect`**: `Spec => []TypeOK`, from one lemma per action
  (`IssueType`, `ArmPollType`, …, `HwErrorType`) combined in `TypeStep`.
  `TypeOK` carries the bounds `retry < LineRetries` etc. of each loop, so
  it is inductive as stated.
- **`TableSafety`**: `Spec => []NoDmaFromFreedTable`. The invariant is
  not inductive: a step of `HwCmdDone` turns a command phase into DMA, so
  a table must already be held during the command phase. The
  strengthening is `TableHeld`: while the controller is in the command or
  data phase of a data command, that command's table is allocated.
  - `TableHeld` holds initially.
  - It is preserved by every action. `Dispatch` allocates before starting
    the controller. `Finish` frees only after the line reset has made the
    controller idle. The error return frees nothing.
  - It implies `NoDmaFromFreedTable`.

`SdhciClockProofs` proves, for every value of the constants satisfying
`MaxDivAssumption` and `ClockAssumption`:
- **`TypeCorrect`** (`Spec => []TypeOK`) and **`SdClockSafety`**
  (`Spec => []SdClockFromStable`). Neither is inductive alone: the
  invariant `Inv` is their conjunction, since `ClkEnable` sets
  `SDHCI_CLK_EN` on the strength of `pc = "Stable" => intEn` from
  `TypeOK`.
  - Each action gets its own lemma; the four calls that reach
    `sdhci_clk_supply` share `StartStep`.
  - `TypeOK` needs facts about the divider scan: `LastDivIsMax`, and
    `LeastNat`, which says the `CHOOSE` of the first break exists (from
    the library's `NatLessThanWellFounded` and `WFMin`); both are in
    `ClockDividerProofs`, which `SdhciClockProofs` extends. With those,
    `ScanType` and `SettingType` show that the divider is natural and the
    recorded rate lies in `Rates`.
- **`Refinement`** (in `SdhciCommandProofs`): `Spec => Abs!SafetySpec`,
  i.e. the command engine implements the safety part of
  `SdhciCommandSpec` under the mapping `AbsPhase` (Idle / Wait for `Arm`
  and `Dispatch` / Run), `AbsRunning` (the controller's command while it
  holds a line), and `cmdId`, `ret`, `tables`, `kindOf` as they are.
  - The one invariant the mapping needs besides `TypeOK` is
    `DispatchIdle`: between the last poll of the present-state loop and
    the command register write the controller is idle, since it takes no
    step from idle. That is why `Dispatch` maps to `Start`, whose guard
    is an idle controller.
  - `RefineStep` has one case per action. The polls map to stutters. The
    exhausted line loop maps to `GiveUp`. The error return, and the
    successful return with its line reset, map to `Complete`. A
    controller step maps to `Stop` or to a stutter.
  - The fairness part (`RefinesCommandSpec` includes `WF` of the caller)
    is checked by TLC only.
- **`CommandsSerial`** (in `SdhciCommandProofs`):
  `Spec => NoCommandOverlap`, the action property of the `command_engine`
  run. It rests on the same `DispatchIdle`. `OverlapStep` goes through
  the actions:
  - only `Dispatch` writes `"cmd"` to `hw`, and it does so from the idle
    controller;
  - `Finish` and the controller's own steps leave `hw` idle, in a data
    phase, or unchanged with the same command.

`ClockDividerProofs` holds the facts about the divider scan, for every
`SDHCI_CLK_MAX_DIV` in 3..2046 (`MaxDivAssumption`). The upper bound is
what the 10-bit field allows.
- **`EncodingRoundTrip`**: for every divider 0..1023, the field the
  controller decodes from `clk_val` is the divider written.
- `ScanFacts`: the divisor the loop leaves in `div` is even and lies in
  2..`LastDiv`+2. Either it meets the request (`b / div <= c`), or the
  scan ran out. Every smaller divisor of the loop is too fast. This is
  read off the `CHOOSE` of the first hit, with `LeastNat` for its
  existence.
- `ScanNoOverclock` and `ScanFastest` turn these facts into the rate the
  controller derives from the written register (`SettingFacts` relates
  the halved divisor to the field read back). `DivAntitone` and
  `DivBelow` are the two facts about integer division that they need.

`ClockDividerCheckProofs` proves, under the same assumption and
`CheckAssumption`:
- **`NoOverclock`** (`Spec => []NeverOverclocks`);
- **`FastestClock`** (`Spec => []FastestFit`).

Both theorems hold for every base clock and every request `c <= b`, not
only for the boundary requests the `clock_divider` run tries. The
invariant `CallOK` (`b` natural, `c` an integer at most `b`) is what the
two lemmas need of a state.

`DataPathProofs` proves the four `data_path` invariants for every block
size, and for every descriptor line size that fits the length field
(`AdmaAssumption`, including `DescLineSz <= 2^LenBits`). The three
descriptor theorems also assume `BlocksFit`: the block count is in
1..2^`CntBits`-1. Outside it, TLC shows `ChainCoversBuffer` and
`BlocksMatchChain` violated (section 3), so the hypothesis is needed and
not a convenience.
- **`ChainCovers`**, **`EndMarksLast`**, **`BlocksAgree`**.
  - `TableShape` gives every entry of `PrepDescTable` in closed form:
    entry `i` starts at `(i-1) * DescLineSz`, full lines except the last,
    and END on the last only.
  - `TableChain` sums the chain from that.
  - `TransferBlocks` reads the block count back from the registers.
- **`R2Correct`**: `R2Aligned` for every content of RESP0..RESP3, not
  only the 19 samples.
  - `ByteOrZero`: OR with a zero byte is the byte.
  - `R2Words` writes out the four words of the copy.
  - `FlatAt` locates byte `i` of four words laid end to end, from the
    sequence lemmas `ConcatAt`, `AppendWord` and `PrefixAt`.
  - `R2Shift` compares the two sides byte by byte.

Each component's state here is one input, so every invariant follows
from `Inputs`, which no step changes.

`SdhciInitProofs` proves, for every number of `sdhci_init` calls and every
initial bus power allowed by `InitAssumption`:
- **`TypeCorrect`** (`Spec => []TypeOK`), one lemma per action. The
  handler's step needs the case split on `Live(arg)`: a dead frame's slot
  is either left alone or is the running call's event.
- **`CapsSafety`** (`Spec => []CapsDecoded`). `CapsDecoded` is not
  inductive: during the reset of a later call it says nothing, yet that
  call's `BusPowerOn` relies on `host->caps` as the earlier call left it.
  The strengthening `CapsHeld` states the facts from the first decoding
  on (`Decoded`), reset phases included.
  - `DecodeVoltage` shows that the `CHOOSE` of the first advertised tier
    exists: a case per tier, with `WITNESS`. It then shows that its
    `Rank` is the least, using `RankVolts`, which says `Rank` undoes
    `Volts`.
  - `DecodeFacts` gives what one decoding establishes whatever
    `host->caps` held before. This is why the second decoding of a later
    call keeps the facts.
- `PowerAckedBeforeConfig` is not proved. It is false for a powered bus
  or a second call (section 3), and true only where bus-on is the only
  request.

What stays with TLC:
- **Liveness** (`SendCommandReturns`, `InitReturns`):
  the prover does not handle fairness or ENABLED.
- **`RefinesCommandSpec`'s fairness**: the safety part is `Refinement`.
- **All violation runs**: their result is a counterexample.

## 6. Not modelled

- **`sdhci_mode_enable`**: a single write.
- **Error classification order**: it only selects a log message. What
  `sdhci_cmd_err_status` returns is modelled (`ErrReported`).
- **`memalign` failure**: the code ASSERTs.
- **Cache maintenance**: no state the driver reads.
- **The `uint32_t` wrap of `num_blks * 512`**: it happens from 2^23
  blocks on, beyond the 16-bit block-count wrap that `BlocksMatchChain`
  already shows, and beyond TLC's integers.
- **The uninitialised `ack` of `sdhci_int_handler`**: it is unreachable
  because `sdhci_init` always enables the bus bits in the mask.

## 7. Plan

Next:
- an `SdhciHost` module that composes `SdhciClock`'s line check with the
  command engine's lines;
- a bounded wait for `SDHCI_CLK_STABLE` and for the software reset, if the
  code gains one, so that their return can be checked without fairness
  on the hardware.
