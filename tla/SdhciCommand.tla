---------------------------- MODULE SdhciCommand ----------------------------
(***************************************************************************)
(* The command engine of src/platform/msm_shared/sdhci.c:                  *)
(* sdhci_send_command, sdhci_adma_transfer (descriptor allocation),        *)
(* sdhci_cmd_complete and sdhci_cmd_err_status, run against a model of     *)
(* the SDHCI controller that executes the command.                         *)
(*                                                                         *)
(* The driver is one thread of busy-wait loops; the controller acts        *)
(* between any two of its register reads.  A command is identified by its  *)
(* position 1..MaxCmds in the caller's sequence of calls; its shape        *)
(* (data, direction, switch class, response type) is kindOf[id].  Data    *)
(* bytes, descriptor contents and register encodings are abstracted away:  *)
(* the descriptor table of command id is the element id of `tables`, the  *)
(* response registers hold the id of the command that produced them.       *)
(***************************************************************************)
EXTENDS Naturals, FiniteSets

CONSTANTS
  MaxCmds,        \* number of sendCommand calls in one behaviour
  LineRetries,    \* polls of the present-state register (10 in the code)
  MaxCmdRetry,    \* polls for Command Complete (SDHCI_MAX_CMD_RETRY)
  MaxTransRetry,  \* polls for Transfer Complete (SDHCI_MAX_TRANS_RETRY)
  Kinds,          \* the command shapes callers pass
  ErrBits,        \* bits the controller can set in the error status register
  Classified      \* the bits sdhci_cmd_err_status tests

\* Response types of struct mmc_command; "BAD" is any value the switch of
\* sdhci_send_command does not list.
RespTypes == {"R1", "R1B", "R2", "R3", "R6", "R7", "NONE", "BAD"}

Kind == [data : BOOLEAN, read : BOOLEAN, switch : BOOLEAN, resp : RespTypes]

ASSUME CmdAssumption ==
  /\ MaxCmds \in Nat
  /\ LineRetries \in Nat \ {0}
  /\ MaxCmdRetry \in Nat \ {0}
  /\ MaxTransRetry \in Nat \ {0}
  /\ Kinds \subseteq Kind /\ Kinds /= {}
  /\ Classified \subseteq ErrBits

Ids == 1..MaxCmds

VARIABLES
  kindOf,    \* the caller's commands: id -> shape
  pc,        \* where the driver is: "Idle" or a wait/step of send_command
  retry,     \* the retry counter of the loop pc is in
  cmdId,     \* the command of the current (or last) call
  ret,       \* which return of the last call was taken: "none" while
             \* running, "ok" (0), or the failing return 1: "busy" (lines
             \* never freed), "badresp" (response type), "error" (status)
  respOut,   \* cmd->resp[0]: id whose response the driver copied, 0 if none
  tables,    \* ids whose descriptor table is allocated (memalign'ed)
  hw,        \* controller: "idle", executing "cmd" phase, "data" phase
             \* (DMA or busy signalling), or "held" (DAT line held after
             \* a data error, until a software reset)
  hwCmd,     \* id the controller executes (last one when idle)
  nis,       \* normal interrupt status bits set: "CC", "TC"
  errSts,    \* error interrupt status bits set
  respReg,   \* id whose response the response registers hold, 0 if none
  cmdDone,   \* history: ids whose command phase the controller completed
  xferDone,  \* history: ids whose data/busy phase the controller completed
  errNew     \* history: error bits raised since the current call began

driver == <<pc, retry, cmdId, ret, respOut>>
hwVars == <<hw, hwCmd, nis, errSts, respReg>>
history == <<cmdDone, xferDone, errNew>>
vars == <<kindOf, driver, tables, hwVars, history>>

-----------------------------------------------------------------------------
(* Conditions the code tests, and what the controller does.               *)

\* SDHCI_STATE_CMD_DAT_MASK of the present-state register reads zero.
LinesFree == hw = "idle"

\* cmd->data_present || cmd->cmd_index == SDHCI_SWITCH_CMD: the driver
\* waits for Transfer Complete.
WaitsForXfer(k) == k.data \/ k.switch

\* The controller signals Transfer Complete after a data transfer or the
\* busy period of an R1B response.
HasDataPhase(k) == k.data \/ k.resp = "R1B"

\* The controller reads the descriptor table of hwCmd.
DmaActive == hw = "data" /\ kindOf[hwCmd].data

\* sdhci_cmd_err_status returns 1: one of the bits it tests is set (the
\* error-summary bit of the normal status is the OR of all error bits).
ErrReported == errSts \cap Classified /= {}

Return(r) == pc' = "Idle" /\ ret' = r

\* sdhci_prep_desc_table: the table of command id is allocated (its
\* entries are the subject of SdhciAdma).
PrepDescTable(id) == tables \cup {id}

\* free(sg_list) at the end of sdhci_send_command.
ReleaseTable(id) == tables \ {id}

-----------------------------------------------------------------------------
(* The driver.                                                             *)

Init ==
  /\ kindOf \in [Ids -> Kinds]
  /\ pc = "Idle" /\ retry = 0 /\ cmdId = 0 /\ ret = "none" /\ respOut = 0
  /\ tables = {}
  /\ hw = "idle" /\ hwCmd = 0 /\ nis = {} /\ errSts = {} /\ respReg = 0
  /\ cmdDone = {} /\ xferDone = {} /\ errNew = {}

\* A caller enters sdhci_send_command with a fresh struct mmc_command.
Issue ==
  /\ pc = "Idle" /\ cmdId < MaxCmds
  /\ pc' = "Arm" /\ cmdId' = cmdId + 1 /\ retry' = 0
  /\ ret' = "none" /\ respOut' = 0 /\ errNew' = {}
  /\ UNCHANGED <<kindOf, tables, hwVars, cmdDone, xferDone>>

\* Faults of the present-state loop: the count tested before it is
\* incremented, and a loop that falls through to the command once the
\* retries are spent.
ArmPollLateCount ==
  /\ pc = "Arm"
  /\ \/ /\ LinesFree
        /\ pc' = "Dispatch" /\ UNCHANGED <<retry, ret>>
     \/ /\ ~LinesFree
        /\ retry' = retry + 1
        /\ IF retry = LineRetries THEN Return("busy")
                                   ELSE UNCHANGED <<pc, ret>>
  /\ UNCHANGED <<kindOf, cmdId, respOut, tables, hwVars, history>>

ArmPollFallThrough ==
  /\ pc = "Arm"
  /\ \/ /\ LinesFree
        /\ pc' = "Dispatch" /\ UNCHANGED <<retry, ret>>
     \/ /\ ~LinesFree
        /\ retry' = retry + 1
        /\ pc' = IF retry + 1 = LineRetries THEN "Dispatch" ELSE "Arm"
        /\ UNCHANGED ret
  /\ UNCHANGED <<kindOf, cmdId, respOut, tables, hwVars, history>>

\* One iteration of the loop that waits for the CMD and DAT lines.
ArmPoll ==
  /\ pc = "Arm"
  /\ \/ /\ LinesFree
        /\ pc' = "Dispatch" /\ UNCHANGED <<retry, ret>>
     \/ /\ ~LinesFree
        /\ retry' = retry + 1
        /\ IF retry + 1 = LineRetries THEN Return("busy")
                                       ELSE UNCHANGED <<pc, ret>>
  /\ UNCHANGED <<kindOf, cmdId, respOut, tables, hwVars, history>>

\* The response-type switch, then the timeout, the ADMA table and
\* transfer registers for a data command, the argument and the command
\* register, whose write starts the controller.
Dispatch ==
  /\ pc = "Dispatch"
  /\ \/ /\ kindOf[cmdId].resp = "BAD"
        /\ Return("badresp")
        /\ UNCHANGED <<retry, tables, hwVars>>
     \/ /\ kindOf[cmdId].resp /= "BAD"
        /\ tables' = IF kindOf[cmdId].data THEN PrepDescTable(cmdId) ELSE tables
        /\ hw' = "cmd" /\ hwCmd' = cmdId
        /\ pc' = "CmdWait" /\ retry' = 0
        /\ UNCHANGED <<ret, nis, errSts, respReg>>
  /\ UNCHANGED <<kindOf, cmdId, respOut, history>>

\* Fault: a Command Complete loop without its retry bound.
CmdPollUnbounded ==
  /\ pc = "CmdWait"
  /\ \/ /\ "CC" \in nis
        /\ nis' = nis \ {"CC"}
        /\ respOut' = respReg
        /\ retry' = 0
        /\ pc' = IF WaitsForXfer(kindOf[cmdId]) THEN "XferWait" ELSE "ErrCheck"
     \/ /\ "CC" \notin nis
        /\ UNCHANGED <<pc, retry, nis, respOut>>
  /\ UNCHANGED <<kindOf, cmdId, ret, tables, hw, hwCmd, errSts, respReg,
                 history>>

\* One iteration of the Command Complete loop; on success the bit is
\* cleared by write-back and the response registers are copied.
CmdPoll ==
  /\ pc = "CmdWait"
  /\ \/ /\ "CC" \in nis
        /\ nis' = nis \ {"CC"}
        /\ respOut' = respReg
        /\ retry' = 0
        /\ pc' = IF WaitsForXfer(kindOf[cmdId]) THEN "XferWait" ELSE "ErrCheck"
     \/ /\ "CC" \notin nis
        /\ retry' = retry + 1
        /\ pc' = IF retry + 1 = MaxCmdRetry THEN "ErrCheck" ELSE "CmdWait"
        /\ UNCHANGED <<nis, respOut>>
  /\ UNCHANGED <<kindOf, cmdId, ret, tables, hw, hwCmd, errSts, respReg,
                 history>>

\* One iteration of the Transfer Complete loop.
XferPoll ==
  /\ pc = "XferWait"
  /\ \/ /\ "TC" \in nis
        /\ nis' = nis \ {"TC"}
        /\ pc' = "ErrCheck"
        /\ UNCHANGED retry
     \/ /\ "TC" \notin nis
        /\ retry' = retry + 1
        /\ pc' = IF retry + 1 = MaxTransRetry THEN "ErrCheck" ELSE "XferWait"
        /\ UNCHANGED nis
  /\ UNCHANGED <<kindOf, cmdId, ret, respOut, tables, hw, hwCmd, errSts,
                 respReg, history>>

\* Fault: the table released on every exit path, the error return
\* included, without the line reset.
FinishFreeAlways ==
  /\ pc = "ErrCheck"
  /\ \/ /\ ErrReported
        /\ Return("error")
        /\ tables' = ReleaseTable(cmdId)
        /\ UNCHANGED <<hw, nis>>
     \/ /\ ~ErrReported
        /\ IF kindOf[cmdId].data
             THEN /\ hw' = "idle"
                  /\ nis' = nis \ {"CC", "TC"}
                  /\ tables' = ReleaseTable(cmdId)
             ELSE UNCHANGED <<hw, nis, tables>>
        /\ Return("ok")
  /\ UNCHANGED <<kindOf, retry, cmdId, respOut, hwCmd, errSts, respReg,
                 history>>

\* The err: label of sdhci_cmd_complete and the rest of send_command: a
\* reported error returns 1 at once; otherwise a data command resets the
\* CMD and DAT lines (which stops the controller and clears CC and TC),
\* the cache of a read buffer is invalidated and the table is freed.
Finish ==
  /\ pc = "ErrCheck"
  /\ \/ /\ ErrReported
        /\ Return("error")
        /\ UNCHANGED <<tables, hw, nis>>
     \/ /\ ~ErrReported
        /\ IF kindOf[cmdId].data
             THEN /\ hw' = "idle"
                  /\ nis' = nis \ {"CC", "TC"}
                  /\ tables' = ReleaseTable(cmdId)
             ELSE UNCHANGED <<hw, nis, tables>>
        /\ Return("ok")
  /\ UNCHANGED <<kindOf, retry, cmdId, respOut, hwCmd, errSts, respReg,
                 history>>

-----------------------------------------------------------------------------
(* The controller.  It is not fair: it may stop responding at any point.   *)

\* The command phase ends with a response: CC is set and the response
\* registers are written; a data transfer or R1B busy period follows.
HwCmdDone ==
  /\ hw = "cmd"
  /\ nis' = nis \cup {"CC"}
  /\ respReg' = hwCmd
  /\ cmdDone' = cmdDone \cup {hwCmd}
  /\ hw' = IF HasDataPhase(kindOf[hwCmd]) THEN "data" ELSE "idle"
  /\ UNCHANGED <<kindOf, driver, tables, hwCmd, errSts, xferDone, errNew>>

\* A command-phase error (timeout, CRC, index, end bit): no CC, the CMD
\* line is released.
HwCmdError(e) ==
  /\ hw = "cmd"
  /\ errSts' = errSts \cup {e} /\ errNew' = errNew \cup {e}
  /\ hw' = "idle"
  /\ UNCHANGED <<kindOf, driver, tables, hwCmd, nis, respReg, cmdDone,
                 xferDone>>

\* The data or busy phase ends: TC is set.
HwXferDone ==
  /\ hw = "data"
  /\ nis' = nis \cup {"TC"}
  /\ xferDone' = xferDone \cup {hwCmd}
  /\ hw' = "idle"
  /\ UNCHANGED <<kindOf, driver, tables, hwCmd, errSts, respReg, cmdDone,
                 errNew>>

\* A data-phase error stops the transfer; the DAT line is released or
\* stays held until a software reset.
HwDataError(e) ==
  /\ hw = "data"
  /\ errSts' = errSts \cup {e} /\ errNew' = errNew \cup {e}
  /\ hw' \in {"idle", "held"}
  /\ UNCHANGED <<kindOf, driver, tables, hwCmd, nis, respReg, cmdDone,
                 xferDone>>

\* All calls have been made and the last one returned.
Done ==
  /\ pc = "Idle" /\ cmdId = MaxCmds
  /\ UNCHANGED vars

DriverStep == ArmPoll \/ Dispatch \/ CmdPoll \/ XferPoll \/ Finish

Controller ==
  \/ HwCmdDone \/ HwXferDone
  \/ \E e \in ErrBits : HwCmdError(e) \/ HwDataError(e)

Next == Issue \/ DriverStep \/ Controller \/ Done

\* The driver runs on the only CPU and busy-waits: once in send_command it
\* keeps taking steps.  The controller and the caller get no fairness.
Spec == Init /\ [][Next]_vars /\ WF_vars(DriverStep)

-----------------------------------------------------------------------------
(* Properties.                                                             *)

TypeOK ==
  /\ kindOf \in [Ids -> Kinds]
  /\ pc \in {"Idle", "Arm", "Dispatch", "CmdWait", "XferWait", "ErrCheck"}
  /\ retry \in Nat
  /\ pc = "Arm" => retry < LineRetries
  /\ pc = "CmdWait" => retry < MaxCmdRetry
  /\ pc = "XferWait" => retry < MaxTransRetry
  /\ cmdId \in 0..MaxCmds
  /\ ret \in {"none", "ok", "busy", "badresp", "error"}
  /\ respOut \in 0..MaxCmds
  /\ tables \subseteq Ids
  /\ hw \in {"idle", "cmd", "data", "held"}
  /\ hwCmd \in 0..MaxCmds
  /\ hw /= "idle" => hwCmd \in Ids
  /\ pc /= "Idle" => cmdId \in Ids
  /\ nis \subseteq {"CC", "TC"}
  /\ errSts \subseteq ErrBits
  /\ respReg \in 0..MaxCmds
  /\ cmdDone \subseteq Ids /\ xferDone \subseteq Ids
  /\ errNew \subseteq ErrBits


\* The controller never reads the descriptor table of a command after
\* send_command freed it: the free on the success path of a data command
\* comes after the line reset, and the failing returns leave the table
\* allocated (sdhci_send_command, sdhci_cmd_complete).
NoDmaFromFreedTable == DmaActive => hwCmd \in tables

\* Inductive form: from the write of the command register on, a data
\* command being executed owns its table.
TableHeld == hw \in {"cmd", "data"} /\ kindOf[hwCmd].data => hwCmd \in tables

\* The command register is written only while the controller executes no
\* command: the present-state loop of sdhci_send_command returns busy
\* rather than overlap a command still running after an earlier timeout.
StartsCommand == hw' = "cmd" /\ <<hw, hwCmd>> /= <<hw', hwCmd'>>
NoCommandOverlap == [][StartsCommand => LinesFree]_vars

\* Every call of sdhci_send_command returns, whatever the controller does:
\* each of its wait loops is bounded by a retry count.
SendCommandReturns == pc /= "Idle" ~> pc = "Idle"

\* Refinement mapping onto SdhciCommandSpec: the present-state loop and the
\* response-type switch are the wait; the command register write starts the
\* command; the controller runs a command while it holds the CMD or DAT line.
AbsPhase ==
  IF pc = "Idle" THEN "Idle"
  ELSE IF pc \in {"Arm", "Dispatch"} THEN "Wait" ELSE "Run"

AbsRunning == IF hw = "idle" THEN {} ELSE {hwCmd}

Abs == INSTANCE SdhciCommandSpec
         WITH phase <- AbsPhase, cur <- cmdId, result <- ret,
              running <- AbsRunning

\* sdhci_send_command implements the atomic protocol of SdhciCommandSpec:
\* every poll, interrupt bit and retry maps to a stutter or to one wait,
\* start, return or controller stop, and every call returns.
RefinesCommandSpec == Abs!Spec

\* The spec (4.6): a call returns 0 only after the controller signalled
\* Command Complete for it, and Transfer Complete when the call waits for
\* it; exhausting either loop fails with a timeout.
SuccessMeansCompleted ==
  (pc = "Idle" /\ ret = "ok") =>
     /\ cmdId \in cmdDone
     /\ WaitsForXfer(kindOf[cmdId]) => cmdId \in xferDone

\* The response sdhci_cmd_complete copies into the caller's command is
\* the response to that command.
ResponseIsOwn == respOut \in {0, cmdId}

\* The spec (9): the descriptor table is released on every exit path, so
\* no table is allocated between calls.
NoTableLeak == pc = "Idle" => tables = {}

\* The spec (7): a data command's line reset is performed whichever error
\* occurred, so the controller no longer holds the lines for that command
\* once the call returned.
LinesReleasedOnReturn ==
  (pc = "Idle" /\ cmdId \in Ids /\ kindOf[cmdId].data) =>
     ~(hw \in {"data", "held"} /\ hwCmd = cmdId)

\* A call fails on the error status only if an error was raised while it
\* ran (sdhci_cmd_err_status reads bits nothing clears).
FailureHasCause == (pc = "Idle" /\ ret = "error") => errNew \cap Classified /= {}

=============================================================================
