------------------------- MODULE SdhciCommandProofs -------------------------
(***************************************************************************)
(* Proofs about the command engine of SdhciCommand, for every number of    *)
(* calls, every retry bound and every set of command shapes and error      *)
(* bits: type correctness, and that the controller never reads a freed     *)
(* descriptor table.                                                       *)
(***************************************************************************)
EXTENDS SdhciCommand, TLAPS

\* The step relation is one of the actions, or a stutter.
LEMMA NextCases ==
  ASSUME [Next]_vars
  PROVE  \/ Issue \/ ArmPoll \/ Dispatch \/ CmdPoll \/ XferPoll \/ Finish
         \/ HwCmdDone \/ HwXferDone
         \/ \E e \in ErrBits : HwCmdError(e)
         \/ \E e \in ErrBits : HwDataError(e)
         \/ UNCHANGED vars
BY DEF Next, DriverStep, Controller, Done

\* The conjuncts of TypeOK that bound the retry counter of each loop.
RetryOK == /\ pc = "Arm" => retry < LineRetries
           /\ pc = "CmdWait" => retry < MaxCmdRetry
           /\ pc = "XferWait" => retry < MaxTransRetry

(* Type preservation, one lemma per action.  Each splits what the action  *)
(* leaves alone, the string and set facts (Zenon) and the arithmetic      *)
(* facts (SMT), since no single backend handles both.                     *)

LEMMA IssueType == ASSUME TypeOK, Issue PROVE TypeOK'
<1>1. UNCHANGED <<kindOf, tables, hw, hwCmd, nis, errSts, respReg,
                  cmdDone, xferDone>>
  BY DEF Issue, hwVars
<1>2. pc' = "Arm" /\ ret' = "none" /\ errNew' = {}
  BY DEF Issue
<1>3. cmdId \in 0..MaxCmds
  BY DEF TypeOK
<1>4. /\ cmdId' \in Ids /\ cmdId' \in 0..MaxCmds
      /\ retry' \in Nat /\ respOut' \in 0..MaxCmds
  BY <1>3, CmdAssumption DEF Issue, Ids
<1>5. RetryOK'
  BY <1>2, <1>4, CmdAssumption DEF Issue, RetryOK
<1>6. QED
  BY <1>1, <1>2, <1>4, <1>5, Zenon DEF TypeOK, RetryOK

LEMMA ArmPollType == ASSUME TypeOK, ArmPoll PROVE TypeOK'
<1>1. UNCHANGED <<kindOf, cmdId, respOut, tables, hw, hwCmd, nis, errSts,
                  respReg, cmdDone, xferDone, errNew>>
  BY DEF ArmPoll, hwVars, history
<1>2. pc' \in {"Idle", "Arm", "Dispatch"} /\ ret' \in {ret, "busy"}
  BY Zenon DEF ArmPoll, Return, TypeOK
<1>3. retry \in Nat
  BY DEF TypeOK
<1>4. retry' \in Nat
  BY <1>3 DEF ArmPoll
<1>5. pc = "Arm" /\ cmdId \in Ids
  BY DEF ArmPoll, TypeOK
<1>6. retry < LineRetries
  BY <1>5, Zenon DEF TypeOK
<1>7. RetryOK'
  BY <1>3, <1>6, CmdAssumption DEF ArmPoll, Return, RetryOK
<1>8. QED
  BY <1>1, <1>2, <1>4, <1>5, <1>7, Zenon DEF TypeOK, RetryOK

LEMMA DispatchType == ASSUME TypeOK, Dispatch PROVE TypeOK'
<1>1. UNCHANGED <<kindOf, cmdId, respOut, nis, errSts, respReg,
                  cmdDone, xferDone, errNew>>
  BY DEF Dispatch, hwVars, history
<1>2. pc = "Dispatch" /\ cmdId \in Ids
  BY DEF Dispatch, TypeOK
<1>3. \/ /\ pc' = "Idle" /\ ret' = "badresp"
         /\ UNCHANGED <<retry, tables, hw, hwCmd>>
      \/ /\ pc' = "CmdWait" /\ retry' = 0 /\ UNCHANGED ret
         /\ tables' \subseteq tables \cup {cmdId}
         /\ hw' = "cmd" /\ hwCmd' = cmdId
  BY Zenon DEF Dispatch, Return, hwVars, PrepDescTable
<1>4. 0 \in Nat /\ cmdId \in 0..MaxCmds
  BY <1>2, CmdAssumption DEF Ids
<1>5. RetryOK'
  <2>1. CASE pc' = "Idle"
    BY <2>1 DEF RetryOK
  <2>2. CASE pc' = "CmdWait" /\ retry' = 0
    BY <2>2, CmdAssumption DEF RetryOK
  <2>3. QED
    BY <1>3, <2>1, <2>2
<1>6. QED
  BY <1>1, <1>2, <1>3, <1>4, <1>5, Zenon DEF TypeOK, RetryOK

LEMMA CmdPollType == ASSUME TypeOK, CmdPoll PROVE TypeOK'
<1>1. UNCHANGED <<kindOf, cmdId, ret, tables, hw, hwCmd, errSts, respReg,
                  cmdDone, xferDone, errNew>>
  BY DEF CmdPoll, history
<1>2. /\ pc' \in {"CmdWait", "XferWait", "ErrCheck"}
      /\ nis' \subseteq nis
      /\ respOut' \in {respOut, respReg}
  BY Zenon DEF CmdPoll
<1>3. retry \in Nat
  BY DEF TypeOK
<1>4. retry' \in Nat
  BY <1>3 DEF CmdPoll
<1>5. pc = "CmdWait" /\ cmdId \in Ids
  BY DEF CmdPoll, TypeOK
<1>6. retry < MaxCmdRetry
  BY <1>5, Zenon DEF TypeOK
<1>7. RetryOK'
  BY <1>3, <1>5, <1>6, CmdAssumption DEF CmdPoll, RetryOK
<1>8. QED
  BY <1>1, <1>2, <1>4, <1>5, <1>7, Zenon DEF TypeOK, RetryOK

LEMMA XferPollType == ASSUME TypeOK, XferPoll PROVE TypeOK'
<1>1. UNCHANGED <<kindOf, cmdId, ret, respOut, tables, hw, hwCmd, errSts,
                  respReg, cmdDone, xferDone, errNew>>
  BY DEF XferPoll, history
<1>2. pc' \in {"XferWait", "ErrCheck"} /\ nis' \subseteq nis
  BY Zenon DEF XferPoll
<1>3. retry \in Nat
  BY DEF TypeOK
<1>4. retry' \in Nat
  BY <1>3 DEF XferPoll
<1>5. pc = "XferWait" /\ cmdId \in Ids
  BY DEF XferPoll, TypeOK
<1>6. retry < MaxTransRetry
  BY <1>5, Zenon DEF TypeOK
<1>7. RetryOK'
  BY <1>3, <1>5, <1>6, CmdAssumption DEF XferPoll, RetryOK
<1>8. QED
  BY <1>1, <1>2, <1>4, <1>5, <1>7, Zenon DEF TypeOK, RetryOK

LEMMA FinishType == ASSUME TypeOK, Finish PROVE TypeOK'
<1>1. UNCHANGED <<kindOf, retry, cmdId, respOut, hwCmd, errSts, respReg,
                  cmdDone, xferDone, errNew>>
  BY DEF Finish, history
<1>2. /\ pc' = "Idle" /\ ret' \in {"ok", "error"}
      /\ tables' \subseteq tables /\ hw' \in {hw, "idle"} /\ nis' \subseteq nis
  BY Zenon DEF Finish, Return, ReleaseTable
<1>3. RetryOK'
  <2>1. pc' = "Idle"
    BY <1>2
  <2>2. QED
    BY <2>1 DEF RetryOK
<1>4. QED
  BY <1>1, <1>2, <1>3, Zenon DEF TypeOK, RetryOK

LEMMA HwCmdDoneType == ASSUME TypeOK, HwCmdDone PROVE TypeOK'
<1>1. UNCHANGED <<kindOf, pc, retry, cmdId, ret, respOut, tables, hwCmd,
                  errSts, xferDone, errNew>>
  BY DEF HwCmdDone, driver
<1>2. /\ hw = "cmd" /\ hwCmd \in Ids /\ hw' \in {"data", "idle"}
      /\ nis' = nis \cup {"CC"} /\ respReg' = hwCmd
      /\ cmdDone' = cmdDone \cup {hwCmd}
  BY Zenon DEF HwCmdDone, TypeOK
<1>3. QED
  BY <1>1, <1>2, Zenon DEF TypeOK, Ids

LEMMA HwXferDoneType == ASSUME TypeOK, HwXferDone PROVE TypeOK'
<1>1. UNCHANGED <<kindOf, pc, retry, cmdId, ret, respOut, tables, hwCmd,
                  errSts, respReg, cmdDone, errNew>>
  BY DEF HwXferDone, driver
<1>2. /\ hw = "data" /\ hwCmd \in Ids /\ hw' = "idle"
      /\ nis' = nis \cup {"TC"} /\ xferDone' = xferDone \cup {hwCmd}
  BY Zenon DEF HwXferDone, TypeOK
<1>3. QED
  BY <1>1, <1>2, Zenon DEF TypeOK

LEMMA HwErrorType ==
  ASSUME TypeOK, NEW e \in ErrBits, HwCmdError(e) \/ HwDataError(e)
  PROVE  TypeOK'
<1>1. UNCHANGED <<kindOf, pc, retry, cmdId, ret, respOut, tables, hwCmd,
                  nis, respReg, cmdDone, xferDone>>
  BY DEF HwCmdError, HwDataError, driver
<1>2. /\ hw /= "idle" /\ hw' \in {"idle", "held"}
      /\ errSts' = errSts \cup {e} /\ errNew' = errNew \cup {e}
  BY Zenon DEF HwCmdError, HwDataError
<1>3. QED
  BY <1>1, <1>2, Zenon DEF TypeOK

LEMMA TypeStep == TypeOK /\ [Next]_vars => TypeOK'
<1> SUFFICES ASSUME TypeOK, [Next]_vars PROVE TypeOK'
  OBVIOUS
<1>1. CASE UNCHANGED vars
  BY <1>1, Zenon DEF vars, driver, hwVars, history, TypeOK
<1>2. QED
  BY <1>1, NextCases, IssueType, ArmPollType, DispatchType, CmdPollType,
     XferPollType, FinishType, HwCmdDoneType, HwXferDoneType, HwErrorType

\* Every reachable state is well typed: in particular the command the
\* driver and the controller work on is one of the caller's commands.
THEOREM TypeCorrect == Spec => []TypeOK
<1>1. Init => TypeOK
  BY CmdAssumption DEF Init, TypeOK, Ids
<1>2. QED
  BY <1>1, TypeStep, PTL DEF Spec

\* The controller never reads the descriptor table of a command whose
\* table sdhci_send_command has freed.
THEOREM TableSafety == Spec => []NoDmaFromFreedTable
<1> DEFINE IInv == TypeOK /\ TableHeld
<1>1. Init => IInv
  BY CmdAssumption DEF Init, TypeOK, TableHeld, Ids
<1>2. IInv /\ [Next]_vars => TableHeld'
  <2> SUFFICES ASSUME TypeOK, TableHeld, [Next]_vars
               PROVE TableHeld'
    OBVIOUS
  <2>1. CASE UNCHANGED <<kindOf, tables, hw, hwCmd>>
    BY <2>1 DEF TableHeld
  <2>2. CASE Issue \/ ArmPoll \/ CmdPoll \/ XferPoll \/ UNCHANGED vars
    <3>1. UNCHANGED <<kindOf, tables, hw, hwCmd>>
      BY <2>2 DEF Issue, ArmPoll, CmdPoll, XferPoll, vars, hwVars
    <3>2. QED
      BY <2>1, <3>1
  <2>3. CASE Dispatch
    \* The command register is written after the table is allocated.
    BY <2>3 DEF Dispatch, Return, TableHeld, PrepDescTable, hwVars
  <2>4. CASE Finish
    \* A data command's table is freed only together with the line reset.
    BY <2>4 DEF Finish, Return, TableHeld, ReleaseTable
  <2>5. CASE HwCmdDone \/ HwXferDone
    BY <2>5 DEF HwCmdDone, HwXferDone, TableHeld
  <2>6. ASSUME NEW e \in ErrBits, HwCmdError(e) \/ HwDataError(e)
        PROVE  TableHeld'
    BY <2>6 DEF HwCmdError, HwDataError, TableHeld
  <2>7. QED
    BY <2>2, <2>3, <2>4, <2>5, <2>6, NextCases
<1>3. IInv => NoDmaFromFreedTable
  BY DEF TableHeld, NoDmaFromFreedTable, DmaActive
<1>4. QED
  BY <1>1, <1>2, <1>3, TypeStep, PTL DEF Spec

-----------------------------------------------------------------------------
(* Refinement of SdhciCommandSpec.  Between the last poll of the present-  *)
(* state loop and the command register write the controller cannot start   *)
(* anything, so the lines the driver saw free are still free when the      *)
(* command starts: that is the one invariant the mapping needs.            *)

DispatchIdle == pc = "Dispatch" => hw = "idle"

\* The controller takes no step from idle, and only the free-lines exit of
\* the present-state loop enters Dispatch.
LEMMA DispatchIdleStep ==
  TypeOK /\ DispatchIdle /\ [Next]_vars => DispatchIdle'
<1> SUFFICES ASSUME TypeOK, DispatchIdle, [Next]_vars PROVE DispatchIdle'
  OBVIOUS
<1>1. CASE Issue \/ CmdPoll \/ XferPoll \/ Finish \/ Dispatch
  BY <1>1 DEF Issue, CmdPoll, XferPoll, Finish, Dispatch, Return,
             DispatchIdle
<1>2. CASE ArmPoll
  <2>1. CASE LinesFree
    BY <1>2, <2>1 DEF ArmPoll, LinesFree, hwVars, DispatchIdle
  <2>2. CASE ~LinesFree
    <3>1. pc' /= "Dispatch"
      BY <1>2, <2>2 DEF ArmPoll, Return
    <3>2. QED
      BY <3>1 DEF DispatchIdle
  <2>3. QED
    BY <2>1, <2>2
<1>3. CASE HwCmdDone \/ HwXferDone
  BY <1>3 DEF HwCmdDone, HwXferDone, driver, DispatchIdle
<1>4. ASSUME NEW e \in ErrBits, HwCmdError(e) \/ HwDataError(e)
      PROVE  DispatchIdle'
  BY <1>4 DEF HwCmdError, HwDataError, driver, DispatchIdle
<1>5. CASE UNCHANGED vars
  BY <1>5 DEF vars, driver, hwVars, DispatchIdle
<1>6. QED
  BY <1>1, <1>2, <1>3, <1>4, <1>5, NextCases

\* Every step of the engine is a step of SdhciCommandSpec or a stutter of
\* its variables under the mapping.
LEMMA RefineStep ==
  TypeOK /\ DispatchIdle /\ [Next]_vars => [Abs!Next]_Abs!avars
<1> SUFFICES ASSUME TypeOK, DispatchIdle, [Next]_vars
             PROVE  [Abs!Next]_Abs!avars
  OBVIOUS
<1> USE DEF Abs!avars, AbsPhase, AbsRunning
<1>1. CASE Issue
  <2>1. Abs!Call
    BY <1>1 DEF Issue, Abs!Call, hwVars
  <2>2. QED
    BY <2>1 DEF Abs!Next
<1>2. CASE ArmPoll
  <2>1. CASE LinesFree
    BY <1>2, <2>1 DEF ArmPoll, LinesFree, hwVars
  <2>2. CASE ~LinesFree /\ retry + 1 /= LineRetries
    BY <1>2, <2>2 DEF ArmPoll, LinesFree, hwVars
  <2>3. CASE ~LinesFree /\ retry + 1 = LineRetries
    <3>1. pc = "Arm" /\ pc' = "Idle" /\ ret' = "busy" /\ hw /= "idle"
      BY <1>2, <2>3 DEF ArmPoll, Return, LinesFree
    <3>2. UNCHANGED <<kindOf, cmdId, tables, hw, hwCmd>>
      BY <1>2 DEF ArmPoll, hwVars
    <3>3. Abs!GiveUp
      BY <3>1, <3>2, TypeOK DEF Abs!GiveUp, TypeOK
    <3>4. QED
      BY <3>3 DEF Abs!Next, Abs!CallerStep
  <2>4. QED
    BY <2>1, <2>2, <2>3
<1>3. CASE Dispatch
  <2>1. Abs!GiveUp \/ Abs!Start
    BY <1>3 DEF Dispatch, Return, DispatchIdle, PrepDescTable, hwVars,
               Abs!GiveUp, Abs!Start
  <2>2. QED
    BY <2>1 DEF Abs!Next, Abs!CallerStep
<1>4. CASE CmdPoll \/ XferPoll
  BY <1>4 DEF CmdPoll, XferPoll
<1>5. CASE Finish
  <2>1. Abs!Complete
    BY <1>5 DEF Finish, Return, ReleaseTable, TypeOK, Abs!Complete
  <2>2. QED
    BY <2>1 DEF Abs!Next, Abs!CallerStep
<1>6. CASE HwCmdDone \/ HwXferDone
  <2>1. Abs!Stop \/ UNCHANGED Abs!avars
    BY <1>6 DEF HwCmdDone, HwXferDone, driver, Abs!Stop
  <2>2. QED
    BY <2>1 DEF Abs!Next
<1>7. ASSUME NEW e \in ErrBits, HwCmdError(e) \/ HwDataError(e)
      PROVE  [Abs!Next]_Abs!avars
  <2>1. Abs!Stop \/ UNCHANGED Abs!avars
    BY <1>7 DEF HwCmdError, HwDataError, driver, Abs!Stop
  <2>2. QED
    BY <2>1 DEF Abs!Next
<1>8. CASE UNCHANGED vars
  BY <1>8 DEF vars, driver, hwVars
<1>9. QED
  BY <1>1, <1>2, <1>3, <1>4, <1>5, <1>6, <1>7, <1>8, NextCases

\* sdhci_send_command implements the safety part of SdhciCommandSpec: a
\* call waits, starts its command only on an idle controller and returns;
\* a data command's table is freed only by the return that stops the
\* controller.
THEOREM Refinement == Spec => Abs!SafetySpec
<1>1. Init => Abs!Init
  BY DEF Init, Abs!Init, AbsPhase, AbsRunning, Ids, Abs!Ids
<1>2. Init => DispatchIdle
  BY DEF Init, DispatchIdle
<1>3. Init => TypeOK
  BY CmdAssumption DEF Init, TypeOK, Ids
<1>4. QED
  BY <1>1, <1>2, <1>3, DispatchIdleStep, TypeStep, RefineStep, PTL
  DEF Spec, Abs!SafetySpec

\* Only the command register write of Dispatch makes the controller start
\* a command, and DispatchIdle makes it find the lines free.
LEMMA OverlapStep ==
  TypeOK /\ DispatchIdle /\ [Next]_vars => [StartsCommand => LinesFree]_vars
<1> SUFFICES ASSUME TypeOK, DispatchIdle, [Next]_vars, StartsCommand
             PROVE  LinesFree
  OBVIOUS
<1>1. CASE Dispatch
  BY <1>1 DEF Dispatch, DispatchIdle, LinesFree
<1>2. CASE Issue \/ ArmPoll \/ CmdPoll \/ XferPoll
  <2>1. UNCHANGED <<hw, hwCmd>>
    BY <1>2 DEF Issue, ArmPoll, CmdPoll, XferPoll, Return, hwVars
  <2>. QED  BY <2>1 DEF StartsCommand
<1>6. CASE Finish
  <2>1. hw' \in {"idle", hw} /\ hwCmd' = hwCmd
    BY <1>6 DEF Finish
  <2>. QED  BY <2>1 DEF StartsCommand
<1>3. CASE HwCmdDone \/ HwXferDone
  BY <1>3 DEF HwCmdDone, HwXferDone, StartsCommand
<1>4. ASSUME NEW e \in ErrBits, HwCmdError(e) \/ HwDataError(e)
      PROVE  LinesFree
  BY <1>4 DEF HwCmdError, HwDataError, StartsCommand
<1>5. CASE UNCHANGED vars
  BY <1>5 DEF vars, hwVars, StartsCommand
<1>. QED  BY <1>1, <1>2, <1>3, <1>4, <1>5, <1>6, NextCases

\* sdhci_send_command writes the command register only while the
\* controller runs no command: a call that timed out leaves a command
\* running, and the next call's present-state loop returns busy rather
\* than start another over it (command_engine run).
THEOREM CommandsSerial == Spec => NoCommandOverlap
<1>1. Init => TypeOK /\ DispatchIdle
  BY CmdAssumption DEF Init, TypeOK, Ids, DispatchIdle
<1>. QED
  BY <1>1, TypeStep, DispatchIdleStep, OverlapStep, PTL DEF Spec, NoCommandOverlap

=============================================================================
