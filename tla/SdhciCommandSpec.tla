-------------------------- MODULE SdhciCommandSpec --------------------------
(***************************************************************************)
(* What sdhci_send_command promises its callers and the controller, with   *)
(* the polling loops, interrupt bits and retry counts abstracted away.     *)
(*                                                                         *)
(* A call waits for the controller, then either gives up (the lines stayed *)
(* busy, or the response type is rejected) or starts its command in one    *)
(* step; a started call returns "ok" or "error".  The controller executes  *)
(* at most one command, and may stop with it at any time.  The descriptor  *)
(* table of a data command is allocated when the command starts and freed  *)
(* only by a successful return, which also stops the controller.           *)
(*                                                                         *)
(* SdhciCommand refines this module (see Abs there).                       *)
(***************************************************************************)
EXTENDS Naturals

CONSTANTS MaxCmds, Kinds

Ids == 1..MaxCmds

VARIABLES
  kindOf,   \* the caller's commands: id -> shape
  phase,    \* "Idle", "Wait" (before the command register), "Run" (after)
  cur,      \* the id of the current (or last) call
  result,   \* "none" while running, else the return taken
  running,  \* the commands the controller executes: {} or {id}
  tables    \* ids whose descriptor table is allocated

avars == <<kindOf, phase, cur, result, running, tables>>

Init ==
  /\ kindOf \in [Ids -> Kinds]
  /\ phase = "Idle" /\ cur = 0 /\ result = "none"
  /\ running = {} /\ tables = {}

\* A caller enters sdhci_send_command.
Call ==
  /\ phase = "Idle" /\ cur < MaxCmds
  /\ phase' = "Wait" /\ cur' = cur + 1 /\ result' = "none"
  /\ UNCHANGED <<kindOf, running, tables>>

\* The call gives up before writing the command register: the lines are
\* busy, or the response type is not one the driver knows.
GiveUp ==
  /\ phase = "Wait"
  /\ \/ running /= {} /\ result' = "busy"
     \/ kindOf[cur].resp = "BAD" /\ result' = "badresp"
  /\ phase' = "Idle"
  /\ UNCHANGED <<kindOf, cur, running, tables>>

\* The command starts on an idle controller; a data command takes its
\* descriptor table first.
Start ==
  /\ phase = "Wait" /\ running = {} /\ kindOf[cur].resp /= "BAD"
  /\ running' = {cur}
  /\ tables' = IF kindOf[cur].data THEN tables \cup {cur} ELSE tables
  /\ phase' = "Run"
  /\ UNCHANGED <<kindOf, cur, result>>

\* A started call returns.  An error leaves the controller and the table
\* as they are; success of a data command stops the controller with the
\* line reset and frees the table.
Complete ==
  /\ phase = "Run"
  /\ \/ /\ result' = "error"
        /\ UNCHANGED <<running, tables>>
     \/ /\ result' = "ok"
        /\ IF kindOf[cur].data
             THEN running' = {} /\ tables' = tables \ {cur}
             ELSE UNCHANGED <<running, tables>>
  /\ phase' = "Idle"
  /\ UNCHANGED <<kindOf, cur>>

\* The controller finishes, fails or is stopped.
Stop ==
  /\ running /= {}
  /\ running' = {}
  /\ UNCHANGED <<kindOf, phase, cur, result, tables>>

CallerStep == GiveUp \/ Start \/ Complete

Next == Call \/ CallerStep \/ Stop

SafetySpec == Init /\ [][Next]_avars

Spec == SafetySpec /\ WF_avars(CallerStep)

\* The promise: a data command the controller executes owns its table.
TableOwned == \A i \in running : kindOf[i].data => i \in tables

=============================================================================
