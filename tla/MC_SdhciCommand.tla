-------------------------- MODULE MC_SdhciCommand --------------------------
(* Model-checking instance of SdhciCommand: three calls, two polls per     *)
(* loop, and four command shapes that cover every branch of               *)
(* sdhci_send_command and sdhci_cmd_complete.                              *)
EXTENDS SdhciCommand

\* A command with a 48-bit response and no data (e.g. CMD13).
KPlain == [data |-> FALSE, read |-> FALSE, switch |-> FALSE, resp |-> "R1"]
\* A block read through ADMA (CMD17/CMD18).
KRead == [data |-> TRUE, read |-> TRUE, switch |-> FALSE, resp |-> "R1"]
\* CMD6 SWITCH with an R1B busy response and no data.
KSwitch == [data |-> FALSE, read |-> FALSE, switch |-> TRUE, resp |-> "R1B"]
\* A response type the switch of sdhci_send_command rejects.
KBad == [data |-> FALSE, read |-> FALSE, switch |-> FALSE, resp |-> "BAD"]

MCKinds == {KPlain, KRead, KSwitch, KBad}
MCErrBits == {"crc", "vendor"}
MCClassified == {"crc"}
=============================================================================
