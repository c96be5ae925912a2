---------------------------- MODULE DataPathCheck ----------------------------
(***************************************************************************)
(* The pure operators of a command's data path, checked over their inputs: *)
(* the ADMA set-up of sdhci_send_command over block counts, and the R2     *)
(* response copy of sdhci_cmd_complete over response register contents.    *)
(* Each state is one pair of inputs: a data command of nb blocks, read or  *)
(* write, and the contents regs of RESP0..RESP3.                           *)
(***************************************************************************)
EXTENDS SdhciAdma, SdhciResponse

CONSTANT Blocks   \* the values of cmd->data.num_blocks tried

\* Response register contents tried: every byte distinct, all ones, each
\* byte alone set, and alternating bit patterns.
Counting == [i \in 0..3 |-> [k \in 1..4 |-> 4 * i + k]]
AllOnes == [i \in 0..3 |-> [k \in 1..4 |-> 255]]
OneByte(j, m) == [i \in 0..3 |-> [k \in 1..4 |-> IF <<i, k>> = <<j, m>> THEN 255 ELSE 0]]
Alternating == [i \in 0..3 |-> [k \in 1..4 |-> IF (i + k) % 2 = 0 THEN 170 ELSE 85]]
RespSamples ==
  {Counting, AllOnes, Alternating} \cup {OneByte(j, m) : j \in 0..3, m \in 1..4}

VARIABLES nb, read, regs

vars == <<nb, read, regs>>

Init == nb \in Blocks /\ read \in BOOLEAN /\ regs \in RespSamples

\* Each command is independent of the others: nothing further happens.
Next == UNCHANGED vars

Spec == Init /\ [][Next]_vars

\* The offset at which the ADMA2 engine stops, walking table t to its last
\* entry: for a table whose entries follow each other from offset 0, the
\* number of bytes it moves.
ChainBytes(t) == t[Len(t)].addr + HwLen(t[Len(t)].len)

\* The table of sdhci_prep_desc_table walks the buffer as the ADMA2 engine
\* reads it: the first entry starts at the buffer, each next one where the
\* previous ends, and together they cover exactly num_blocks * block size
\* bytes (spec 8: "entry lengths sum to exactly L").
ChainCoversBuffer ==
  LET t == TableFor(nb)
  IN  /\ t[1].addr = 0
      /\ \A i \in 2..Len(t) : t[i].addr = t[i - 1].addr + HwLen(t[i - 1].len)
      /\ ChainBytes(t) = nb * BlkSz

\* Every entry is VALID and DATA, and END marks the last entry and only it:
\* the engine neither stops early nor runs past the table.
EndOnlyLast ==
  LET t == TableFor(nb)
  IN  \A i \in 1..Len(t) :
        /\ {"VALID", "DATA"} \subseteq t[i].att
        /\ ("END" \in t[i].att <=> i = Len(t))

\* The block size, block count and transfer mode written by
\* sdhci_adma_transfer make the controller move as many bytes as the
\* descriptor table describes.
BlocksMatchChain ==
  BlocksMoved(AdmaTransfer(nb, read)) * BlkSz = ChainBytes(TableFor(nb))

\* The copy puts the response where the card's register layout has it
\* (the comment above the loop in sdhci_cmd_complete): the controller
\* stores bits 127:8 of the R2 response in bits 119:0 of RESP0..RESP3, and
\* cmd->resp holds them at bits 127:8, with bits 7:0 (the CRC byte the
\* controller does not store) zero.
R2Aligned == Flat(R2Resp(regs)) = <<0>> \o SubSeq(Flat(regs), 1, 15)

\* The spec (4.6, 8): the assembled response keeps R0 "low-aligned", its
\* low byte unmodified.
R2LowByteKept == R2Resp(regs)[0][1] = regs[0][1]

=============================================================================
