------------------------------ MODULE SdhciAdma ------------------------------
(***************************************************************************)
(* The data path set-up of a command: sdhci_prep_desc_table, which splits  *)
(* the buffer into an ADMA2 descriptor table, and sdhci_adma_transfer,     *)
(* which programs block size, block count, the auto-CMD23 argument and     *)
(* the transfer mode.  Alongside, what the controller makes of them: the   *)
(* ADMA2 engine reads a 16-bit length field in which 0 stands for 65536,   *)
(* and the block-count register and the transfer-mode flags decide how     *)
(* many blocks are moved.                                                  *)
(***************************************************************************)
EXTENDS Integers, Sequences

CONSTANTS
  BlkSz,      \* SDHCI_MMC_BLK_SZ
  DescLineSz, \* SDHCI_ADMA_DESC_LINE_SZ, the span of one descriptor
  LenBits,    \* width of desc_entry.len (the "Transfer Len (16 bit)")
  CntBits     \* width of SDHCI_BLK_CNT_REG, written with REG_WRITE16

ASSUME AdmaAssumption ==
  /\ BlkSz \in Nat \ {0}
  /\ DescLineSz \in Nat \ {0}
  /\ LenBits \in Nat \ {0} /\ CntBits \in Nat \ {0}
  \* a full descriptor line fits the length field (65536 with 0 for 2^16)
  /\ DescLineSz <= 2 ^ LenBits

\* The value a field of w bits keeps of x.
Field(x, w) == x % (2 ^ w)

\* ADMA2 length semantics: a length field of 0 means 2^LenBits bytes.
HwLen(f) == IF f = 0 THEN 2 ^ LenBits ELSE f

\* A descriptor as written: address offset from the data buffer, length
\* field and the attribute bits of tran_att.
Entry(a, l, att) == [addr |-> a, len |-> Field(l, LenBits), att |-> att]

\* Fault variant: no extra entry for a remainder (if (remain) sg_len++
\* left out).
PrepDescTableNoRemain(len) ==
  IF len <= DescLineSz
    THEN << Entry(0, len, {"VALID", "DATA", "END"}) >>
    ELSE LET n == len \div DescLineSz
         IN  [i \in 1..n |->
                IF i < n THEN Entry((i - 1) * DescLineSz, DescLineSz, {"VALID", "DATA"})
                ELSE Entry((n - 1) * DescLineSz, len - (n - 1) * DescLineSz,
                           {"VALID", "DATA", "END"})]

\* Fault variant: the last entry of a multi-entry table without END.
PrepDescTableNoEnd(len) ==
  IF len <= DescLineSz
    THEN << Entry(0, len, {"VALID", "DATA", "END"}) >>
    ELSE LET n == len \div DescLineSz
                  + (IF len % DescLineSz /= 0 THEN 1 ELSE 0)
         IN  [i \in 1..n |->
                IF i < n THEN Entry((i - 1) * DescLineSz, DescLineSz, {"VALID", "DATA"})
                ELSE Entry((n - 1) * DescLineSz, len - (n - 1) * DescLineSz,
                           {"VALID", "DATA"})]

\* sdhci_prep_desc_table(data, len): one VALID|DATA|END entry for a
\* buffer that fits one descriptor; otherwise sg_len = ceil(len / line)
\* entries, the first sg_len - 1 covering a full line each with data and
\* len advanced per entry, the last covering what is left of len.
PrepDescTable(len) ==
  IF len <= DescLineSz
    THEN << Entry(0, len, {"VALID", "DATA", "END"}) >>
    ELSE LET n == len \div DescLineSz
                  + (IF len % DescLineSz /= 0 THEN 1 ELSE 0)
         IN  [i \in 1..n |->
                IF i < n THEN Entry((i - 1) * DescLineSz, DescLineSz, {"VALID", "DATA"})
                ELSE Entry((n - 1) * DescLineSz, len - (n - 1) * DescLineSz,
                           {"VALID", "DATA", "END"})]

\* Fault variant: SDHCI_BLK_CNT_EN missing from the multi-block flags.
AdmaTransferNoCntEn(nb, read) ==
  [blkSz |-> BlkSz,
   blkCnt |-> Field(nb, CntBits),
   mode |-> (IF nb > 1 THEN {"MULTI", "ACMD23"} ELSE {})
            \cup (IF read THEN {"READ"} ELSE {}) \cup {"DMA"}]

\* The registers sdhci_adma_transfer writes for num_blks blocks: block
\* size, block count (16-bit write), and the transfer mode: multi-block
\* with auto CMD23 and block-count enable when num_blks > 1 (the CMD23
\* argument goes to SDHCI_ARG2_REG), read direction, DMA enable.
AdmaTransfer(nb, read) ==
  [blkSz |-> BlkSz,
   blkCnt |-> Field(nb, CntBits),
   mode |-> (IF nb > 1 THEN {"MULTI", "ACMD23", "BLKCNT"} ELSE {})
            \cup (IF read THEN {"READ"} ELSE {}) \cup {"DMA"}]

\* The table sdhci_adma_transfer builds: sz = num_blks * SDHCI_MMC_BLK_SZ.
\* (sz is a uint32_t; it wraps only beyond 2^23 blocks of 512 bytes, far
\* past the 16-bit block count, and is not modelled.)
TableFor(nb) == PrepDescTable(nb * BlkSz)

-----------------------------------------------------------------------------
(* What the controller does with them.                                     *)

\* The blocks the controller moves: one for a single-block transfer, the
\* block count for a multi-block one with the count enabled, no bound
\* (here: -1) for a multi-block one without.
BlocksMoved(r) ==
  IF "MULTI" \notin r.mode THEN 1
  ELSE IF "BLKCNT" \in r.mode THEN r.blkCnt ELSE -1

=============================================================================
