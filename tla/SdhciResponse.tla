---------------------------- MODULE SdhciResponse ----------------------------
(***************************************************************************)
(* The response copy of sdhci_cmd_complete for a 136-bit (R2) response.    *)
(*                                                                         *)
(* The four response registers RESP0..RESP3 are 32-bit words.  Every shift *)
(* the code applies is a whole number of bytes (SDHCI_RESP_LSHIFT = 8,     *)
(* SDHCI_RESP_RSHIFT = 24), so a word is modelled as its four bytes, least *)
(* significant first: w[1] holds bits 7:0, w[4] bits 31:24.  The shifts    *)
(* move bytes, and the OR is the bitwise OR of the bytes, bit by bit.      *)
(***************************************************************************)
EXTENDS Naturals, Sequences

Bytes == 0..255

\* A 32-bit register value, least significant byte first.
Word == [1..4 -> Bytes]

\* The four response registers, indexed like cmd->resp: 0..3.
RespRegs == [0..3 -> Word]

\* x << SDHCI_RESP_LSHIFT: bits 31:24 fall off the uint32_t.
Shl8(w) == <<0, w[1], w[2], w[3]>>

\* x >> SDHCI_RESP_RSHIFT: bits 31:24 become bits 7:0.
Shr24(w) == <<w[4], 0, 0, 0>>

\* Bit k of x.
BitOf(x, k) == (x \div 2 ^ k) % 2

\* x | y on one byte: bit k is set when it is set in x or in y.
ByteOr(x, y) ==
  LET B(k) == IF BitOf(x, k) = 1 \/ BitOf(y, k) = 1 THEN 2 ^ k ELSE 0
  IN  B(0) + B(1) + B(2) + B(3) + B(4) + B(5) + B(6) + B(7)

\* x | y, byte by byte.
WordOr(a, b) == [k \in 1..4 |-> ByteOr(a[k], b[k])]

\* Fault: the loop without the OR of the previous register's top byte.
R2RespNoCarry(regs) == [i \in 0..3 |-> Shl8(regs[i])]

\* The R2 branch of sdhci_cmd_complete: resp[i] = RESP[i] << 8, then for
\* i != 0, resp[i] |= RESP[i-1] >> 24.
R2Resp(regs) ==
  [i \in 0..3 |-> IF i = 0 THEN Shl8(regs[i])
                           ELSE WordOr(Shl8(regs[i]), Shr24(regs[i - 1]))]

\* The four words as one 128-bit value, least significant byte first.
Flat(r) == r[0] \o r[1] \o r[2] \o r[3]

=============================================================================
