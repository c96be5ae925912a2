---------------------------- MODULE DataPathProofs ----------------------------
(***************************************************************************)
(* Proofs about the data path of a command, for every block size,          *)
(* descriptor line size and register width the assumptions allow: the     *)
(* descriptor table of sdhci_prep_desc_table chains through the buffer and *)
(* covers it exactly, END marks its last entry only, the registers of      *)
(* sdhci_adma_transfer make the controller move as many bytes as the table *)
(* describes, and the R2 copy of sdhci_cmd_complete shifts the response up *)
(* by one byte.                                                            *)
(***************************************************************************)
EXTENDS DataPathCheck, TLAPS

-----------------------------------------------------------------------------
(* The descriptor table.                                                    *)

\* The number of entries sdhci_prep_desc_table writes for len bytes.
NEntries(len) ==
  IF len <= DescLineSz THEN 1
  ELSE len \div DescLineSz + (IF len % DescLineSz /= 0 THEN 1 ELSE 0)

\* A length of 1 to DescLineSz bytes, written to the 16-bit field, is read
\* back by the ADMA2 engine unchanged (a full 65536-byte line as 0).
LEMMA EntryLen ==
  ASSUME NEW x \in 1..DescLineSz
  PROVE  HwLen(Field(x, LenBits)) = x
BY AdmaAssumption DEF HwLen, Field

\* The table of a buffer of len > 0 bytes: NEntries(len) >= 1 entries,
\* entry i at offset (i - 1) lines; every entry but the last a full line
\* marked VALID | DATA, the last what remains of len, 1 to DescLineSz
\* bytes, marked VALID | DATA | END.
Shape(tbl, k, sz) ==
  /\ k \in Nat \ {0}
  /\ tbl = [j \in 1..k |-> tbl[j]]
  /\ \A j \in 1..k : tbl[j].addr = (j - 1) * DescLineSz
  /\ \A j \in 1..(k - 1) :
       HwLen(tbl[j].len) = DescLineSz /\ tbl[j].att = {"VALID", "DATA"}
  /\ HwLen(tbl[k].len) = sz - (k - 1) * DescLineSz
  /\ tbl[k].att = {"VALID", "DATA", "END"}

LEMMA TableShape ==
  ASSUME NEW len \in Nat \ {0}
  PROVE  Shape(PrepDescTable(len), NEntries(len), len)
<1> DEFINE L == DescLineSz
<1>1. L \in Nat \ {0}
  BY AdmaAssumption
<1>2. CASE len <= L
  <2>1. NEntries(len) = 1
    BY <1>1, <1>2 DEF NEntries
  <2>2. PrepDescTable(len) = << Entry(0, len, {"VALID", "DATA", "END"}) >>
    BY <1>1, <1>2 DEF PrepDescTable
  <2>3. HwLen(Entry(0, len, {"VALID", "DATA", "END"}).len) = len
    BY <1>1, <1>2, EntryLen DEF Entry
  <2>4. << Entry(0, len, {"VALID", "DATA", "END"}) >>[1].addr = (1 - 1) * L
    BY <1>1 DEF Entry
  <2>5. HwLen(<< Entry(0, len, {"VALID", "DATA", "END"}) >>[1].len) = len - (1 - 1) * L
    BY <1>1, <2>3
  <2>6. << Entry(0, len, {"VALID", "DATA", "END"}) >> =
          [i \in 1..1 |-> << Entry(0, len, {"VALID", "DATA", "END"}) >>[i]]
    OBVIOUS
  <2>. QED  BY <2>1, <2>2, <2>4, <2>5, <2>6 DEF Entry, Shape
<1>3. CASE len > L
  <2> DEFINE n == len \div L + (IF len % L /= 0 THEN 1 ELSE 0)
             last == Entry((n - 1) * L, len - (n - 1) * L, {"VALID", "DATA", "END"})
             full(i) == Entry((i - 1) * L, L, {"VALID", "DATA"})
             t == [i \in 1..n |-> IF i < n THEN full(i) ELSE last]
  <2>1. NEntries(len) = n
    BY <1>1, <1>3 DEF NEntries
  <2>2. n \in Nat /\ n >= 2
    BY <1>1, <1>3
  <2>3. len - (n - 1) * L \in 1..L
    <3>1. len = (len \div L) * L + (len % L) /\ len % L \in 0..(L - 1)
      BY <1>1
    <3>2. CASE len % L = 0
      <4>1. n - 1 = len \div L - 1
        BY <3>2, <1>1
      <4>2. (len \div L - 1) * L = (len \div L) * L - L
        BY <1>1
      <4>. QED  BY <3>1, <3>2, <4>1, <4>2, <1>1
    <3>3. CASE len % L /= 0
      <4>1. n - 1 = len \div L
        BY <3>3, <1>1
      <4>. QED  BY <3>1, <3>3, <4>1, <1>1
    <3>. QED  BY <3>2, <3>3
  <2>4. PrepDescTable(len) = t
    BY <1>1, <1>3 DEF PrepDescTable
  <2>5. HwLen(Field(L, LenBits)) = L
    BY <1>1, EntryLen
  <2>6. HwLen(Field(len - (n - 1) * L, LenBits)) = len - (n - 1) * L
    BY <2>3, EntryLen
  <2>7. \A i \in 1..n : t[i].addr = (i - 1) * L
    BY <2>2 DEF Entry
  <2>8. \A i \in 1..(n - 1) : HwLen(t[i].len) = L /\ t[i].att = {"VALID", "DATA"}
    BY <2>2, <2>5 DEF Entry
  <2>9. HwLen(t[n].len) = len - (n - 1) * L /\ t[n].att = {"VALID", "DATA", "END"}
    BY <2>2, <2>6 DEF Entry
  <2>10. t = [i \in 1..n |-> t[i]]
    OBVIOUS
  <2>. HIDE DEF n, t
  <2>11. Shape(t, n, len)
    <3>1. n \in Nat \ {0}
      BY <2>2
    <3>2. \A j \in 1..n : t[j].addr = (j - 1) * DescLineSz
      BY <2>7
    <3>3. \A j \in 1..(n - 1) :
            HwLen(t[j].len) = DescLineSz /\ t[j].att = {"VALID", "DATA"}
      BY <2>8
    <3>4. HwLen(t[n].len) = len - (n - 1) * DescLineSz
      BY <2>9
    <3>. QED  BY <3>1, <3>2, <3>3, <3>4, <2>9, <2>10, Zenon DEF Shape
  <2>. QED  BY <2>1, <2>4, <2>11
<1>. QED  BY <1>1, <1>2, <1>3

\* A function on 1..k is a sequence of length k.
LEMMA LenOfTable ==
  ASSUME NEW k \in Nat, NEW f, f = [j \in 1..k |-> f[j]]
  PROVE  Len(f) = k
<1>1. f \in Seq({f[j] : j \in 1..k})
  OBVIOUS
<1>. QED  BY <1>1

\* The walk of the ADMA2 engine over the table of nb blocks: it starts at
\* the buffer, each entry continues where the previous one ends, and the
\* last ends after nb * BlkSz bytes.
LEMMA TableChain ==
  ASSUME NEW x \in Nat \ {0}
  PROVE  /\ TableFor(x)[1].addr = 0
         /\ \A i \in 2..Len(TableFor(x)) :
              TableFor(x)[i].addr = TableFor(x)[i - 1].addr + HwLen(TableFor(x)[i - 1].len)
         /\ ChainBytes(TableFor(x)) = x * BlkSz
         /\ \A i \in 1..Len(TableFor(x)) :
              /\ {"VALID", "DATA"} \subseteq TableFor(x)[i].att
              /\ ("END" \in TableFor(x)[i].att <=> i = Len(TableFor(x)))
<1> DEFINE len == x * BlkSz
           t == PrepDescTable(len)
           n == NEntries(len)
           L == DescLineSz
<1>1. len \in Nat \ {0} /\ L \in Nat \ {0}
  BY AdmaAssumption
<1>2. Shape(t, n, len)
  BY <1>1, TableShape
<1>3. TableFor(x) = t
  BY DEF TableFor
<1>4. Len(t) = n
  BY <1>2, LenOfTable DEF Shape
<1>. HIDE DEF t, n
<1>5. t[1].addr = 0
  BY <1>1, <1>2 DEF Shape
<1>6. \A i \in 2..n : t[i].addr = t[i - 1].addr + HwLen(t[i - 1].len)
  <2> SUFFICES ASSUME NEW i \in 2..n
               PROVE  t[i].addr = t[i - 1].addr + HwLen(t[i - 1].len)
    OBVIOUS
  <2>1. t[i].addr = (i - 1) * L /\ t[i - 1].addr = (i - 2) * L
    BY <1>2 DEF Shape
  <2>2. HwLen(t[i - 1].len) = L
    <3>1. i - 1 \in 1..(n - 1)
      BY <1>2 DEF Shape
    <3>. QED  BY <3>1, <1>2 DEF Shape, L
  <2>3. (i - 1) * L = (i - 2) * L + L
    BY <1>1
  <2>. QED  BY <2>1, <2>2, <2>3
<1>7. t[n].addr + HwLen(t[n].len) = len
  <2>1. t[n].addr = (n - 1) * L /\ HwLen(t[n].len) = len - (n - 1) * L
    BY <1>2 DEF Shape
  <2>. QED  BY <2>1, <1>1, <1>2 DEF Shape
<1>8. \A i \in 1..n : /\ {"VALID", "DATA"} \subseteq t[i].att
                      /\ ("END" \in t[i].att <=> i = n)
  <2> SUFFICES ASSUME NEW i \in 1..n
               PROVE  /\ {"VALID", "DATA"} \subseteq t[i].att
                      /\ ("END" \in t[i].att <=> i = n)
    OBVIOUS
  <2>1. CASE i = n
    BY <2>1, <1>2 DEF Shape
  <2>2. CASE i /= n
    <3>1. i \in 1..(n - 1)
      BY <2>2, <1>2 DEF Shape
    <3>2. t[i].att = {"VALID", "DATA"}
      BY <3>1, <1>2 DEF Shape
    <3>. QED  BY <3>2, <2>2
  <2>. QED  BY <2>1, <2>2
<1>. QED  BY <1>3, <1>4, <1>5, <1>6, <1>7, <1>8 DEF ChainBytes

\* For a block count the 16-bit register holds, the controller moves
\* exactly num_blocks blocks: one for a single-block transfer, the count
\* for a multi-block one (SDHCI_BLK_CNT_EN is set with it).
LEMMA TransferBlocks ==
  ASSUME NEW x \in 1..(2 ^ CntBits - 1), NEW r \in BOOLEAN
  PROVE  BlocksMoved(AdmaTransfer(x, r)) = x
<1>1. CASE x = 1
  <2>1. "MULTI" \notin AdmaTransfer(x, r).mode
    BY <1>1 DEF AdmaTransfer
  <2>. QED  BY <1>1, <2>1 DEF BlocksMoved
<1>2. CASE x > 1
  <2>1. "MULTI" \in AdmaTransfer(x, r).mode /\ "BLKCNT" \in AdmaTransfer(x, r).mode
    BY <1>2 DEF AdmaTransfer
  <2>2. AdmaTransfer(x, r).blkCnt = x
    BY AdmaAssumption DEF AdmaTransfer, Field
  <2>. QED  BY <2>1, <2>2 DEF BlocksMoved
<1>. QED  BY <1>1, <1>2

-----------------------------------------------------------------------------
(* The R2 response copy.                                                    *)

\* OR with a zero byte leaves a byte as it is.
LEMMA ByteOrZero ==
  ASSUME NEW x \in Bytes
  PROVE  ByteOr(x, 0) = x /\ ByteOr(0, x) = x
<1>1. /\ BitOf(0, 0) = 0 /\ BitOf(0, 1) = 0 /\ BitOf(0, 2) = 0 /\ BitOf(0, 3) = 0
      /\ BitOf(0, 4) = 0 /\ BitOf(0, 5) = 0 /\ BitOf(0, 6) = 0 /\ BitOf(0, 7) = 0
  BY DEF BitOf
<1>2. x = BitOf(x, 0) + 2 * BitOf(x, 1) + 4 * BitOf(x, 2) + 8 * BitOf(x, 3)
          + 16 * BitOf(x, 4) + 32 * BitOf(x, 5) + 64 * BitOf(x, 6)
          + 128 * BitOf(x, 7)
  BY DEF BitOf, Bytes
<1>3. \A k \in 0..7 : BitOf(x, k) \in {0, 1}
  BY DEF BitOf, Bytes
<1>. QED  BY <1>1, <1>2, <1>3 DEF ByteOr

\* The words of the R2 copy: cmd->resp[0] is RESP0 shifted up a byte,
\* cmd->resp[i] is RESP[i] shifted up a byte with the top byte of
\* RESP[i - 1] below it.
LEMMA R2Words ==
  ASSUME NEW r \in RespRegs
  PROVE  /\ R2Resp(r)[0] = << 0, r[0][1], r[0][2], r[0][3] >>
         /\ \A i \in 1..3 :
              R2Resp(r)[i] = << r[i - 1][4], r[i][1], r[i][2], r[i][3] >>
<1>1. R2Resp(r)[0] = << 0, r[0][1], r[0][2], r[0][3] >>
  BY DEF R2Resp, Shl8
<1>2. ASSUME NEW i \in 1..3
      PROVE  R2Resp(r)[i] = << r[i - 1][4], r[i][1], r[i][2], r[i][3] >>
  <2>1. R2Resp(r)[i] = WordOr(Shl8(r[i]), Shr24(r[i - 1]))
    BY DEF R2Resp
  <2>2. r[i] \in Word /\ r[i - 1] \in Word
    BY DEF RespRegs
  <2>3. /\ ByteOr(0, r[i - 1][4]) = r[i - 1][4]
        /\ \A k \in 1..3 : ByteOr(r[i][k], 0) = r[i][k]
    BY <2>2, ByteOrZero DEF Word
  <2>4. WordOr(Shl8(r[i]), Shr24(r[i - 1]))
          = [k \in 1..4 |-> ByteOr(Shl8(r[i])[k], Shr24(r[i - 1])[k])]
    BY DEF WordOr
  <2>. QED  BY <2>1, <2>3, <2>4 DEF Shl8, Shr24
<1>. QED  BY <1>1, <1>2

\* Two sequences of the same length and the same elements are equal.
LEMMA SeqExt ==
  ASSUME NEW S, NEW s \in Seq(S), NEW t \in Seq(S),
         Len(s) = Len(t), \A i \in 1..Len(s) : s[i] = t[i]
  PROVE  s = t
OBVIOUS

\* A register value is a sequence of four bytes.
LEMMA WordSeq ==
  ASSUME NEW w \in Word
  PROVE  w \in Seq(Bytes) /\ Len(w) = 4
<1>1. w \in [1..4 -> Bytes]
  BY DEF Word
<1>2. w = [j \in 1..4 |-> w[j]]
  BY <1>1
<1>3. w \in Seq(Bytes)
  BY <1>1, <1>2
<1>. QED  BY <1>1, <1>3

\* Length and elements of a concatenation.
LEMMA ConcatAt ==
  ASSUME NEW S, NEW s \in Seq(S), NEW t \in Seq(S)
  PROVE  /\ s \o t \in Seq(S) /\ Len(s \o t) = Len(s) + Len(t)
         /\ \A i \in 1..Len(s) : (s \o t)[i] = s[i]
         /\ \A i \in (Len(s) + 1)..(Len(s) + Len(t)) : (s \o t)[i] = t[i - Len(s)]
OBVIOUS

\* The first n elements of a sequence.
LEMMA PrefixAt ==
  ASSUME NEW S, NEW s \in Seq(S), NEW n \in 0..Len(s)
  PROVE  /\ SubSeq(s, 1, n) \in Seq(S) /\ Len(SubSeq(s, 1, n)) = n
         /\ \A i \in 1..n : SubSeq(s, 1, n)[i] = s[i]
OBVIOUS

\* Where byte i of four words laid end to end sits.
At(x, i) == x[(i - 1) \div 4][((i - 1) % 4) + 1]

\* Appending word m to the first m words laid end to end continues the
\* layout.
LEMMA AppendWord ==
  ASSUME NEW x \in [0..3 -> Word], NEW m \in 1..3, NEW s \in Seq(Bytes),
         Len(s) = 4 * m, \A i \in 1..Len(s) : s[i] = At(x, i)
  PROVE  /\ s \o x[m] \in Seq(Bytes) /\ Len(s \o x[m]) = Len(s) + 4
         /\ \A i \in 1..Len(s \o x[m]) : (s \o x[m])[i] = At(x, i)
<1>1. x[m] \in Seq(Bytes) /\ Len(x[m]) = 4
  BY WordSeq
<1>2. /\ s \o x[m] \in Seq(Bytes) /\ Len(s \o x[m]) = Len(s) + Len(x[m])
      /\ \A i \in 1..Len(s) : (s \o x[m])[i] = s[i]
      /\ \A i \in (Len(s) + 1)..(Len(s) + Len(x[m])) : (s \o x[m])[i] = x[m][i - Len(s)]
  BY <1>1, ConcatAt, Zenon
<1>3. ASSUME NEW i \in (4 * m + 1)..(4 * m + 4)
      PROVE  x[m][i - 4 * m] = At(x, i)
  <2>1. (i - 1) \div 4 = m /\ ((i - 1) % 4) + 1 = i - 4 * m
    OBVIOUS
  <2>. QED  BY <2>1 DEF At
<1>. QED  BY <1>1, <1>2, <1>3

\* Byte i of four words laid end to end, least significant byte first.
LEMMA FlatAt ==
  ASSUME NEW x \in [0..3 -> Word]
  PROVE  /\ Flat(x) \in Seq(Bytes) /\ Len(Flat(x)) = 16
         /\ \A i \in 1..16 : Flat(x)[i] = At(x, i)
<1> DEFINE s1 == x[0] \o x[1]
           s2 == s1 \o x[2]
           s3 == s2 \o x[3]
<1>1. x[0] \in Seq(Bytes) /\ Len(x[0]) = 4 * 1
      /\ \A i \in 1..Len(x[0]) : x[0][i] = At(x, i)
  <2>1. x[0] \in Seq(Bytes) /\ Len(x[0]) = 4
    BY WordSeq
  <2>. QED  BY <2>1 DEF At
<1>2. s1 \in Seq(Bytes) /\ Len(s1) = Len(x[0]) + 4 /\ \A i \in 1..Len(s1) : s1[i] = At(x, i)
  <2>1. 1 \in 1..3
    OBVIOUS
  <2>. QED  BY <1>1, <2>1, AppendWord, Zenon
<1>3. Len(s1) = 4 * 2
  BY <1>1, <1>2
<1>4. s2 \in Seq(Bytes) /\ Len(s2) = Len(s1) + 4 /\ \A i \in 1..Len(s2) : s2[i] = At(x, i)
  <2>1. 2 \in 1..3
    OBVIOUS
  <2>. QED  BY <1>2, <1>3, <2>1, AppendWord, Zenon
<1>5. Len(s2) = 4 * 3
  BY <1>3, <1>4
<1>6. s3 \in Seq(Bytes) /\ Len(s3) = Len(s2) + 4 /\ \A i \in 1..Len(s3) : s3[i] = At(x, i)
  <2>1. 3 \in 1..3
    OBVIOUS
  <2>. QED  BY <1>4, <1>5, <2>1, AppendWord, Zenon
<1>7. Len(s3) = 16
  BY <1>5, <1>6
<1>. QED  BY <1>6, <1>7 DEF Flat

\* sdhci_cmd_complete moves the 120 response bits the controller stores
\* up by one byte: byte k of RESP0..RESP3 is byte k + 1 of cmd->resp,
\* and byte 0 of cmd->resp is zero.
LEMMA R2Shift ==
  ASSUME NEW r \in RespRegs
  PROVE  Flat(R2Resp(r)) = << 0 >> \o SubSeq(Flat(r), 1, 15)
<1>1. R2Resp(r) \in [0..3 -> Word]
  <2>1. \A i \in 0..3 : r[i] \in Word
    BY DEF RespRegs
  <2>. QED  BY <2>1, R2Words DEF Word, Bytes, R2Resp
<1>2. r \in [0..3 -> Word]
  BY DEF RespRegs
<1> DEFINE lhs == Flat(R2Resp(r))
           rhs == << 0 >> \o SubSeq(Flat(r), 1, 15)
<1>3. lhs \in Seq(Bytes) /\ Len(lhs) = 16
      /\ \A i \in 1..16 : lhs[i] = At(R2Resp(r), i)
  BY <1>1, FlatAt
<1>4. rhs \in Seq(Bytes) /\ Len(rhs) = 16 /\ rhs[1] = 0
      /\ \A i \in 2..16 : rhs[i] = At(r, i - 1)
  <2>1. Flat(r) \in Seq(Bytes) /\ Len(Flat(r)) = 16
        /\ \A i \in 1..16 : Flat(r)[i] = At(r, i)
    BY <1>2, FlatAt
  <2>2. SubSeq(Flat(r), 1, 15) \in Seq(Bytes) /\ Len(SubSeq(Flat(r), 1, 15)) = 15
        /\ \A i \in 1..15 : SubSeq(Flat(r), 1, 15)[i] = Flat(r)[i]
    <3>1. Flat(r) \in Seq(Bytes) /\ 15 \in 0..Len(Flat(r))
      BY <2>1
    <3>. QED  BY <3>1, PrefixAt, Zenon
  <2>3. << 0 >> \in Seq(Bytes) /\ Len(<< 0 >>) = 1 /\ << 0 >>[1] = 0
    BY DEF Bytes
  <2>4. /\ rhs \in Seq(Bytes)
        /\ Len(rhs) = Len(<< 0 >>) + Len(SubSeq(Flat(r), 1, 15))
        /\ \A i \in 1..Len(<< 0 >>) : rhs[i] = << 0 >>[i]
        /\ \A i \in (Len(<< 0 >>) + 1)..(Len(<< 0 >>) + Len(SubSeq(Flat(r), 1, 15))) :
             rhs[i] = SubSeq(Flat(r), 1, 15)[i - Len(<< 0 >>)]
    <3>1. << 0 >> \in Seq(Bytes) /\ SubSeq(Flat(r), 1, 15) \in Seq(Bytes)
      BY <2>2, <2>3
    <3>. QED  BY <3>1, ConcatAt, Zenon
  <2>. QED  BY <2>1, <2>2, <2>3, <2>4
<1>5. \A i \in 1..16 : lhs[i] = rhs[i]
  <2> SUFFICES ASSUME NEW i \in 1..16 PROVE lhs[i] = rhs[i]
    OBVIOUS
  <2>1. R2Resp(r)[0] = << 0, r[0][1], r[0][2], r[0][3] >>
        /\ \A w \in 1..3 :
             R2Resp(r)[w] = << r[w - 1][4], r[w][1], r[w][2], r[w][3] >>
    BY R2Words
  <2>2. lhs[i] = R2Resp(r)[(i - 1) \div 4][((i - 1) % 4) + 1]
    BY <1>3 DEF At
  <2>3. CASE i = 1
    BY <2>1, <2>2, <2>3, <1>4
  <2>4. CASE i > 1 /\ (i - 1) % 4 = 0
    <3>1. (i - 1) \div 4 \in 1..3 /\ ((i - 1) % 4) + 1 = 1
      BY <2>4
    <3>2. lhs[i] = r[(i - 1) \div 4 - 1][4]
      BY <2>1, <2>2, <3>1
    <3>3. rhs[i] = r[(i - 2) \div 4][((i - 2) % 4) + 1]
      BY <2>4, <1>4 DEF At
    <3>4. (i - 2) \div 4 = (i - 1) \div 4 - 1 /\ ((i - 2) % 4) + 1 = 4
      BY <2>4
    <3>. QED  BY <3>2, <3>3, <3>4
  <2>5. CASE (i - 1) % 4 /= 0
    <3>1. (i - 1) \div 4 \in 0..3 /\ ((i - 1) % 4) + 1 \in 2..4 /\ i > 1
      BY <2>5
    <3>2. lhs[i] = r[(i - 1) \div 4][(i - 1) % 4]
      BY <2>1, <2>2, <3>1
    <3>3. rhs[i] = r[(i - 2) \div 4][((i - 2) % 4) + 1]
      BY <3>1, <1>4 DEF At
    <3>4. (i - 2) \div 4 = (i - 1) \div 4 /\ ((i - 2) % 4) + 1 = (i - 1) % 4
      BY <2>5
    <3>. QED  BY <3>2, <3>3, <3>4
  <2>. QED  BY <2>3, <2>4, <2>5
<1>. QED  BY <1>3, <1>4, <1>5, SeqExt

-----------------------------------------------------------------------------
(* The properties of the data_path run.                                     *)

\* Each state is one data command and one response: the inputs the
\* harness draws.
Inputs == nb \in Blocks /\ read \in BOOLEAN /\ regs \in RespSamples

LEMMA InputsInvariant == Spec => []Inputs
<1>1. Init => Inputs
  BY DEF Init, Inputs
<1>2. Inputs /\ [Next]_vars => Inputs'
  BY DEF Inputs, Next, vars
<1>. QED  BY <1>1, <1>2, PTL DEF Spec

\* Data commands of at least one block, few enough for the 16-bit block
\* count register: a zero count is read as a 64 KiB descriptor, and
\* 65536 blocks wrap the count to 0, and TLC shows both break the chain.
BlocksFit == Blocks \subseteq 1..(2 ^ CntBits - 1)

LEMMA InputBlocks ==
  ASSUME BlocksFit, Inputs
  PROVE  nb \in 1..(2 ^ CntBits - 1) /\ nb \in Nat \ {0}
BY AdmaAssumption DEF BlocksFit, Inputs

\* The table of sdhci_prep_desc_table for any number of blocks the
\* block-count register holds chains through the buffer and covers
\* exactly num_blocks * block size bytes (data_path run).
THEOREM ChainCovers ==
  ASSUME BlocksFit
  PROVE  Spec => []ChainCoversBuffer
<1>1. Inputs => ChainCoversBuffer
  BY InputBlocks, TableChain DEF ChainCoversBuffer
<1>. QED  BY <1>1, InputsInvariant, PTL

\* Every entry of the table is VALID and DATA, and END is set on the last
\* entry only (data_path run).
THEOREM EndMarksLast ==
  ASSUME BlocksFit
  PROVE  Spec => []EndOnlyLast
<1>1. Inputs => EndOnlyLast
  BY InputBlocks, TableChain DEF EndOnlyLast
<1>. QED  BY <1>1, InputsInvariant, PTL

\* The block size, block count and transfer mode sdhci_adma_transfer
\* writes make the controller move as many bytes as the descriptor table
\* describes (data_path run).
THEOREM BlocksAgree ==
  ASSUME BlocksFit
  PROVE  Spec => []BlocksMatchChain
<1>1. Inputs => BlocksMatchChain
  <2> SUFFICES ASSUME Inputs PROVE BlocksMatchChain
    OBVIOUS
  <2>1. BlocksMoved(AdmaTransfer(nb, read)) = nb
    BY InputBlocks, TransferBlocks DEF Inputs
  <2>2. ChainBytes(TableFor(nb)) = nb * BlkSz
    BY InputBlocks, TableChain
  <2>. QED  BY <2>1, <2>2 DEF BlocksMatchChain
<1>. QED  BY <1>1, InputsInvariant, PTL

\* The register contents the run tries are register contents.
LEMMA SamplesAreRegs == RespSamples \subseteq RespRegs
<1>1. Counting \in RespRegs
  BY DEF Counting, RespRegs, Word, Bytes
<1>2. AllOnes \in RespRegs
  BY DEF AllOnes, RespRegs, Word, Bytes
<1>3. Alternating \in RespRegs
  BY DEF Alternating, RespRegs, Word, Bytes
<1>4. \A j \in 0..3, m \in 1..4 : OneByte(j, m) \in RespRegs
  BY DEF OneByte, RespRegs, Word, Bytes
<1>. QED  BY <1>1, <1>2, <1>3, <1>4 DEF RespSamples

\* The copy of the R2 response in sdhci_cmd_complete, the carry of each
\* register's top byte into the next word included, shifts the 120 bits the
\* controller stores up by one byte, under an empty CRC byte (data_path
\* run); for every register content, not only the ones the run tries.
THEOREM R2Correct == Spec => []R2Aligned
<1>1. Inputs => R2Aligned
  BY SamplesAreRegs, R2Shift DEF Inputs, R2Aligned
<1>. QED  BY <1>1, InputsInvariant, PTL

=============================================================================
