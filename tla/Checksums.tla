----------------------------- MODULE Checksums ------------------------------
(***************************************************************************)
(* The two checksums of the tree, computed byte by byte: the CRC32 of      *)
(* Ethernet frames from a table (driver/drv_gmac_crc.c) and the CRC16 of   *)
(* YMODEM packets without one (libs/ymodem.c).  A word is the set of the   *)
(* positions of its bits that are 1, so that exclusive or is the symmetric *)
(* difference.                                                             *)
(***************************************************************************)
EXTENDS Naturals, Sequences, SequencesExt

CONSTANTS
    MaxLength,  \* bound: bytes of a message
    Later       \* the bytes after the first, which is any

Byte == SUBSET (0 .. 7)

ChecksumConstants == MaxLength \in Nat /\ Later \subseteq Byte

Xor(a, b) == (a \ b) \cup (b \ a)
Shl(w, n, width) == {i + n : i \in w} \cap 0 .. width - 1
Shr(w, n) == {i - n : i \in {j \in w : j >= n}}

VARIABLES
    msg,        \* the bytes so far
    value,      \* CRC_Calc: value
    ui16Crc     \* YmodemCrc16: ui16Crc

vars == <<msg, value, ui16Crc>>

-----------------------------------------------------------------------------
(* drv_gmac_crc.c                                                           *)

\* 0x04c11db7.
Polynomial == {26, 23, 22, 16, 12, 11, 10, 8, 7, 5, 4, 2, 1, 0}

Reflect(w, len) == {len - i - 1 : i \in w \cap 0 .. len - 1}

\* One of the eight rounds for an entry of the table.
Shifted(t) == Xor(Shl(t, 1, 32), IF 31 \in t THEN Polynomial ELSE {})

\* CRC_CreateTable.
Entry(i) ==
    LET first == Shl(Reflect(i, 8), 24, 32)
        last == FoldLeft(LAMBDA t, j : Shifted(t), first, [j \in 1 .. 8 |-> j])
    IN  Reflect(last, 32)

crc_table == [i \in Byte |-> Entry(i)]

\* Faulty Crc32Step: the byte of the table is taken from the wrong end.
Crc32StepHigh(v, b) ==
    Xor(crc_table[Xor(Shr(v, 24), b)], Shr(v, 8))

\* The body of the loop of CRC_Calc.
Crc32Step(v, b) ==
    Xor(crc_table[Xor(v, b) \cap 0 .. 7], Shr(v, 8))

-----------------------------------------------------------------------------
(* ymodem.c                                                                 *)

\* Faulty Crc16Step: ui16Dummy is not folded.
Crc16StepUnfolded(c, b) ==
    LET dummy == Xor(Shr(c, 8), b)
    IN  Xor(Xor(Shl(c, 8, 16), Shl(dummy, 12, 16)),
            Xor(Shl(dummy, 5, 16), dummy))

\* The body of the loop of YmodemCrc16.
Crc16Step(c, b) ==
    LET first == Xor(Shr(c, 8), b)
        dummy == Xor(first, Shr(first, 4))
    IN  Xor(Xor(Shl(c, 8, 16), Shl(dummy, 12, 16)),
            Xor(Shl(dummy, 5, 16), dummy))

-----------------------------------------------------------------------------

Init == msg = <<>> /\ value = 0 .. 31 /\ ui16Crc = {}

Take(b) ==
    /\ Len(msg) < MaxLength
    /\ msg' = Append(msg, b)
    /\ value' = Crc32Step(value, b)
    /\ ui16Crc' = Crc16Step(ui16Crc, b)

Done == Len(msg) = MaxLength /\ UNCHANGED vars

Next == (\E b \in IF msg = <<>> THEN Byte ELSE Later : Take(b)) \/ Done

Spec == Init /\ [][Next]_vars

-----------------------------------------------------------------------------
(* The reference: division of polynomials over the field of two elements,   *)
(* given as the sets of their exponents.                                    *)

Times(p, e) == {i + e : i \in p}

\* The remainder of p, of degree less than d + n, by g of degree d.
Remainder(p, g, d, n) ==
    FoldLeft(LAMBDA r, k : IF d + n - k \in r THEN Xor(r, Times(g, n - k)) ELSE r,
             p, [k \in 1 .. n |-> k])

\* The message as a polynomial, its bytes with the given order of bits.
Message(m, Order(_)) ==
    UNION {{8 * (Len(m) - k) + Order(j) : j \in m[k]} : k \in 1 .. Len(m)}

\* IEEE 802.3: least significant bit first, the first 32 bits complemented,
\* and the remainder complemented.
EthernetChecksum(m) ==
    LET n == 8 * Len(m)
        p == Xor(Times(Message(m, LAMBDA j : 7 - j), 32), Times(0 .. 31, n))
    IN  (0 .. 31) \ Reflect(Remainder(p, Polynomial \cup {32}, 32, n), 32)

\* CRC-CCITT: most significant bit first, nothing complemented.
CcittRemainder(m) ==
    LET n == 8 * Len(m)
    IN  Remainder(Times(Message(m, LAMBDA j : j), 16), {16, 12, 5, 0}, 16, n)

-----------------------------------------------------------------------------
(* Properties.                                                              *)

\* What CRC_Calc returns is the complement of the checksum of IEEE 802.3 that
\* its comment names: its table, its reflections and its shifts amount to the
\* division of the frame by the Ethernet polynomial, but the last step of the
\* standard is missing (and drv_gmac.c:476 takes the value as it is).  The
\* shifts of YmodemCrc16 by 4, 5, 8 and 12 amount to the division of the
\* packet by x^16 + x^12 + x^5 + 1, which is what XMODEM and YMODEM send.
ChecksumsAreRemainders ==
    /\ value = (0 .. 31) \ EthernetChecksum(msg)
    /\ ui16Crc = CcittRemainder(msg)
=============================================================================
