-------------------------------- MODULE Crc --------------------------------
(***************************************************************************)
(* The CRC of the link, src/voltronic/crc.cc: CRC-16/XMODEM by nibbles,    *)
(* after which either byte that has a meaning on the link ('(', CR, LF) is *)
(* increased by one.  A register is the set of the positions of its ones,  *)
(* so that exclusive or is the symmetric difference.                       *)
(***************************************************************************)
EXTENDS Integers, Sequences, FiniteSetsExt, SequencesExt

Ones(n) == {i \in 0..15 : (n \div 2^i) % 2 = 1}
Number(bits) == MapThenSumSet(LAMBDA i : 2^i, bits)
Left(bits, n) == {i + n : i \in bits} \cap 0..15

Table == <<\h0000, \h1021, \h2042, \h3063, \h4084, \h50A5, \h60C6, \h70E7,
           \h8108, \h9129, \hA14A, \hB16B, \hC18C, \hD1AD, \hE1CE, \hF1EF>>

\* crc = table[(crc >> 12) ^ nibble] ^ (crc << 4)
Nibble(crc, nibble) ==
    LET index == SymDiff({i - 12 : i \in crc \cap 12..15}, Ones(nibble))
    IN SymDiff(Ones(Table[Number(index) + 1]), Left(crc, 4))

\* Mutant of Byte: the low nibble first.
ByteLowFirst(crc, byte) == Nibble(Nibble(crc, byte % 16), byte \div 16)
Byte(crc, byte) == Nibble(Nibble(crc, byte \div 16), byte % 16)

Reserved == {\h28, \h0D, \h0A}
\* The low byte is looked at first; neither increment carries.
Unreserved(crc) ==
    LET low == IF crc % 256 \in Reserved THEN crc + 1 ELSE crc
    IN (IF low \div 256 \in Reserved THEN low + 256 ELSE low) % 65536

Calculate(bytes) == Unreserved(Number(FoldLeft(Byte, {}, bytes)))

CrcRead(bytes) == 256 * bytes[1] + bytes[2]
CrcWrite(crc) == <<crc \div 256, crc % 256>>

-----------------------------------------------------------------------------
\* The reference: the remainder of the message times x^16 divided by
\* x^16 + x^12 + x^5 + 1, one bit at a time from the highest.
Polynomial == {12, 5, 0}
Bit(crc, one) ==
    IF (15 \in crc) # one THEN SymDiff(Left(crc, 1), Polynomial)
                          ELSE Left(crc, 1)
Remainder(bytes) ==
    FoldLeft(LAMBDA crc, byte :
                FoldLeft(LAMBDA r, i : Bit(r, 8 - i \in Ones(byte)),
                         crc, [i \in 1..8 |-> i]),
             {}, bytes)
=============================================================================
