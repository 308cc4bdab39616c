------------------------------- MODULE Crc16 --------------------------------
(***************************************************************************)
(* The two checksums of the Modbus driver: usMBCRC16 of the RTU link layer *)
(* (mbcrc.c) looks bytes up in two tables, modbusCRC of LightModbus        *)
(* (base.impl.h) shifts bit by bit.  Both work on words of 16 bits.        *)
(***************************************************************************)
EXTENDS Integers, Sequences

U16_MAX == 65535
Byte == 0 .. 255
Word == 0 .. U16_MAX

\* Exclusive or of two words.
Xor(u, v) ==
    LET xor[a \in Word] ==
          [b \in Word |-> IF a = 0 THEN b
                          ELSE 2 * xor[a \div 2][b \div 2] + ((a + b) % 2)]
    IN  xor[u][v]

\* What step makes of a start value and the bytes of data, one after the other:
\* run[n][i] takes a word through the n bytes after the first i (in halves, so that
\* the recursion is not as deep as the data is long).
FoldBytes(step, start, data) ==
    LET run[n \in 0 .. Len(data)] ==
          [i \in 0 .. Len(data) - n |-> [word \in Word |->
             IF n = 0 THEN word
             ELSE IF n = 1 THEN step[word][data[i + 1]]
             ELSE run[n - n \div 2][i + n \div 2][run[n \div 2][i][word]]]]
    IN  run[Len(data)][0][start]

\* A bit is shifted out; if it was set 0xA001 is added.
ShiftBit(word) ==
    IF word % 2 = 1 THEN Xor(word \div 2, 40961) ELSE word \div 2

ShiftByte(crc, byte) ==
    LET shift[n \in 0 .. 8] == IF n = 0 THEN Xor(crc, byte) ELSE ShiftBit(shift[n - 1])
    IN  shift[8]

modbusCRC(data) ==
    FoldBytes([crc \in Word |-> [byte \in Byte |-> ShiftByte(crc, byte)]], U16_MAX, data)

aucCRCHi ==
    <<0, 193, 129, 64, 1, 192, 128, 65, 1, 192, 128, 65, 0, 193, 129, 64, 1, 192, 128,
      65, 0, 193, 129, 64, 0, 193, 129, 64, 1, 192, 128, 65, 1, 192, 128, 65, 0, 193,
      129, 64, 0, 193, 129, 64, 1, 192, 128, 65, 0, 193, 129, 64, 1, 192, 128, 65, 1,
      192, 128, 65, 0, 193, 129, 64, 1, 192, 128, 65, 0, 193, 129, 64, 0, 193, 129, 64,
      1, 192, 128, 65, 0, 193, 129, 64, 1, 192, 128, 65, 1, 192, 128, 65, 0, 193, 129,
      64, 0, 193, 129, 64, 1, 192, 128, 65, 1, 192, 128, 65, 0, 193, 129, 64, 1, 192,
      128, 65, 0, 193, 129, 64, 0, 193, 129, 64, 1, 192, 128, 65, 1, 192, 128, 65, 0,
      193, 129, 64, 0, 193, 129, 64, 1, 192, 128, 65, 0, 193, 129, 64, 1, 192, 128, 65,
      1, 192, 128, 65, 0, 193, 129, 64, 0, 193, 129, 64, 1, 192, 128, 65, 1, 192, 128,
      65, 0, 193, 129, 64, 1, 192, 128, 65, 0, 193, 129, 64, 0, 193, 129, 64, 1, 192,
      128, 65, 0, 193, 129, 64, 1, 192, 128, 65, 1, 192, 128, 65, 0, 193, 129, 64, 1,
      192, 128, 65, 0, 193, 129, 64, 0, 193, 129, 64, 1, 192, 128, 65, 1, 192, 128, 65,
      0, 193, 129, 64, 0, 193, 129, 64, 1, 192, 128, 65, 0, 193, 129, 64, 1, 192, 128,
      65, 1, 192, 128, 65, 0, 193, 129, 64>>

aucCRCLo ==
    <<0, 192, 193, 1, 195, 3, 2, 194, 198, 6, 7, 199, 5, 197, 196, 4, 204, 12, 13, 205,
      15, 207, 206, 14, 10, 202, 203, 11, 201, 9, 8, 200, 216, 24, 25, 217, 27, 219,
      218, 26, 30, 222, 223, 31, 221, 29, 28, 220, 20, 212, 213, 21, 215, 23, 22, 214,
      210, 18, 19, 211, 17, 209, 208, 16, 240, 48, 49, 241, 51, 243, 242, 50, 54, 246,
      247, 55, 245, 53, 52, 244, 60, 252, 253, 61, 255, 63, 62, 254, 250, 58, 59, 251,
      57, 249, 248, 56, 40, 232, 233, 41, 235, 43, 42, 234, 238, 46, 47, 239, 45, 237,
      236, 44, 228, 36, 37, 229, 39, 231, 230, 38, 34, 226, 227, 35, 225, 33, 32, 224,
      160, 96, 97, 161, 99, 163, 162, 98, 102, 166, 167, 103, 165, 101, 100, 164, 108,
      172, 173, 109, 175, 111, 110, 174, 170, 106, 107, 171, 105, 169, 168, 104, 120,
      184, 185, 121, 187, 123, 122, 186, 190, 126, 127, 191, 125, 189, 188, 124, 180,
      116, 117, 181, 119, 183, 182, 118, 114, 178, 179, 115, 177, 113, 112, 176, 80,
      144, 145, 81, 147, 83, 82, 146, 150, 86, 87, 151, 85, 149, 148, 84, 156, 92, 93,
      157, 95, 159, 158, 94, 90, 154, 155, 91, 153, 89, 88, 152, 136, 72, 73, 137, 75,
      139, 138, 74, 78, 142, 143, 79, 141, 77, 76, 140, 68, 132, 133, 69, 135, 71, 70,
      134, 130, 66, 67, 131, 65, 129, 128, 64>>

\* The byte selects, with the low byte of the checksum, from the two tables.
LookUpByte(crc, byte) ==
    LET iIndex == Xor(crc % 256, byte) + 1
    IN  256 * aucCRCLo[iIndex] + Xor(crc \div 256, aucCRCHi[iIndex])

\* Mutant of usMBCRC16: the checksum starts with zero.
usMBCRC16FromZero(frame) ==
    FoldBytes([crc \in Word |-> [byte \in Byte |-> LookUpByte(crc, byte)]], 0, frame)

usMBCRC16(frame) ==
    FoldBytes([crc \in Word |-> [byte \in Byte |-> LookUpByte(crc, byte)]], U16_MAX, frame)

=============================================================================
