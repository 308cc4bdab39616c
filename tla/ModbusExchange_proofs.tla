------------------------ MODULE ModbusExchange_proofs -----------------------
(***************************************************************************)
(* Proofs about ModbusExchange, for any requests, slave and line.          *)
(*                                                                         *)
(* First the checksums: the tables of the link layer and the shifts of the *)
(* library compute one function, it is 0 for a frame that ends in its own  *)
(* checksum and for no frame that differs from that one in a byte or in    *)
(* two that follow each other.  Then what is built and what is parsed,     *)
(* byte for byte.  Then the invariant, in two parts: IInv is about which   *)
(* request and which data belong together, whatever arrives; ByteInv about *)
(* what is on the line.                                                    *)
(***************************************************************************)
EXTENDS ModbusExchange, SequenceTheorems, WellFoundedInduction, TLAPS

-----------------------------------------------------------------------------
(* Induction, and exclusive or *)

LEMMA Induction ==
    ASSUME NEW S, 0 \in S, \A n \in Nat : n \in S => n + 1 \in S
    PROVE  \A n \in Nat : n \in S
<1> DEFINE T == {n \in Nat : n \notin S}
<1>1. SUFFICES ASSUME T # {} PROVE FALSE
  OBVIOUS
<1>2. PICK x \in T : \A y \in T : ~(<<y, x>> \in OpToRel(<, Nat))
  BY <1>1, NatLessThanWellFounded, WFMin
<1>3. \A y \in T : ~(y < x)
  BY <1>2 DEF OpToRel
<1>4. QED
  BY <1>3

\* What holds up to 1, and up to twice of what it holds up to, holds up to a byte and
\* up to a word.
LEMMA Doubling ==
    ASSUME NEW S, 1 \in S, \A m \in Nat : m >= 1 /\ m \in S => 2 * m \in S
    PROVE  {2, 32, 64, 256} \subseteq S /\ U16_MAX + 1 \in S
<1>1. 2 \in S /\ 16 \in S
  <2>1. 2 \in S OBVIOUS
  <2>2. 4 \in S BY <2>1
  <2>3. 8 \in S BY <2>2
  <2>4. 16 \in S BY <2>3
  <2>5. QED BY <2>1, <2>4
<1>2. 32 \in S /\ 64 \in S /\ 256 \in S
  <2>1. 32 \in S BY <1>1
  <2>2. 64 \in S BY <2>1
  <2>3. 128 \in S BY <2>2
  <2>4. 256 \in S BY <2>3
  <2>5. QED BY <2>1, <2>2, <2>4
<1>3. 4096 \in S
  <2>1. 512 \in S BY <1>2
  <2>2. 1024 \in S BY <2>1
  <2>3. 2048 \in S BY <2>2
  <2>4. QED BY <2>3
<1>4. 65536 \in S
  <2>1. 8192 \in S BY <1>3
  <2>2. 16384 \in S BY <2>1
  <2>3. 32768 \in S BY <2>2
  <2>4. QED BY <2>3
<1>5. U16_MAX + 1 = 65536
  BY DEF U16_MAX
<1>6. U16_MAX + 1 \in S
  BY <1>4, <1>5
<1>7. QED
  BY <1>1, <1>2, <1>6

\* What xor makes of a, one bit taken from it and the rest left to f.
XorOnce(f, a) ==
    [b \in Word |-> IF a = 0 THEN b ELSE 2 * f[a \div 2][b \div 2] + ((a + b) % 2)]

\* f is exclusive or as far as its first argument is below m.
XorBelow(f, m) == \A a \in Word : a < m => f[a] = XorOnce(f, a)

LEMMA Halves ==
    ASSUME NEW a \in Word
    PROVE  /\ a \in Nat /\ a \div 2 \in Word /\ a \div 2 \in Nat /\ a % 2 \in 0 .. 1
           /\ a = 2 * (a \div 2) + (a % 2)
<1>1. a \in Int /\ 0 <= a /\ a <= U16_MAX /\ U16_MAX \in Nat
  <2>1. U16_MAX \in Nat
    BY DEF U16_MAX
  <2>2. QED
    BY <2>1 DEF Word
<1>2. /\ a \div 2 \in Int /\ 0 <= a \div 2 /\ a \div 2 <= a /\ a % 2 \in 0 .. 1
      /\ a = 2 * (a \div 2) + (a % 2)
  BY <1>1
<1>3. QED
  BY <1>1, <1>2, SMTT(40) DEF Word

LEMMA XorTwice ==
    ASSUME NEW m \in Nat, m >= 1, \E f : XorBelow(f, m)
    PROVE  \E f : XorBelow(f, 2 * m)
<1>1. PICK f : XorBelow(f, m)
  OBVIOUS
<1> DEFINE g == [a \in Word |-> XorOnce(f, a)]
<1>2. ASSUME NEW a \in Word, a < 2 * m
      PROVE  g[a] = XorOnce(g, a)
  <2>1. g[a] = XorOnce(f, a)
    OBVIOUS
  <2>2. CASE a = 0
    BY <2>1, <2>2 DEF XorOnce
  <2>3. CASE a # 0
    <3>1. a \div 2 \in Word /\ a \div 2 < m
      BY <1>2, Halves
    <3>2. f[a \div 2] = XorOnce(f, a \div 2) /\ g[a \div 2] = XorOnce(f, a \div 2)
      BY <1>1, <3>1 DEF XorBelow
    <3> HIDE DEF g
    <3>3. QED
      BY <2>1, <3>2, Zenon DEF XorOnce
  <2>4. QED
    BY <2>2, <2>3
<1>3. QED
  BY <1>2, Zenon DEF XorBelow

LEMMA WordsBelow ==
    /\ \A a : a \in Word <=> a \in Nat /\ a < U16_MAX + 1
    /\ \A a : a \in Byte <=> a \in Nat /\ a < 256
    /\ \A a \in Byte : a \in Word
    /\ U16_MAX \in Nat
<1>1. U16_MAX \in Nat /\ 256 <= U16_MAX + 1
  BY DEF U16_MAX
<1>2. \A a : a \in Word <=> a \in Nat /\ a < U16_MAX + 1
  BY <1>1 DEF Word
<1>3. \A a : a \in Byte <=> a \in Nat /\ a < 256
  BY DEF Byte
<1>4. QED
  BY <1>1, <1>2, <1>3

LEMMA BytesOfWord ==
    /\ \A h, l \in Byte : /\ 256 * h + l \in Word
                          /\ (256 * h + l) \div 256 = h /\ (256 * h + l) % 256 = l
    /\ \A w \in Word : /\ w \div 256 \in Byte /\ w % 256 \in Byte
                       /\ w = 256 * (w \div 256) + (w % 256)
<1>1. U16_MAX = 256 * 255 + 255
  BY DEF U16_MAX
<1>2. ASSUME NEW h \in Byte, NEW l \in Byte
      PROVE  /\ 256 * h + l \in Word
             /\ (256 * h + l) \div 256 = h /\ (256 * h + l) % 256 = l
  <2>1. h \in 0 .. 255 /\ l \in 0 .. 255
    BY DEF Byte
  <2>2. /\ 256 * h + l \in Int /\ 0 <= 256 * h + l
        /\ 256 * h <= 256 * 255 /\ 256 * h + l <= 256 * 255 + 255
    BY <2>1
  <2>3. (256 * h + l) \div 256 = h /\ (256 * h + l) % 256 = l
    BY <2>1
  <2>4. 256 * h + l <= U16_MAX
    BY <1>1, <2>2
  <2> DEFINE w == 256 * h + l
  <2>5. w \in Int /\ 0 <= w /\ w <= U16_MAX
    BY <2>2, <2>4
  <2> HIDE DEF w
  <2>6. w \in Word
    BY <2>5, WordsBelow, SMTT(40)
  <2>7. QED
    BY <2>3, <2>6 DEF w
<1>3. ASSUME NEW w \in Word
      PROVE  /\ w \div 256 \in Byte /\ w % 256 \in Byte
             /\ w = 256 * (w \div 256) + (w % 256)
  <2>1. w \in Int /\ 0 <= w /\ w <= 256 * 255 + 255
    <3>1. w \in Nat /\ U16_MAX \in Nat /\ w < U16_MAX + 1
      BY WordsBelow, Zenon
    <3>2. QED
      BY <1>1, <3>1
  <2>2. /\ w \div 256 \in 0 .. 255 /\ w % 256 \in 0 .. 255
        /\ w = 256 * (w \div 256) + (w % 256)
    BY <2>1
  <2>3. QED
    BY <2>2, Zenon DEF Byte
<1>4. QED
  BY <1>2, <1>3

LEMMA WordSplit == \A w \in Word : w = 256 * (w \div 256) + (w % 256)
BY BytesOfWord

LEMMA XorExists == \E f : f = [a \in Word |-> XorOnce(f, a)]
<1>1. \E f : XorBelow(f, 1)
  <2> DEFINE f == [a \in Word |-> [b \in Word |-> b]]
  <2>1. \A a \in Word : a < 1 => a = 0
    BY Halves
  <2>2. XorBelow(f, 1)
    BY <2>1 DEF XorBelow, XorOnce
  <2>3. QED
    BY <2>2
<1> DEFINE S == {m \in Nat : \E f : XorBelow(f, m)}
<1>2. 1 \in S
  BY <1>1
<1>3. \A m \in Nat : m >= 1 /\ m \in S => 2 * m \in S
  BY XorTwice
<1> HIDE DEF S
<1>4. U16_MAX + 1 \in S
  BY <1>2, <1>3, Doubling
<1>8. PICK f : XorBelow(f, U16_MAX + 1)
  BY <1>4 DEF S
<1>9. \A a \in Word : a < U16_MAX + 1
  BY WordsBelow
<1> DEFINE g == [a \in Word |-> f[a]]
<1>10. \A a \in Word : g[a] = f[a] /\ f[a] = XorOnce(f, a)
  BY <1>8, <1>9 DEF XorBelow
<1>11. g = [a \in Word |-> g[a]]
  OBVIOUS
<1>12. \A a \in Word : XorOnce(g, a) = XorOnce(f, a)
  <2> TAKE a \in Word
  <2>1. g[a \div 2] = f[a \div 2]
    BY <1>10, Halves
  <2> HIDE DEF g
  <2>2. QED
    BY <2>1, Zenon DEF XorOnce
<1>13. \A a \in Word : g[a] = XorOnce(g, a)
  BY <1>10, <1>12
<1> HIDE DEF g
<1>14. g = [a \in Word |-> XorOnce(g, a)]
  BY <1>11, <1>13
<1>15. QED
  BY <1>14

LEMMA XorStep ==
    ASSUME NEW a \in Word, NEW b \in Word
    PROVE  Xor(a, b) = IF a = 0 THEN b ELSE 2 * Xor(a \div 2, b \div 2) + ((a + b) % 2)
<1> DEFINE F == CHOOSE f : f = [v \in Word |-> XorOnce(f, v)]
<1>1. F = [v \in Word |-> XorOnce(F, v)]
  BY XorExists, Zenon
<1>2. \A v, w : Xor(v, w) = F[v][w]
  BY Zenon DEF Xor, XorOnce
<1> HIDE DEF F
<1>3. F[a] = XorOnce(F, a)
  BY <1>1
<1>4. F[a][b] = IF a = 0 THEN b ELSE 2 * F[a \div 2][b \div 2] + ((a + b) % 2)
  BY <1>3 DEF XorOnce
<1>5. QED
  BY <1>2, <1>4

\* Halves: the same bit by bit.
LEMMA XorHalves ==
    ASSUME NEW a \in Word, NEW b \in Word
    PROVE  Xor(a, b) = 2 * Xor(a \div 2, b \div 2) + ((a + b) % 2)
<1>1. CASE a # 0
  BY <1>1, XorStep
<1>2. CASE a = 0
  <2>1. a \div 2 = 0 /\ a \div 2 \in Word /\ b \div 2 \in Word
    BY <1>2, Halves
  <2>2. Xor(a, b) = b /\ Xor(a \div 2, b \div 2) = b \div 2
    BY <1>2, <2>1, XorStep
  <2>3. b = 2 * (b \div 2) + (b % 2)
    BY Halves
  <2>4. QED
    BY <1>2, <2>2, <2>3
<1>3. QED
  BY <1>1, <1>2

LEMMA XorBounded ==
    /\ \A a, b \in Byte : Xor(a, b) \in Byte
    /\ \A a, b \in Word : Xor(a, b) \in Word
<1> DEFINE P(m) == \A a, b \in Word : a < m /\ b < m => Xor(a, b) \in Nat /\ Xor(a, b) < m
           S == {m \in Nat : P(m)}
<1>1. 1 \in S
  <2>1. \A a \in Word : a < 1 => a = 0
    BY Halves
  <2>2. 0 \in Word => Xor(0, 0) = 0
    BY XorStep
  <2>3. QED
    BY <2>1, <2>2
<1>2. ASSUME NEW m \in Nat, m >= 1, m \in S
      PROVE  2 * m \in S
  <2>1. P(m)
    BY <1>2
  <2>2. ASSUME NEW a \in Word, NEW b \in Word, a < 2 * m, b < 2 * m
        PROVE  Xor(a, b) \in Nat /\ Xor(a, b) < 2 * m
    <3>1. /\ a \div 2 \in Word /\ b \div 2 \in Word /\ a \div 2 < m /\ b \div 2 < m
          /\ (a + b) % 2 \in 0 .. 1
      BY <2>2, Halves
    <3>2. Xor(a \div 2, b \div 2) \in Nat /\ Xor(a \div 2, b \div 2) < m
      BY <2>1, <3>1
    <3>3. Xor(a, b) = 2 * Xor(a \div 2, b \div 2) + ((a + b) % 2)
      BY XorHalves
    <3>4. QED
      BY <3>1, <3>2, <3>3
  <2>3. QED
    BY <2>2
<1> HIDE DEF S
<1>3. 256 \in S /\ U16_MAX + 1 \in S
  BY <1>1, <1>2, Doubling
<1>4. P(256) /\ P(U16_MAX + 1)
  BY <1>3 DEF S
<1> HIDE DEF P
<1>5. (\A a, b \in Byte : Xor(a, b) \in Byte) 
  BY <1>4, WordsBelow DEF P
<1>6. (\A a, b \in Word : Xor(a, b) \in Word) 
  BY <1>4, WordsBelow DEF P
<1>7. QED
  BY <1>5, <1>6

LEMMA XorCommutes ==
    \A a, b \in Word : Xor(a, b) = Xor(b, a)
<1> DEFINE P(m) == \A a, b \in Word : a < m /\ b < m => Xor(a, b) = Xor(b, a)
           S == {m \in Nat : P(m)}
<1>1. 1 \in S
  <2>1. \A a \in Word : a < 1 => a = 0
    BY Halves
  <2>2. QED
    BY <2>1
<1>2. ASSUME NEW m \in Nat, m >= 1, m \in S
      PROVE  2 * m \in S
  <2>1. P(m)
    BY <1>2
  <2>2. ASSUME NEW a \in Word, NEW b \in Word, a < 2 * m, b < 2 * m
        PROVE  Xor(a, b) = Xor(b, a)
    <3>1. /\ a \div 2 \in Word /\ b \div 2 \in Word /\ a \div 2 < m /\ b \div 2 < m
          /\ (a + b) % 2 = (b + a) % 2
      BY <2>2, Halves
    <3>2. Xor(a \div 2, b \div 2) = Xor(b \div 2, a \div 2)
      BY <2>1, <3>1
    <3>3. /\ Xor(a, b) = 2 * Xor(a \div 2, b \div 2) + ((a + b) % 2)
          /\ Xor(b, a) = 2 * Xor(b \div 2, a \div 2) + ((b + a) % 2)
      BY XorHalves
    <3>4. QED
      BY <3>1, <3>2, <3>3
  <2>3. QED
    BY <2>2
<1> HIDE DEF S
<1>3. U16_MAX + 1 \in S
  BY <1>1, <1>2, Doubling
<1>4. P(U16_MAX + 1)
  BY <1>3 DEF S
<1> HIDE DEF P
<1>5. QED
  BY <1>4, WordsBelow DEF P

LEMMA XorZero ==
    ASSUME NEW a \in Word
    PROVE  Xor(a, 0) = a /\ Xor(0, a) = a
<1>1. 0 \in Word
  BY WordsBelow
<1>2. QED
  BY <1>1, XorStep, XorCommutes

LEMMA XorSelf ==
    \A a \in Word : Xor(a, a) = 0
<1> DEFINE P(m) == \A a \in Word : a < m => Xor(a, a) = 0
           S == {m \in Nat : P(m)}
<1>1. 1 \in S
  <2>1. \A a \in Word : a < 1 => a = 0
    BY Halves
  <2>2. QED
    BY <2>1, XorZero
<1>2. ASSUME NEW m \in Nat, m >= 1, m \in S
      PROVE  2 * m \in S
  <2>1. P(m)
    BY <1>2
  <2>2. ASSUME NEW a \in Word, a < 2 * m
        PROVE  Xor(a, a) = 0
    <3>1. a \div 2 \in Word /\ a \div 2 < m /\ (a + a) % 2 = 0
      BY <2>2, Halves
    <3>2. Xor(a \div 2, a \div 2) = 0
      BY <2>1, <3>1
    <3>3. Xor(a, a) = 2 * Xor(a \div 2, a \div 2) + ((a + a) % 2)
      BY XorHalves
    <3>4. QED
      BY <3>1, <3>2, <3>3
  <2>3. QED
    BY <2>2
<1> HIDE DEF S
<1>3. U16_MAX + 1 \in S
  BY <1>1, <1>2, Doubling
<1>4. P(U16_MAX + 1)
  BY <1>3 DEF S
<1> HIDE DEF P
<1>5. QED
  BY <1>4, WordsBelow DEF P

LEMMA XorInjective ==
    \A a, b, c \in Word : Xor(a, c) = Xor(b, c) \/ Xor(c, a) = Xor(c, b) => a = b
<1> DEFINE P(m) == \A a, b, c \in Word : a < m /\ b < m /\ Xor(a, c) = Xor(b, c) => a = b
           S == {m \in Nat : P(m)}
<1>1. 1 \in S
  <2>1. \A a \in Word : a < 1 => a = 0
    BY Halves
  <2>2. QED
    BY <2>1
<1>2. ASSUME NEW m \in Nat, m >= 1, m \in S
      PROVE  2 * m \in S
  <2>1. P(m)
    BY <1>2
  <2>2. ASSUME NEW a \in Word, NEW b \in Word, NEW c \in Word, a < 2 * m, b < 2 * m,
               Xor(a, c) = Xor(b, c)
        PROVE  a = b
    <3>0. /\ a \div 2 \in Word /\ b \div 2 \in Word /\ c \div 2 \in Word
          /\ a \in Nat /\ b \in Nat /\ c \in Nat
      BY Halves
    <3>1. a \div 2 < m /\ b \div 2 < m
      BY <2>2, <3>0
    <3>2. /\ Xor(a, c) = 2 * Xor(a \div 2, c \div 2) + ((a + c) % 2)
          /\ Xor(b, c) = 2 * Xor(b \div 2, c \div 2) + ((b + c) % 2)
      BY XorHalves
    <3>3. Xor(a \div 2, c \div 2) \in Int /\ Xor(b \div 2, c \div 2) \in Int
      BY <3>0, XorBounded, WordsBelow
    <3>4. /\ Xor(a \div 2, c \div 2) = Xor(b \div 2, c \div 2)
          /\ (a + c) % 2 = (b + c) % 2
      <4>1. (a + c) % 2 \in 0 .. 1 /\ (b + c) % 2 \in 0 .. 1
        BY <3>0
      <4> DEFINE x == Xor(a \div 2, c \div 2)
                 y == Xor(b \div 2, c \div 2)
                 i == (a + c) % 2
                 j == (b + c) % 2
      <4>2. 2 * x + i = 2 * y + j /\ x \in Int /\ y \in Int
        BY <2>2, <3>2, <3>3, Zenon
      <4> HIDE DEF x, y, i, j
      <4>3. x = y /\ i = j
        BY <4>1, <4>2 DEF i, j
      <4>4. QED
        BY <4>3 DEF x, y, i, j
    <3>5. a \div 2 = b \div 2
      BY <2>1, <3>0, <3>1, <3>4
    <3>6. QED
      BY <3>0, <3>4, <3>5
  <2>3. QED
    BY <2>2
<1> HIDE DEF S
<1>3. U16_MAX + 1 \in S
  BY <1>1, <1>2, Doubling
<1>4. P(U16_MAX + 1)
  BY <1>3 DEF S
<1> HIDE DEF P
<1>5. QED
  BY <1>4, WordsBelow, XorCommutes DEF P

\* The low and the high part of words go separately.
LEMMA XorParts ==
    ASSUME NEW n \in {2, 32, 64, 256}, NEW g \in Byte, NEW h \in Byte,
           NEW k \in Nat, NEW l \in Nat, k < n, l < n
    PROVE  Xor(n * g + k, n * h + l) = n * Xor(g, h) + Xor(k, l)
<1> DEFINE P(m) == \A i, j \in Nat :
                     i < m /\ j < m /\ m * g + i \in Word /\ m * h + j \in Word
                       => Xor(m * g + i, m * h + j) = m * Xor(g, h) + Xor(i, j)
           S == {m \in Nat : P(m)}
<1>0. /\ g \in Nat /\ h \in Nat /\ g \in Word /\ h \in Word
      /\ Xor(g, h) \in Nat
  BY WordsBelow, XorBounded
<1>1. 1 \in S
  <2>1. \A i \in Nat : i < 1 => i = 0
    OBVIOUS
  <2>2. Xor(0, 0) = 0
    BY XorZero, WordsBelow
  <2>3. 1 * g + 0 = g /\ 1 * h + 0 = h /\ 1 * Xor(g, h) + 0 = Xor(g, h)
    BY <1>0
  <2>4. P(1)
    BY <2>1, <2>2, <2>3
  <2>5. QED
    BY <2>4
<1>2. ASSUME NEW m \in Nat, m >= 1, m \in S
      PROVE  2 * m \in S
  <2>1. P(m)
    BY <1>2
  <2>2. ASSUME NEW i \in Nat, NEW j \in Nat, i < 2 * m, j < 2 * m,
               (2 * m) * g + i \in Word, (2 * m) * h + j \in Word
        PROVE  Xor((2 * m) * g + i, (2 * m) * h + j) = (2 * m) * Xor(g, h) + Xor(i, j)
    <3> DEFINE a == (2 * m) * g + i
               b == (2 * m) * h + j
               p == m * g
               q == m * h
               r == m * Xor(g, h)
    <3>1. /\ p \in Nat /\ q \in Nat /\ r \in Nat
          /\ a = 2 * p + i /\ b = 2 * q + j /\ (2 * m) * Xor(g, h) = 2 * r
      BY <1>0
    <3> HIDE DEF p, q, r
    <3>2. /\ a \div 2 = p + (i \div 2) /\ b \div 2 = q + (j \div 2)
          /\ (a + b) % 2 = (i + j) % 2
          /\ i \div 2 \in Nat /\ j \div 2 \in Nat /\ i \div 2 < m /\ j \div 2 < m
          /\ i <= a /\ j <= b
      BY <2>2, <3>1
    <3> HIDE DEF a, b
    <3>3. a \in Word /\ b \in Word
      BY <2>2 DEF a, b
    <3>4. i \in Word /\ j \in Word
      BY <3>2, <3>3, WordsBelow
    <3>5. a \div 2 \in Word /\ b \div 2 \in Word
      BY <3>3, Halves
    <3>6. Xor(p + (i \div 2), q + (j \div 2)) = r + Xor(i \div 2, j \div 2)
      BY <2>1, <3>2, <3>5, Zenon DEF p, q, r
    <3>7. /\ Xor(a, b) = 2 * Xor(a \div 2, b \div 2) + ((a + b) % 2)
          /\ Xor(i, j) = 2 * Xor(i \div 2, j \div 2) + ((i + j) % 2)
      BY <3>3, <3>4, XorHalves
    <3>8. Xor(i \div 2, j \div 2) \in Nat
      BY <3>4, Halves, XorBounded, WordsBelow
    <3>9. (i + j) % 2 \in Nat
      OBVIOUS
    <3>10. Xor(a, b) = 2 * (r + Xor(i \div 2, j \div 2)) + ((i + j) % 2)
      BY <3>2, <3>6, <3>7, Zenon
    <3>11. Xor(a, b) = 2 * r + Xor(i, j)
      <4> DEFINE x == Xor(i \div 2, j \div 2)
                 y == (i + j) % 2
      <4>1. /\ x \in Nat /\ y \in Nat /\ Xor(i, j) = 2 * x + y
            /\ Xor(a, b) = 2 * (r + x) + y
        BY <3>7, <3>8, <3>9, <3>10
      <4> HIDE DEF x, y
      <4>2. QED
        BY <3>1, <4>1
    <3>12. QED
      BY <3>1, <3>11 DEF a, b
  <2>3. P(2 * m)
    BY <2>2
  <2>4. QED
    BY <2>3
<1> HIDE DEF S
<1>3. n \in S
  BY <1>1, <1>2, Doubling
<1>4. P(n)
  BY <1>3 DEF S
<1>5. n * g + k \in Word /\ n * h + l \in Word
  <2>1. ASSUME NEW i \in Byte, NEW j \in Nat, j < n
        PROVE  n * i + j \in Word
    <3>0. j \in Byte
      BY <2>1, WordsBelow
    <3>1. 256 * i + j \in Word
      BY <3>0, BytesOfWord
    <3>2. i \in Nat /\ n * i + j \in Nat /\ n * i + j <= 256 * i + j
      BY WordsBelow
    <3>3. QED
      BY <3>1, <3>2, WordsBelow
  <2>2. QED
    BY <2>1
<1>6. QED
  BY <1>4, <1>5

-----------------------------------------------------------------------------
(* A step taken over bytes *)

\* What run makes of n bytes, with both halves left to r.
RunOnce(r, step, bytes, n) ==
    [i \in 0 .. Len(bytes) - n |-> [word \in Word |->
       IF n = 0 THEN word
       ELSE IF n = 1 THEN step[word][bytes[i + 1]]
       ELSE r[n - n \div 2][i + n \div 2][r[n \div 2][i][word]]]]

LEMMA RunExists ==
    ASSUME NEW step, NEW bytes, Len(bytes) \in Nat
    PROVE  \E r : r = [n \in 0 .. Len(bytes) |-> RunOnce(r, step, bytes, n)]
<1> DEFINE S == {m \in Nat : \E r : \A n \in 0 .. Len(bytes) :
                               n <= m => r[n] = RunOnce(r, step, bytes, n)}
<1>1. 0 \in S
  <2> DEFINE r == [n \in 0 .. Len(bytes) |-> RunOnce(<<>>, step, bytes, n)]
  <2>1. \A n \in 0 .. Len(bytes) : n <= 0 => n = 0
    OBVIOUS
  <2>2. r[0] = RunOnce(<<>>, step, bytes, 0)
    OBVIOUS
  <2> HIDE DEF r
  <2>3. RunOnce(r, step, bytes, 0) = RunOnce(<<>>, step, bytes, 0)
    BY DEF RunOnce
  <2>4. \A n \in 0 .. Len(bytes) : n <= 0 => r[n] = RunOnce(r, step, bytes, n)
    BY <2>1, <2>2, <2>3
  <2>5. QED
    BY <2>4
<1>2. ASSUME NEW m \in Nat, m \in S
      PROVE  m + 1 \in S
  <2>1. PICK r : \A n \in 0 .. Len(bytes) : n <= m => r[n] = RunOnce(r, step, bytes, n)
    BY <1>2
  <2> DEFINE q == [n \in 0 .. Len(bytes) |-> RunOnce(r, step, bytes, n)]
  <2>2. \A n \in 0 .. Len(bytes) : q[n] = RunOnce(r, step, bytes, n)
    OBVIOUS
  <2> HIDE DEF q
  <2>3. ASSUME NEW n \in 0 .. Len(bytes), n <= m + 1
        PROVE  q[n] = RunOnce(q, step, bytes, n)
    <3>1. CASE n \in {0, 1}
      <4>1. RunOnce(q, step, bytes, n) = RunOnce(r, step, bytes, n)
        BY <3>1 DEF RunOnce
      <4>2. QED
        BY <2>2, <4>1
    <3>2. CASE n >= 2
      <4> DEFINE h == n \div 2
                 g == n - n \div 2
      <4>1. /\ h \in 0 .. Len(bytes) /\ h <= m /\ g \in 0 .. Len(bytes) /\ g <= m
        BY <2>3, <3>2
      <4> HIDE DEF h, g
      <4>2. q[h] = r[h] /\ q[g] = r[g]
        BY <2>1, <2>2, <4>1
      <4>3. RunOnce(q, step, bytes, n) = RunOnce(r, step, bytes, n)
        BY <4>2, Zenon DEF RunOnce, h, g
      <4>4. QED
        BY <2>2, <4>3
    <3>3. QED
      BY <2>3, <3>1, <3>2
  <2>4. QED
    BY <2>3
<1> HIDE DEF S
<1>3. Len(bytes) \in S
  BY <1>1, <1>2, Induction
<1>4. PICK r : \A n \in 0 .. Len(bytes) : n <= Len(bytes) => r[n] = RunOnce(r, step, bytes, n)
  BY <1>3 DEF S
<1> DEFINE q == [n \in 0 .. Len(bytes) |-> RunOnce(r, step, bytes, n)]
<1>5. \A n \in 0 .. Len(bytes) : q[n] = RunOnce(r, step, bytes, n) /\ q[n] = r[n]
  BY <1>4
<1>6. q = [n \in 0 .. Len(bytes) |-> q[n]]
  OBVIOUS
<1> HIDE DEF q
<1>7. ASSUME NEW n \in 0 .. Len(bytes)
      PROVE  RunOnce(q, step, bytes, n) = RunOnce(r, step, bytes, n)
  <2>1. CASE n \in {0, 1}
    BY <2>1 DEF RunOnce
  <2>2. CASE n >= 2
    <3> DEFINE h == n \div 2
               g == n - n \div 2
    <3>1. h \in 0 .. Len(bytes) /\ g \in 0 .. Len(bytes)
      BY <2>2
    <3> HIDE DEF h, g
    <3>2. q[h] = r[h] /\ q[g] = r[g]
      BY <1>5, <3>1
    <3>3. QED
      BY <3>2, Zenon DEF RunOnce, h, g
  <2>3. QED
    BY <2>1, <2>2
<1>8. \A n \in 0 .. Len(bytes) : q[n] = RunOnce(q, step, bytes, n)
  BY <1>5, <1>7
<1>9. q = [n \in 0 .. Len(bytes) |-> RunOnce(q, step, bytes, n)]
  BY <1>6, <1>8
<1>10. QED
  BY <1>9

\* A run over bytes, and what it does at one place.
IsRun(r, step, bytes) ==
    \A n \in 0 .. Len(bytes), i \in 0 .. Len(bytes), w \in Word :
      n + i <= Len(bytes) =>
        /\ n = 0 => r[n][i][w] = w
        /\ n = 1 => r[n][i][w] = step[w][bytes[i + 1]]
        /\ n >= 2 => r[n][i][w] = r[n - n \div 2][i + n \div 2][r[n \div 2][i][w]]

LEMMA FoldRuns ==
    ASSUME NEW step, NEW bytes, Len(bytes) \in Nat, NEW start
    PROVE  \E r : IsRun(r, step, bytes) /\ FoldBytes(step, start, bytes) = r[Len(bytes)][0][start]
<1> DEFINE Fixed(r) == r = [n \in 0 .. Len(bytes) |-> RunOnce(r, step, bytes, n)]
           R == CHOOSE r : Fixed(r)
<1>1. R = [n \in 0 .. Len(bytes) |-> RunOnce(R, step, bytes, n)]
  <2>1. \E r : Fixed(r)
    BY RunExists
  <2> HIDE DEF Fixed
  <2>2. Fixed(R)
    BY <2>1, Zenon
  <2> HIDE DEF R
  <2>3. QED
    BY <2>2 DEF Fixed
<1>2. FoldBytes(step, start, bytes) = R[Len(bytes)][0][start]
  BY Zenon DEF FoldBytes, RunOnce
<1> HIDE DEF R
<1>3. \A n \in 0 .. Len(bytes) : R[n] = RunOnce(R, step, bytes, n)
  BY <1>1
<1>4. ASSUME NEW n \in 0 .. Len(bytes), NEW i \in 0 .. Len(bytes), NEW w \in Word,
             n + i <= Len(bytes)
      PROVE  R[n][i][w] = IF n = 0 THEN w
                          ELSE IF n = 1 THEN step[w][bytes[i + 1]]
                          ELSE R[n - n \div 2][i + n \div 2][R[n \div 2][i][w]]
  <2>1. i \in 0 .. Len(bytes) - n
    BY <1>4
  <2>2. R[n][i][w] = RunOnce(R, step, bytes, n)[i][w]
    BY <1>3
  <2>3. QED
    BY <2>1, <2>2, Zenon DEF RunOnce
<1>5. IsRun(R, step, bytes)
  BY <1>4 DEF IsRun
<1>6. QED
  BY <1>2, <1>5

Stepping(step) == \A w \in Word, b \in Byte : step[w][b] \in Word

\* The last of n bytes is taken after the others.
StepsLast(r, step, bytes, n) ==
    \A i \in 0 .. Len(bytes), w \in Word :
      n + i <= Len(bytes) =>
        /\ r[n][i][w] \in Word
        /\ n >= 1 => r[n][i][w] = step[r[n - 1][i][w]][bytes[i + n]]

StepUpTo(r, step, bytes, m) ==
    \A n \in Nat : n <= m /\ n <= Len(bytes) => StepsLast(r, step, bytes, n)

\* Runs over parts that follow each other are a run over both.
Adds(r, bytes, m, h, i, w) ==
    \A g \in Nat : h + g <= m /\ h + g + i <= Len(bytes) =>
      r[h + g][i][w] = r[g][i + h][r[h][i][w]]

LEMMA RunsAdd ==
    ASSUME NEW step, NEW bytes, Len(bytes) \in Nat, NEW r, IsRun(r, step, bytes),
           NEW m \in Nat, StepUpTo(r, step, bytes, m),
           NEW h \in Nat, NEW i \in Nat, NEW w \in Word
    PROVE  Adds(r, bytes, m, h, i, w)
<1>0. \A n \in Nat : n <= m /\ n <= Len(bytes) => StepsLast(r, step, bytes, n)
  BY DEF StepUpTo
<1> DEFINE S == {g \in Nat : h + g <= m /\ h + g + i <= Len(bytes) =>
                               r[h + g][i][w] = r[g][i + h][r[h][i][w]]}
<1>1. 0 \in S
  <2>1. SUFFICES ASSUME h + 0 <= m, h + 0 + i <= Len(bytes)
                 PROVE  r[h + 0][i][w] = r[0][i + h][r[h][i][w]]
    OBVIOUS
  <2>2. h <= m /\ h <= Len(bytes) /\ h + i <= Len(bytes) /\ i \in 0 .. Len(bytes)
    BY <2>1
  <2>3. r[h][i][w] \in Word
    BY <1>0, <2>2 DEF StepsLast
  <2>4. /\ 0 \in 0 .. Len(bytes) /\ i + h \in 0 .. Len(bytes) /\ 0 + (i + h) <= Len(bytes)
        /\ h + 0 = h
    BY <2>2
  <2>5. QED
    BY <2>3, <2>4 DEF IsRun
<1>2. ASSUME NEW g \in Nat, g \in S
      PROVE  g + 1 \in S
  <2>1. SUFFICES ASSUME h + (g + 1) <= m, h + (g + 1) + i <= Len(bytes)
                 PROVE  r[h + (g + 1)][i][w] = r[g + 1][i + h][r[h][i][w]]
    OBVIOUS
  <2> DEFINE k == h + (g + 1)
             v == r[h][i][w]
  <2>2. /\ k \in Nat /\ k <= m /\ k <= Len(bytes) /\ k >= 1 /\ k - 1 = h + g
        /\ k + i <= Len(bytes) /\ i \in 0 .. Len(bytes)
        /\ g + 1 \in Nat /\ g + 1 <= m /\ g + 1 <= Len(bytes) /\ g + 1 >= 1 /\ (g + 1) - 1 = g
        /\ i + h \in 0 .. Len(bytes) /\ (g + 1) + (i + h) <= Len(bytes)
        /\ i + k = (i + h) + (g + 1)
        /\ h <= m /\ h <= Len(bytes) /\ h + i <= Len(bytes)
        /\ h + g <= m /\ h + g + i <= Len(bytes)
    BY <2>1
  <2>3. v \in Word
    BY <1>0, <2>2 DEF StepsLast
  <2> HIDE DEF k, v
  <2>4. r[k][i][w] = step[r[h + g][i][w]][bytes[i + k]]
    <3>1. StepsLast(r, step, bytes, k)
      BY <1>0, <2>2
    <3>2. r[k][i][w] = step[r[k - 1][i][w]][bytes[i + k]]
      BY <2>2, <3>1, Zenon DEF StepsLast
    <3>3. QED
      BY <2>2, <3>2
  <2>5. r[g + 1][i + h][v] = step[r[g][i + h][v]][bytes[(i + h) + (g + 1)]]
    BY <1>0, <2>2, <2>3 DEF StepsLast
  <2>6. r[h + g][i][w] = r[g][i + h][v]
    BY <1>2, <2>2 DEF v
  <2>7. r[k][i][w] = r[g + 1][i + h][v]
    BY <2>2, <2>4, <2>5, <2>6
  <2>8. QED
    BY <2>7 DEF k, v
<1> HIDE DEF S
<1>3. \A g \in Nat : g \in S
  BY <1>1, <1>2, Induction
<1>4. QED
  BY <1>3 DEF S, Adds

LEMMA RunSteps ==
    ASSUME NEW step, Stepping(step), NEW bytes \in Seq(Byte), NEW r, IsRun(r, step, bytes)
    PROVE  \A n \in 0 .. Len(bytes) : StepsLast(r, step, bytes, n)
<1>0. Len(bytes) \in Nat /\ \A k \in 1 .. Len(bytes) : bytes[k] \in Byte
  OBVIOUS
<1> DEFINE S == {m \in Nat : \A n \in Nat : n <= m /\ n <= Len(bytes)
                               => StepsLast(r, step, bytes, n)}
<1>1. 0 \in S
  <2>1. \A n \in Nat : n <= 0 => n = 0
    OBVIOUS
  <2>2. StepsLast(r, step, bytes, 0)
    BY <1>0 DEF IsRun, StepsLast
  <2>3. QED
    BY <2>1, <2>2
<1>2. ASSUME NEW m \in Nat, m \in S
      PROVE  m + 1 \in S
  <2>1. \A n \in Nat : n <= m /\ n <= Len(bytes) => StepsLast(r, step, bytes, n)
    BY <1>2
  <2>2. ASSUME m + 1 <= Len(bytes)
        PROVE  StepsLast(r, step, bytes, m + 1)
    <3> DEFINE n == m + 1
    <3>1. n \in 0 .. Len(bytes) /\ n \in Nat /\ n >= 1 /\ n - 1 = m
      BY <1>0, <2>2
    <3> HIDE DEF n
    <3>2. ASSUME NEW i \in 0 .. Len(bytes), NEW w \in Word, n + i <= Len(bytes)
          PROVE  r[n][i][w] \in Word /\ r[n][i][w] = step[r[n - 1][i][w]][bytes[i + n]]
      <4>1. i + n \in 1 .. Len(bytes) /\ m + i <= Len(bytes) /\ m <= Len(bytes)
        BY <1>0, <3>1, <3>2
      <4>2. r[n - 1][i][w] \in Word
        BY <2>1, <3>1, <4>1 DEF StepsLast
      <4>3. step[r[n - 1][i][w]][bytes[i + n]] \in Word
        BY <1>0, <4>1, <4>2 DEF Stepping
      <4>4. r[n][i][w] = step[r[n - 1][i][w]][bytes[i + n]]
        <5>1. CASE n = 1
          <6>1. r[0][i][w] = w /\ r[1][i][w] = step[w][bytes[i + 1]]
            BY <1>0, <3>1, <3>2, <5>1 DEF IsRun
          <6>2. QED
            BY <5>1, <6>1
        <5>2. CASE n >= 2
          <6> DEFINE h == n \div 2
                     g == n - n \div 2
                     v == r[h][i][w]
          <6>1. /\ h \in Nat /\ h >= 1 /\ h <= m /\ g \in Nat /\ g >= 1 /\ g <= m
                /\ h + g = n /\ h + (g - 1) = n - 1 /\ g - 1 \in Nat
            BY <3>1, <5>2
          <6>2. r[n][i][w] = r[g][i + h][v]
            BY <3>1, <3>2, <5>2, Zenon DEF IsRun
          <6> HIDE DEF h, g, v
          <6>3. /\ h <= Len(bytes) /\ g <= Len(bytes) /\ h + i <= Len(bytes)
                /\ i + h \in 0 .. Len(bytes) /\ g + (i + h) <= Len(bytes)
                /\ (i + h) + g = i + n
                /\ h + (g - 1) <= m /\ h + (g - 1) + i <= Len(bytes) /\ i \in Nat
            BY <1>0, <3>1, <3>2, <4>1, <6>1
          <6>4. v \in Word
            BY <2>1, <6>1, <6>3 DEF StepsLast, v
          <6>5. r[g][i + h][v] = step[r[g - 1][i + h][v]][bytes[(i + h) + g]]
            BY <2>1, <6>1, <6>3, <6>4 DEF StepsLast
          <6>6. r[h + (g - 1)][i][w] = r[g - 1][i + h][v]
            <7>1. Len(bytes) \in Nat /\ h \in Nat /\ i \in Nat
              BY <1>0, <6>1, <6>3
            <7>2. StepUpTo(r, step, bytes, m)
              BY <2>1 DEF StepUpTo
            <7>3. Adds(r, bytes, m, h, i, w)
              BY <7>1, <7>2, RunsAdd, Zenon
            <7>4. QED
              BY <6>1, <6>3, <7>3 DEF Adds, v
          <6>7. QED
            BY <6>1, <6>2, <6>3, <6>5, <6>6
        <5>3. QED
          BY <3>1, <5>1, <5>2
      <4>5. QED
        BY <4>3, <4>4
    <3>3. QED
      BY <3>2 DEF StepsLast, n
  <2>3. \A n \in Nat : n <= m + 1 => n <= m \/ n = m + 1
    OBVIOUS
  <2>4. QED
    BY <2>1, <2>2, <2>3
<1> HIDE DEF S
<1>3. \A m \in Nat : m \in S
  BY <1>1, <1>2, Induction
<1>4. QED
  BY <1>0, <1>3 DEF S

\* The words a fold goes through.
IsTrace(t, step, start, bytes) ==
    /\ t \in [0 .. Len(bytes) -> Word]
    /\ t[0] = start
    /\ \A k \in 1 .. Len(bytes) : t[k] = step[t[k - 1]][bytes[k]]

LEMMA FoldTraces ==
    ASSUME NEW step, Stepping(step), NEW bytes \in Seq(Byte), NEW start \in Word
    PROVE  \E t : IsTrace(t, step, start, bytes) /\ FoldBytes(step, start, bytes) = t[Len(bytes)]
<1>1. Len(bytes) \in Nat
  OBVIOUS
<1>2. PICK r : IsRun(r, step, bytes) /\ FoldBytes(step, start, bytes) = r[Len(bytes)][0][start]
  BY <1>1, FoldRuns
<1>3. \A n \in 0 .. Len(bytes) : StepsLast(r, step, bytes, n)
  BY <1>2, RunSteps
<1> DEFINE t == [n \in 0 .. Len(bytes) |-> r[n][0][start]]
<1>4. \A n \in 0 .. Len(bytes) : t[n] \in Word
  BY <1>1, <1>3 DEF StepsLast
<1>5. t[0] = start
  BY <1>1, <1>2 DEF IsRun
<1>6. \A k \in 1 .. Len(bytes) : t[k] = step[t[k - 1]][bytes[k]]
  <2> TAKE k \in 1 .. Len(bytes)
  <2>1. /\ k \in 0 .. Len(bytes) /\ k - 1 \in 0 .. Len(bytes) /\ k >= 1
        /\ 0 + k = k /\ k + 0 <= Len(bytes)
    BY <1>1
  <2>2. r[k][0][start] = step[r[k - 1][0][start]][bytes[0 + k]]
    BY <1>1, <1>3, <2>1 DEF StepsLast
  <2>3. QED
    BY <2>1, <2>2
<1>7. t[Len(bytes)] = r[Len(bytes)][0][start]
  BY <1>1
<1>8. IsTrace(t, step, start, bytes)
  BY <1>4, <1>5, <1>6 DEF IsTrace
<1>9. QED
  BY <1>2, <1>7, <1>8

-----------------------------------------------------------------------------
(* Exclusive or once more *)

\* The lowest bit, and the rest.
LEMMA XorBits ==
    ASSUME NEW a \in Word, NEW b \in Word
    PROVE  Xor(a, b) \div 2 = Xor(a \div 2, b \div 2) /\ Xor(a, b) % 2 = (a + b) % 2
<1> DEFINE x == Xor(a \div 2, b \div 2)
           i == (a + b) % 2
<1>1. a \in Nat /\ b \in Nat /\ x \in Nat
  BY Halves, XorBounded, WordsBelow
<1>2. i \in 0 .. 1
  BY <1>1
<1>3. Xor(a, b) = 2 * x + i
  BY XorHalves
<1> HIDE DEF x, i
<1>4. (2 * x + i) \div 2 = x /\ (2 * x + i) % 2 = i
  BY <1>1, <1>2
<1>5. QED
  BY <1>3, <1>4 DEF x, i

LEMMA XorAssociates ==
    \A a, b, c \in Word : Xor(Xor(a, b), c) = Xor(a, Xor(b, c))
<1> DEFINE P(m) == \A a, b, c \in Word :
                     a < m /\ b < m /\ c < m => Xor(Xor(a, b), c) = Xor(a, Xor(b, c))
           S == {m \in Nat : P(m)}
<1>1. 1 \in S
  <2>1. \A a \in Word : a < 1 => a = 0
    BY Halves
  <2>2. Xor(0, 0) = 0
    BY XorZero, WordsBelow
  <2>3. QED
    BY <2>1, <2>2
<1>2. ASSUME NEW m \in Nat, m >= 1, m \in S
      PROVE  2 * m \in S
  <2>1. P(m)
    BY <1>2
  <2>2. ASSUME NEW a \in Word, NEW b \in Word, NEW c \in Word, a < 2 * m, b < 2 * m, c < 2 * m
        PROVE  Xor(Xor(a, b), c) = Xor(a, Xor(b, c))
    <3> DEFINE u == Xor(a, b)
               v == Xor(b, c)
    <3>1. /\ a \div 2 \in Word /\ b \div 2 \in Word /\ c \div 2 \in Word
          /\ a \in Nat /\ b \in Nat /\ c \in Nat
      BY Halves
    <3>2. a \div 2 < m /\ b \div 2 < m /\ c \div 2 < m
      BY <2>2, <3>1
    <3>3. u \in Word /\ v \in Word /\ u \in Nat /\ v \in Nat
      BY XorBounded, WordsBelow
    <3>4. /\ u \div 2 = Xor(a \div 2, b \div 2) /\ u % 2 = (a + b) % 2
          /\ v \div 2 = Xor(b \div 2, c \div 2) /\ v % 2 = (b + c) % 2
      BY XorBits
    <3> HIDE DEF u, v
    <3>5. /\ Xor(u, c) = 2 * Xor(u \div 2, c \div 2) + ((u + c) % 2)
          /\ Xor(a, v) = 2 * Xor(a \div 2, v \div 2) + ((a + v) % 2)
      BY <3>3, XorHalves
    <3>6. Xor(u \div 2, c \div 2) = Xor(a \div 2, v \div 2)
      BY <2>1, <3>1, <3>2, <3>4
    <3>7. (u + c) % 2 = (a + v) % 2
      BY <3>1, <3>3, <3>4
    <3>8. QED
      BY <3>5, <3>6, <3>7, Zenon DEF u, v
  <2>3. QED
    BY <2>2
<1> HIDE DEF S
<1>3. U16_MAX + 1 \in S
  BY <1>1, <1>2, Doubling
<1>4. P(U16_MAX + 1)
  BY <1>3 DEF S
<1> HIDE DEF P
<1>5. QED
  BY <1>4, WordsBelow DEF P

LEMMA XorMoves ==
    ASSUME NEW u \in Word, NEW v \in Word, NEW p \in Word
    PROVE  /\ Xor(u, Xor(v, p)) = Xor(Xor(u, v), p)
           /\ Xor(Xor(u, p), v) = Xor(Xor(u, v), p)
           /\ Xor(Xor(u, p), Xor(v, p)) = Xor(u, v)
<1>1. Xor(p, v) \in Word /\ Xor(v, p) \in Word /\ Xor(u, p) \in Word /\ Xor(u, v) \in Word
  BY XorBounded
<1>2. Xor(u, Xor(v, p)) = Xor(Xor(u, v), p)
  BY XorAssociates
<1>3. Xor(Xor(u, p), v) = Xor(Xor(u, v), p)
  <2>1. Xor(Xor(u, p), v) = Xor(u, Xor(p, v))
    BY XorAssociates
  <2>2. Xor(p, v) = Xor(v, p)
    BY XorCommutes
  <2>3. QED
    BY <1>2, <2>1, <2>2
<1>4. Xor(Xor(u, p), Xor(v, p)) = Xor(u, v)
  <2>1. Xor(Xor(u, p), Xor(v, p)) = Xor(Xor(Xor(u, p), v), p)
    BY <1>1, XorAssociates
  <2>2. Xor(Xor(Xor(u, v), p), p) = Xor(Xor(u, v), Xor(p, p))
    BY <1>1, XorAssociates
  <2>3. Xor(p, p) = 0 /\ Xor(Xor(u, v), 0) = Xor(u, v)
    BY <1>1, XorSelf, XorZero
  <2>4. QED
    BY <1>3, <2>1, <2>2, <2>3
<1>5. QED
  BY <1>2, <1>3, <1>4

-----------------------------------------------------------------------------
(* Eight shifts are a table *)

LEMMA Polynomial ==
    40961 = 256 * 160 + 1 /\ 40961 \in Word
BY DEF Word, U16_MAX

LEMMA ShiftBounded ==
    ASSUME NEW w \in Word
    PROVE  ShiftBit(w) \in Word
BY Halves, XorBounded, Polynomial DEF ShiftBit

\* Shifting respects exclusive or.
LEMMA ShiftLinear ==
    ASSUME NEW a \in Word, NEW b \in Word
    PROVE  ShiftBit(Xor(a, b)) = Xor(ShiftBit(a), ShiftBit(b))
<1> DEFINE p == 40961
           u == a \div 2
           v == b \div 2
           c == Xor(a, b)
<1>1. /\ p \in Word /\ u \in Word /\ v \in Word /\ a \in Nat /\ b \in Nat
      /\ a % 2 \in 0 .. 1 /\ b % 2 \in 0 .. 1
  BY Halves, Polynomial
<1>2. c \div 2 = Xor(u, v) /\ c % 2 = (a + b) % 2
  BY XorBits
<1>3. /\ ShiftBit(a) = IF a % 2 = 1 THEN Xor(u, p) ELSE u
      /\ ShiftBit(b) = IF b % 2 = 1 THEN Xor(v, p) ELSE v
      /\ ShiftBit(c) = IF c % 2 = 1 THEN Xor(c \div 2, p) ELSE c \div 2
  <2>1. \A w : ShiftBit(w) = IF w % 2 = 1 THEN Xor(w \div 2, p) ELSE w \div 2
    BY DEF ShiftBit
  <2> HIDE DEF p, c
  <2>2. QED
    BY <2>1, Zenon
<1>4. (a + b) % 2 = IF a % 2 = b % 2 THEN 0 ELSE 1
  BY <1>1
<1> HIDE DEF p, u, v, c
<1>5. CASE a % 2 = 0 /\ b % 2 = 0
  BY <1>2, <1>3, <1>4, <1>5 DEF c
<1>6. CASE a % 2 = 1 /\ b % 2 = 0
  BY <1>1, <1>2, <1>3, <1>4, <1>6, XorMoves DEF c
<1>7. CASE a % 2 = 0 /\ b % 2 = 1
  BY <1>1, <1>2, <1>3, <1>4, <1>7, XorMoves DEF c
<1>8. CASE a % 2 = 1 /\ b % 2 = 1
  BY <1>1, <1>2, <1>3, <1>4, <1>8, XorMoves DEF c
<1>9. QED
  BY <1>1, <1>5, <1>6, <1>7, <1>8

EightShifts(w) ==
    ShiftBit(ShiftBit(ShiftBit(ShiftBit(ShiftBit(ShiftBit(ShiftBit(ShiftBit(w))))))))

\* (This is the loop of ShiftByte.)
LEMMA ShiftByteIs ==
    ASSUME NEW crc, NEW byte
    PROVE  ShiftByte(crc, byte) = EightShifts(Xor(crc, byte))
<1> DEFINE w0 == Xor(crc, byte)
           w1 == ShiftBit(w0)
           w2 == ShiftBit(w1)
           w3 == ShiftBit(w2)
           w4 == ShiftBit(w3)
           w5 == ShiftBit(w4)
           w6 == ShiftBit(w5)
           w7 == ShiftBit(w6)
           w8 == ShiftBit(w7)
           Fixed(f) == f = [n \in 0 .. 8 |-> IF n = 0 THEN w0 ELSE ShiftBit(f[n - 1])]
           F == CHOOSE f : Fixed(f)
<1>1. \E f : Fixed(f)
  <2> DEFINE f == [n \in 0 .. 8 |->
                     IF n = 0 THEN w0 ELSE IF n = 1 THEN w1 ELSE IF n = 2 THEN w2
                     ELSE IF n = 3 THEN w3 ELSE IF n = 4 THEN w4 ELSE IF n = 5 THEN w5
                     ELSE IF n = 6 THEN w6 ELSE IF n = 7 THEN w7 ELSE w8]
  <2> HIDE DEF w0
  <2>1. /\ f[0] = w0 /\ f[1] = ShiftBit(f[0]) /\ f[2] = ShiftBit(f[1]) 
        /\ f[3] = ShiftBit(f[2]) /\ f[4] = ShiftBit(f[3]) /\ f[5] = ShiftBit(f[4])
        /\ f[6] = ShiftBit(f[5]) /\ f[7] = ShiftBit(f[6]) /\ f[8] = ShiftBit(f[7])
    OBVIOUS
  <2>2. f = [n \in 0 .. 8 |-> f[n]]
    OBVIOUS
  <2> HIDE DEF f
  <2>3. \A n \in 0 .. 8 : n \in {0, 1, 2, 3, 4, 5, 6, 7, 8}
    OBVIOUS
  <2>4. \A n \in 0 .. 8 : f[n] = IF n = 0 THEN w0 ELSE ShiftBit(f[n - 1])
    BY <2>1, <2>3
  <2>5. f = [n \in 0 .. 8 |-> IF n = 0 THEN w0 ELSE ShiftBit(f[n - 1])]
    BY <2>2, <2>4
  <2>6. QED
    BY <2>5
<1>2. Fixed(F)
  <2> HIDE DEF Fixed
  <2>1. QED
    BY <1>1, Zenon
<1>3. ShiftByte(crc, byte) = F[8]
  BY Zenon DEF ShiftByte
<1> HIDE DEF F, w0
<1>4. F = [n \in 0 .. 8 |-> IF n = 0 THEN w0 ELSE ShiftBit(F[n - 1])]
  BY <1>2
<1>5. /\ F[0] = w0 /\ F[1] = ShiftBit(F[0]) /\ F[2] = ShiftBit(F[1]) 
      /\ F[3] = ShiftBit(F[2]) /\ F[4] = ShiftBit(F[3]) /\ F[5] = ShiftBit(F[4])
      /\ F[6] = ShiftBit(F[5]) /\ F[7] = ShiftBit(F[6]) /\ F[8] = ShiftBit(F[7])
  <2> HIDE DEF Fixed
  <2>1. \A n \in 0 .. 8 : F[n] = IF n = 0 THEN w0 ELSE ShiftBit(F[n - 1])
    BY <1>4
  <2>2. QED
    BY <2>1
<1>6. F[8] = EightShifts(w0)
  BY <1>5, Zenon DEF EightShifts
<1>7. QED
  BY <1>3, <1>6 DEF w0

LEMMA EightBounded ==
    ASSUME NEW w \in Word
    PROVE  EightShifts(w) \in Word
BY ShiftBounded DEF EightShifts

LEMMA EightLinear ==
    ASSUME NEW a \in Word, NEW b \in Word
    PROVE  EightShifts(Xor(a, b)) = Xor(EightShifts(a), EightShifts(b))
<1> DEFINE P(c, u, v) == u \in Word /\ v \in Word /\ c = Xor(u, v)
<1>1. \A c, u, v : P(c, u, v) => P(ShiftBit(c), ShiftBit(u), ShiftBit(v))
  BY ShiftBounded, ShiftLinear
<1>2. P(Xor(a, b), a, b)
  OBVIOUS
<1> HIDE DEF P
<1>3. P(EightShifts(Xor(a, b)), EightShifts(a), EightShifts(b))
  BY <1>1, <1>2, Zenon DEF EightShifts
<1>4. QED
  BY <1>3 DEF P

-----------------------------------------------------------------------------
(* The link layer's tables *)

\* Exclusive or with the bytes of the polynomial and of the table's second entry.
LEMMA XorSmall ==
    /\ Xor(0, 1) = 1 /\ Xor(1, 1) = 0 /\ Xor(0, 2) = 2 /\ Xor(1, 2) = 3
    /\ \A z \in 0 .. 3 : Xor(z, 3) = 3 - z
    /\ Xor(0, 5) = 5 /\ Xor(1, 5) = 4 /\ Xor(2, 5) = 7 /\ Xor(3, 5) = 6
<1>0. \A a \in 0 .. 5 : a \in Word /\ a \in Byte
  BY WordsBelow DEF Byte
<1>1. Xor(0, 1) = 1 /\ Xor(0, 2) = 2 /\ Xor(0, 3) = 3 /\ Xor(0, 5) = 5
  BY <1>0, XorZero
<1>2. Xor(1, 1) = 0 /\ Xor(3, 3) = 0
  BY <1>0, XorSelf
<1>3. \A a, b \in 0 .. 5 : Xor(a, b) = 2 * Xor(a \div 2, b \div 2) + ((a + b) % 2)
  BY <1>0, XorHalves
<1>4. Xor(1, 2) = 3 /\ Xor(1, 3) = 2 /\ Xor(2, 3) = 1
  <2>1. Xor(1, 2) = 2 * Xor(0, 1) + 1
    BY <1>3
  <2>2. Xor(1, 3) = 2 * Xor(0, 1) + 0
    BY <1>3
  <2>3. Xor(2, 3) = 2 * Xor(1, 1) + 1
    BY <1>3
  <2>4. QED
    BY <1>1, <1>2, <2>1, <2>2, <2>3
<1>5. Xor(1, 5) = 4 /\ Xor(2, 5) = 7 /\ Xor(3, 5) = 6
  <2>1. Xor(1, 5) = 2 * Xor(0, 2) + 0
    BY <1>3
  <2>2. Xor(2, 5) = 2 * Xor(1, 2) + 1
    BY <1>3
  <2>3. Xor(3, 5) = 2 * Xor(1, 2) + 0
    BY <1>3
  <2>4. QED
    BY <1>1, <1>4, <2>1, <2>2, <2>3
<1>6. \A z \in 0 .. 3 : Xor(z, 3) = 3 - z
  BY <1>1, <1>2, <1>4
<1>7. QED
  BY <1>1, <1>2, <1>4, <1>5, <1>6

FlipLow(k) == IF k % 2 = 1 THEN k - 1 ELSE k + 1

LEMMA XorOne ==
    ASSUME NEW k \in Byte
    PROVE  Xor(k, 1) = FlipLow(k)
<1>1. k \in Nat /\ k \in Word /\ 1 \in Word /\ k \div 2 \in Word
  BY WordsBelow, Halves DEF Byte
<1>2. Xor(k, 1) = 2 * Xor(k \div 2, 0) + ((k + 1) % 2)
  BY <1>1, XorHalves
<1>3. Xor(k \div 2, 0) = k \div 2
  BY <1>1, XorZero
<1>4. QED
  BY <1>1, <1>2, <1>3 DEF FlipLow

Flip160(g) == IF (g \div 32) % 2 = 1 THEN g + 96 ELSE g + 160

LEMMA XorHigh ==
    ASSUME NEW g \in 0 .. 127
    PROVE  Xor(g, 160) = Flip160(g)
<1> DEFINE z == g \div 32
           i == g % 32
<1>1. /\ z \in {0, 1, 2, 3} /\ i \in Nat /\ i < 32 /\ g = 32 * z + i
      /\ 0 \in Nat /\ 0 < 32 /\ 32 * 5 + 0 = 160 /\ 32 \in {2, 32, 64, 256}
  OBVIOUS
<1>2. z \in Byte /\ 5 \in Byte /\ i \in Word
  BY <1>1, WordsBelow DEF Byte
<1> HIDE DEF z, i
<1>3. Xor(32 * z + i, 32 * 5 + 0) = 32 * Xor(z, 5) + Xor(i, 0)
  BY <1>1, <1>2, XorParts
<1>4. Xor(i, 0) = i
  BY <1>2, XorZero
<1>5. Xor(g, 160) = 32 * Xor(z, 5) + i
  BY <1>1, <1>3, <1>4
<1>6. Flip160(g) = IF z % 2 = 1 THEN g + 96 ELSE g + 160
  BY DEF Flip160, z
<1>7. QED
  BY <1>1, <1>5, <1>6, XorSmall

Flip192(l) == 64 * (3 - l \div 64) + (l % 64)
Flip193(h) == 64 * (3 - h \div 64) + FlipLow(h % 64)

LEMMA XorSecond ==
    ASSUME NEW l \in Byte
    PROVE  Xor(l, 192) = Flip192(l) /\ Xor(l, 193) = Flip193(l)
<1> DEFINE z == l \div 64
           i == l % 64
<1>0. l \in 0 .. 255
  BY DEF Byte
<1>1. /\ z \in 0 .. 3 /\ i \in Nat /\ i < 64 /\ l = 64 * z + i
      /\ 0 \in Nat /\ 1 \in Nat /\ 0 < 64 /\ 1 < 64
      /\ 64 * 3 + 0 = 192 /\ 64 * 3 + 1 = 193 /\ 64 \in {2, 32, 64, 256}
  BY <1>0
<1>2. z \in Byte /\ 3 \in Byte /\ i \in Byte /\ i \in Word
  BY <1>1, WordsBelow DEF Byte
<1> HIDE DEF z, i
<1>3. /\ Xor(64 * z + i, 64 * 3 + 0) = 64 * Xor(z, 3) + Xor(i, 0)
      /\ Xor(64 * z + i, 64 * 3 + 1) = 64 * Xor(z, 3) + Xor(i, 1)
  BY <1>1, <1>2, XorParts, SMTT(40)
<1>4. Xor(i, 0) = i /\ Xor(i, 1) = FlipLow(i)
  BY <1>2, XorZero, XorOne
<1>5. Xor(z, 3) = 3 - z
  BY <1>1, XorSmall
<1>6. /\ Xor(l, 192) = 64 * (3 - z) + i /\ Xor(l, 193) = 64 * (3 - z) + FlipLow(i)
  BY <1>1, <1>3, <1>4, <1>5
<1>7. QED
  BY <1>6 DEF Flip192, Flip193, z, i

\* The two tables: entry y from entry 2 * y, and entry 2 * y + 1 from entry 2 * y.
LEMMA TableBytes ==
    \A n \in 1 .. 256 : aucCRCLo[n] \in Byte /\ aucCRCHi[n] \in Byte
<1>1. \A n \in 1 .. 256 : aucCRCLo[n] \in Byte
  BY DEF aucCRCLo, Byte
<1>2. \A n \in 1 .. 256 : aucCRCHi[n] \in Byte
  BY DEF aucCRCHi, Byte
<1>3. QED
  BY <1>1, <1>2

LEMMA TableInjective ==
    ASSUME NEW m \in 1 .. 256, NEW n \in 1 .. 256, aucCRCLo[m] = aucCRCLo[n]
    PROVE  m = n
<1>1. CASE m \in 1 .. 64
  BY <1>1, SMTT(60) DEF aucCRCLo
<1>2. CASE m \in 65 .. 128
  BY <1>2, SMTT(60) DEF aucCRCLo
<1>3. CASE m \in 129 .. 192
  BY <1>3, SMTT(60) DEF aucCRCLo
<1>4. CASE m \in 193 .. 256
  BY <1>4, SMTT(60) DEF aucCRCLo
<1>5. QED
  BY <1>1, <1>2, <1>3, <1>4

LEMMA TableEntries ==
    /\ aucCRCLo[1] = 0 /\ aucCRCHi[1] = 0
    /\ aucCRCLo[2] = 192 /\ aucCRCHi[2] = 193
    /\ aucCRCLo[129] = 160 /\ aucCRCHi[129] = 1
<1>1. aucCRCLo[1] = 0 /\ aucCRCLo[2] = 192 /\ aucCRCLo[129] = 160
  BY DEF aucCRCLo
<1>2. aucCRCHi[1] = 0 /\ aucCRCHi[2] = 193 /\ aucCRCHi[129] = 1
  BY DEF aucCRCHi
<1>3. QED
  BY <1>1, <1>2

LEMMA TableEven ==
    \A y \in 0 .. 127 : aucCRCHi[2 * y + 1] % 2 = 0 =>
      /\ aucCRCLo[y + 1] = aucCRCLo[2 * y + 1] \div 2
      /\ aucCRCHi[y + 1] = 128 * (aucCRCLo[2 * y + 1] % 2) + aucCRCHi[2 * y + 1] \div 2
<1>1. \A y \in 0 .. 127 : aucCRCHi[2 * y + 1] % 2 = 0 =>
        aucCRCLo[y + 1] = aucCRCLo[2 * y + 1] \div 2
  BY DEF aucCRCLo, aucCRCHi
<1>2. \A y \in 0 .. 127 : aucCRCHi[2 * y + 1] % 2 = 0 =>
        aucCRCHi[y + 1] = 128 * (aucCRCLo[2 * y + 1] % 2) + aucCRCHi[2 * y + 1] \div 2
  BY DEF aucCRCLo, aucCRCHi
<1>3. QED
  BY <1>1, <1>2

LEMMA TableOdd ==
    \A y \in 0 .. 127 : aucCRCHi[2 * y + 1] % 2 = 1 =>
      /\ aucCRCLo[y + 1] = Flip160(aucCRCLo[2 * y + 1] \div 2)
      /\ aucCRCHi[y + 1] =
           FlipLow(128 * (aucCRCLo[2 * y + 1] % 2) + aucCRCHi[2 * y + 1] \div 2)
<1>1. \A y \in 0 .. 127 : aucCRCHi[2 * y + 1] % 2 = 1 =>
        aucCRCLo[y + 1] = Flip160(aucCRCLo[2 * y + 1] \div 2)
  BY DEF aucCRCLo, aucCRCHi, Flip160
<1>2. \A y \in 0 .. 127 : aucCRCHi[2 * y + 1] % 2 = 1 =>
        aucCRCHi[y + 1] =
          FlipLow(128 * (aucCRCLo[2 * y + 1] % 2) + aucCRCHi[2 * y + 1] \div 2)
  BY DEF aucCRCLo, aucCRCHi, FlipLow
<1>3. QED
  BY <1>1, <1>2

LEMMA TableNext ==
    \A y \in 0 .. 127 : /\ aucCRCLo[2 * y + 2] = Flip192(aucCRCLo[2 * y + 1])
                        /\ aucCRCHi[2 * y + 2] = Flip193(aucCRCHi[2 * y + 1])
<1>1. \A y \in 0 .. 127 : aucCRCLo[2 * y + 2] = Flip192(aucCRCLo[2 * y + 1])
  BY DEF aucCRCLo, Flip192
<1>2. \A y \in 0 .. 127 : aucCRCHi[2 * y + 2] = Flip193(aucCRCHi[2 * y + 1])
  BY DEF aucCRCHi, Flip193, FlipLow
<1>3. QED
  BY <1>1, <1>2

TableWord(x) == 256 * aucCRCLo[x + 1] + aucCRCHi[x + 1]

LEMMA TableWords ==
    ASSUME NEW x \in Byte
    PROVE  /\ TableWord(x) \in Word
           /\ aucCRCLo[x + 1] \in Byte /\ aucCRCHi[x + 1] \in Byte
<1>1. x + 1 \in 1 .. 256
  BY DEF Byte
<1>2. aucCRCLo[x + 1] \in Byte /\ aucCRCHi[x + 1] \in Byte
  BY <1>1, TableBytes
<1>3. TableWord(x) \in Word
  <2>1. \A h, l \in Byte : 256 * h + l \in Word
    BY BytesOfWord
  <2>2. QED
    BY <1>2, <2>1 DEF TableWord
<1>4. QED
  BY <1>2, <1>3

LEMMA XorPolynomial ==
    ASSUME NEW g \in 0 .. 127, NEW k \in Byte
    PROVE  Xor(256 * g + k, 40961) = 256 * Flip160(g) + FlipLow(k)
<1>1. /\ g \in Byte /\ 160 \in Byte /\ k \in Nat /\ k < 256 /\ 1 \in Nat /\ 1 < 256
      /\ 256 \in {2, 32, 64, 256}
  BY WordsBelow DEF Byte
<1>2. Xor(256 * g + k, 256 * 160 + 1) = 256 * Xor(g, 160) + Xor(k, 1)
  BY <1>1, XorParts
<1>3. QED
  BY <1>2, Polynomial, XorHigh, XorOne

\* Entry y is entry 2 * y, shifted.
LEMMA TableShifts ==
    ASSUME NEW y \in 0 .. 127
    PROVE  TableWord(y) = ShiftBit(TableWord(2 * y))
<1> DEFINE l == aucCRCLo[2 * y + 1]
           h == aucCRCHi[2 * y + 1]
           g == l \div 2
           k == 128 * (l % 2) + h \div 2
           w == TableWord(2 * y)
<1>1. 2 * y + 1 \in 1 .. 256
  BY SMTT(40)
<1>2. l \in 0 .. 255 /\ h \in 0 .. 255
  BY <1>1, TableBytes, Zenon DEF Byte
<1>3. w = 256 * l + h
  BY DEF TableWord
<1>4. TableWord(y) = 256 * aucCRCLo[y + 1] + aucCRCHi[y + 1]
  BY DEF TableWord
<1>5. h % 2 = 0 => aucCRCLo[y + 1] = g /\ aucCRCHi[y + 1] = k
  BY TableEven
<1>6. h % 2 = 1 => aucCRCLo[y + 1] = Flip160(g) /\ aucCRCHi[y + 1] = FlipLow(k)
  BY TableOdd
<1> HIDE DEF l, h, w
<1>7. g \in 0 .. 127 /\ k \in 0 .. 255 /\ h % 2 \in {0, 1}
  BY <1>2
<1>8. w % 2 = h % 2 /\ w \div 2 = 256 * g + k
  BY <1>2, <1>3
<1> HIDE DEF g, k
<1>9. k \in Byte
  BY <1>7 DEF Byte
<1>10. Xor(256 * g + k, 40961) = 256 * Flip160(g) + FlipLow(k)
  BY <1>7, <1>9, XorPolynomial, SMTT(40)
<1>11. CASE h % 2 = 0
  BY <1>4, <1>5, <1>8, <1>11 DEF ShiftBit, w
<1>12. CASE h % 2 = 1
  <2>1. ShiftBit(w) = Xor(w \div 2, 40961)
    BY <1>8, <1>12 DEF ShiftBit
  <2>2. QED
    BY <1>4, <1>6, <1>8, <1>10, <1>12, <2>1 DEF w
<1>13. QED
  BY <1>7, <1>11, <1>12

\* Whether the bit that was shifted out was set shows in the highest bit.
LEMMA ShiftInjective ==
    ASSUME NEW a \in Word, NEW b \in Word, ShiftBit(a) = ShiftBit(b)
    PROVE  a = b
<1>1. ASSUME NEW w \in Word
      PROVE  /\ w \div 2 \in Word /\ w \div 2 \in Nat /\ w \div 2 < 256 * 128
             /\ Xor(w \div 2, 40961) >= 256 * 128
  <2> DEFINE v == w \div 2
             g == v \div 256
             k == v % 256
  <2>1. /\ w \in Nat /\ w < U16_MAX + 1 /\ U16_MAX + 1 = 2 * (256 * 128) /\ v \in Word
    BY WordsBelow, Halves DEF U16_MAX
  <2>2. v \in Nat /\ v < 256 * 128
    BY <2>1
  <2> HIDE DEF v
  <2>3. g \in 0 .. 127 /\ k \in 0 .. 255 /\ v = 256 * g + k
    BY <2>2
  <2> HIDE DEF g, k
  <2>4. k \in Byte
    BY <2>3 DEF Byte
  <2>5. Xor(v, 40961) = 256 * Flip160(g) + FlipLow(k)
    BY <2>3, <2>4, XorPolynomial
  <2>6. Flip160(g) \in Nat /\ Flip160(g) >= 128
    BY <2>3 DEF Flip160
  <2>7. FlipLow(k) \in Nat
    BY <2>3 DEF FlipLow
  <2>8. Xor(v, 40961) >= 256 * 128
    BY <2>5, <2>6, <2>7
  <2>9. QED
    BY <2>1, <2>2, <2>8 DEF v
<1> DEFINE p == 40961
<1>2. \A w : ShiftBit(w) = IF w % 2 = 1 THEN Xor(w \div 2, p) ELSE w \div 2
  BY DEF ShiftBit
<1>3. p \in Word /\ \A w \in Word : Xor(w \div 2, p) >= 256 * 128
  BY <1>1, Polynomial
<1> HIDE DEF p
<1>4. /\ a \in Nat /\ b \in Nat /\ a \div 2 \in Word /\ b \div 2 \in Word
      /\ a \div 2 < 256 * 128 /\ b \div 2 < 256 * 128
  BY <1>1, Halves
<1>5. Xor(a \div 2, p) >= 256 * 128 /\ Xor(b \div 2, p) >= 256 * 128
  BY <1>3
<1>6. a % 2 = b % 2 /\ a \div 2 = b \div 2
  <2>1. CASE a % 2 = 1 /\ b % 2 = 1
    BY <1>2, <1>3, <1>4, <2>1, XorInjective
  <2>2. CASE a % 2 # 1 /\ b % 2 # 1
    BY <1>2, <1>4, <2>2
  <2>3. a \div 2 # Xor(b \div 2, p) /\ b \div 2 # Xor(a \div 2, p)
    BY <1>4, <1>5
  <2>4. (a % 2 = 1) <=> (b % 2 = 1)
    BY <1>2, <2>3
  <2>5. QED
    BY <1>4, <2>1, <2>2, <2>4
<1>7. QED
  BY <1>4, <1>6

-----------------------------------------------------------------------------
(* The entries are eight shifts *)

LEMMA ShiftUp ==
    ASSUME NEW w \in Nat
    PROVE  ShiftBit(2 * w) = w
<1>1. (2 * w) % 2 = 0 /\ (2 * w) \div 2 = w
  OBVIOUS
<1>2. QED
  BY <1>1 DEF ShiftBit

LEMMA ShiftsOfShift ==
    ASSUME NEW w
    PROVE  EightShifts(ShiftBit(w)) = ShiftBit(EightShifts(w))
BY Zenon DEF EightShifts

\* From an entry to the one of half its number, and back.
LEMMA HalfEntry ==
    ASSUME NEW y \in 0 .. 127
    PROVE  EightShifts(y) = TableWord(y) <=> EightShifts(2 * y) = TableWord(2 * y)
<1>1. y \in Nat /\ 2 * y \in Byte
  BY DEF Byte
<1>2. 2 * y \in Word
  BY <1>1, WordsBelow
<1>3. EightShifts(y) = ShiftBit(EightShifts(2 * y))
  BY <1>1, ShiftUp, ShiftsOfShift
<1>4. TableWord(y) = ShiftBit(TableWord(2 * y))
  BY TableShifts
<1>5. EightShifts(2 * y) \in Word /\ TableWord(2 * y) \in Word
  BY <1>1, <1>2, EightBounded, TableWords
<1>6. QED
  BY <1>3, <1>4, <1>5, ShiftInjective

LEMMA FirstEntries ==
    EightShifts(0) = TableWord(0) /\ EightShifts(1) = TableWord(1)
<1>1. EightShifts(128) = TableWord(128)
  <2>1. /\ ShiftBit(128) = 64 /\ ShiftBit(64) = 32 /\ ShiftBit(32) = 16 /\ ShiftBit(16) = 8
        /\ ShiftBit(8) = 4 /\ ShiftBit(4) = 2 /\ ShiftBit(2) = 1
    BY DEF ShiftBit
  <2>2. ShiftBit(1) = Xor(0, 40961)
    BY DEF ShiftBit
  <2>3. Xor(0, 40961) = 40961
    BY Polynomial, XorZero
  <2>4. EightShifts(128) = 40961
    BY <2>1, <2>2, <2>3 DEF EightShifts
  <2>5. TableWord(128) = 256 * 160 + 1
    BY TableEntries DEF TableWord
  <2>6. QED
    BY <2>4, <2>5, Polynomial
<1> DEFINE P(y) == EightShifts(y) = TableWord(y)
<1>2. \A y \in 0 .. 127 : P(2 * y) => P(y)
  BY HalfEntry
<1> HIDE DEF P
<1>3. P(64) BY <1>1, <1>2 DEF P
<1>4. P(32) BY <1>2, <1>3
<1>5. P(16) BY <1>2, <1>4
<1>6. P(8) BY <1>2, <1>5
<1>7. P(4) BY <1>2, <1>6
<1>8. P(2) BY <1>2, <1>7
<1>9. P(1) BY <1>2, <1>8
<1>10. P(0)
  <2>1. EightShifts(0) = 0
    <3>1. ShiftBit(0) = 0
      BY DEF ShiftBit
    <3>2. QED
      BY <3>1 DEF EightShifts
  <2>2. TableWord(0) = 0
    BY TableEntries DEF TableWord
  <2>3. QED
    BY <2>1, <2>2 DEF P
<1>11. QED
  BY <1>9, <1>10 DEF P

LEMMA NextEntry ==
    ASSUME NEW y \in 0 .. 127, EightShifts(2 * y) = TableWord(2 * y)
    PROVE  EightShifts(2 * y + 1) = TableWord(2 * y + 1)
<1> DEFINE l == aucCRCLo[2 * y + 1]
           h == aucCRCHi[2 * y + 1]
<1>1. y \in Byte /\ 2 * y \in Byte /\ 0 \in Byte /\ 2 * y + 0 = 2 * y /\ 2 * 0 + 1 = 1
  BY DEF Byte
<1>2. 2 * y \in Word /\ 1 \in Word /\ y \in Word
  BY <1>1, WordsBelow DEF Byte
<1>3. Xor(2 * y, 1) = 2 * y + 1
  <2>1. Xor(2 * y + 0, 2 * 0 + 1) = 2 * Xor(y, 0) + Xor(0, 1)
    BY <1>1, XorParts
  <2>2. Xor(y, 0) = y /\ Xor(0, 1) = 1
    BY <1>2, XorZero
  <2>3. QED
    BY <1>1, <2>1, <2>2
<1>4. EightShifts(2 * y + 1) = Xor(EightShifts(2 * y), EightShifts(1))
  BY <1>2, <1>3, EightLinear
<1>5. TableWord(2 * y) = 256 * l + h /\ TableWord(1) = 256 * 192 + 193
  <2>1. TableWord(2 * y) = 256 * l + h
    BY DEF TableWord
  <2>2. TableWord(1) = 256 * 192 + 193
    BY TableEntries DEF TableWord
  <2>3. QED
    BY <2>1, <2>2
<1>6. /\ l \in Byte /\ h \in Byte /\ h \in Nat /\ h < 256
      /\ 192 \in Byte /\ 193 \in Nat /\ 193 < 256
      /\ 256 \in {2, 32, 64, 256}
  <2>1. l \in Byte /\ h \in Byte
    BY <1>1, TableWords
  <2>2. QED
    BY <2>1, WordsBelow DEF Byte
<1>7. TableWord(2 * y + 1) = 256 * aucCRCLo[2 * y + 2] + aucCRCHi[2 * y + 2]
  <2>1. (2 * y + 1) + 1 = 2 * y + 2
    OBVIOUS
  <2>2. QED
    BY <2>1 DEF TableWord
<1>8. aucCRCLo[2 * y + 2] = Flip192(l) /\ aucCRCHi[2 * y + 2] = Flip193(h)
  BY TableNext
<1> HIDE DEF l, h
<1>9. Xor(256 * l + h, 256 * 192 + 193) = 256 * Xor(l, 192) + Xor(h, 193)
  BY <1>6, XorParts
<1>10. Xor(l, 192) = Flip192(l) /\ Xor(h, 193) = Flip193(h)
  BY <1>6, XorSecond
<1>11. EightShifts(1) = TableWord(1)
  BY FirstEntries
<1>12. QED
  BY <1>4, <1>5, <1>7, <1>8, <1>9, <1>10, <1>11

LEMMA Entries ==
    \A x \in Byte : EightShifts(x) = TableWord(x)
<1> DEFINE S == {n \in Nat : \A x \in Byte : x <= n => EightShifts(x) = TableWord(x)}
<1>1. 0 \in S
  <2>1. \A x \in Byte : x <= 0 => x = 0
    BY DEF Byte
  <2>2. QED
    BY <2>1, FirstEntries
<1>2. ASSUME NEW n \in Nat, n \in S
      PROVE  n + 1 \in S
  <2>1. \A x \in Byte : x <= n => EightShifts(x) = TableWord(x)
    BY <1>2
  <2>2. ASSUME n + 1 \in Byte
        PROVE  EightShifts(n + 1) = TableWord(n + 1)
    <3>1. n + 1 <= 255
      BY <2>2 DEF Byte
    <3>2. CASE (n + 1) % 2 = 0
      <4> DEFINE y == (n + 1) \div 2
      <4>1. y \in 0 .. 127 /\ y <= n /\ 2 * y = n + 1 /\ y \in Byte
        BY <3>1, <3>2 DEF Byte
      <4> HIDE DEF y
      <4>2. EightShifts(y) = TableWord(y)
        BY <2>1, <4>1
      <4>3. QED
        BY <4>1, <4>2, HalfEntry
    <3>3. CASE (n + 1) % 2 = 1
      <4> DEFINE y == n \div 2
      <4>1. y \in 0 .. 127 /\ 2 * y = n /\ 2 * y \in Byte /\ 2 * y + 1 = n + 1
        BY <3>1, <3>3 DEF Byte
      <4> HIDE DEF y
      <4>2. EightShifts(2 * y) = TableWord(2 * y)
        BY <2>1, <4>1
      <4>3. QED
        BY <4>1, <4>2, NextEntry
    <3>4. (n + 1) % 2 \in {0, 1}
      OBVIOUS
    <3>5. QED
      BY <3>2, <3>3, <3>4
  <2>3. \A x \in Byte : x <= n + 1 => x <= n \/ x = n + 1
    BY DEF Byte
  <2>4. QED
    BY <2>1, <2>2, <2>3
<1> HIDE DEF S
<1>3. 255 \in S
  BY <1>1, <1>2, Induction
<1>4. \A x \in Byte : x <= 255
  BY DEF Byte
<1>5. QED
  BY <1>3, <1>4 DEF S

\* A high byte comes down as it is.
LEMMA ShiftsOfHigh ==
    ASSUME NEW h \in Byte
    PROVE  EightShifts(256 * h) = h
<1> DEFINE a == 2 * h
           b == 2 * a
           c == 2 * b
           d == 2 * c
           e == 2 * d
           f == 2 * e
           g == 2 * f
<1>1. /\ h \in Nat /\ a \in Nat /\ b \in Nat /\ c \in Nat /\ d \in Nat /\ e \in Nat
      /\ f \in Nat /\ g \in Nat /\ 256 * h = 2 * g
  BY DEF Byte
<1>2. /\ ShiftBit(2 * g) = g /\ ShiftBit(g) = f /\ ShiftBit(f) = e /\ ShiftBit(e) = d
      /\ ShiftBit(d) = c /\ ShiftBit(c) = b /\ ShiftBit(b) = a /\ ShiftBit(a) = h
  BY <1>1, ShiftUp
<1> HIDE DEF a, b, c, d, e, f, g
<1>3. EightShifts(2 * g) = h
  BY <1>2 DEF EightShifts
<1>4. QED
  BY <1>1, <1>3

\* Words of bytes, byte by byte.
LEMMA XorBytes ==
    \A g \in Byte, h \in Byte, k \in Byte, l \in Byte :
      Xor(256 * g + k, 256 * h + l) = 256 * Xor(g, h) + Xor(k, l)
<1> TAKE g \in Byte, h \in Byte, k \in Byte, l \in Byte
<1>1. k \in Nat /\ l \in Nat /\ k < 256 /\ l < 256 /\ 256 \in {2, 32, 64, 256}
  BY DEF Byte
<1>2. QED
  BY <1>1, XorParts

\* The table does what eight shifts do.
LEMMA LookUpIsShift ==
    ASSUME NEW crc \in Word, NEW byte \in Byte
    PROVE  LookUpByte(crc, byte) = ShiftByte(crc, byte)
<1> DEFINE h == crc \div 256
           l == Xor(crc % 256, byte)
           u == aucCRCLo[l + 1]
           v == aucCRCHi[l + 1]
<1>1. /\ h \in Byte /\ crc % 256 \in Byte /\ crc = 256 * h + (crc % 256)
      /\ l \in Byte /\ h \in Word /\ l \in Word /\ byte \in Word
      /\ 0 \in Byte /\ 256 \in {2, 32, 64, 256}
  <2>1. h \in Byte /\ crc % 256 \in Byte /\ crc = 256 * h + (crc % 256)
    BY BytesOfWord
  <2>2. l \in Byte
    BY <2>1, XorBounded
  <2>3. h \in Word /\ l \in Word /\ byte \in Word
    BY <2>1, <2>2, WordsBelow
  <2>4. 0 \in Byte /\ 256 \in {2, 32, 64, 256}
    BY DEF Byte
  <2> HIDE DEF h, l
  <2>5. QED
    BY <2>1, <2>2, <2>3, <2>4
<1>2. LookUpByte(crc, byte) = 256 * u + Xor(h, v)
  BY Zenon DEF LookUpByte
<1>3. u \in Byte /\ v \in Byte /\ TableWord(l) = 256 * u + v /\ TableWord(l) \in Word
  BY <1>1, TableWords DEF TableWord
<1> HIDE DEF h, l, u, v
<1>4. \A i \in Byte : i \in Nat /\ i < 256 /\ 256 * 0 + i = i /\ 256 * i + 0 = 256 * i
  BY WordsBelow
<1>5. 256 * h \in Word
  <2>1. 256 * h + 0 \in Word
    BY <1>1, BytesOfWord
  <2>2. QED
    BY <1>1, <1>4, <2>1
<1>6. Xor(crc, byte) = 256 * h + l
  <2>1. Xor(256 * h + (crc % 256), 256 * 0 + byte) = 256 * Xor(h, 0) + Xor(crc % 256, byte)
    BY <1>1, XorBytes
  <2>2. Xor(h, 0) = h
    BY <1>1, XorZero
  <2>3. QED
    BY <1>1, <1>4, <2>1, <2>2 DEF l
<1>7. Xor(256 * h, l) = 256 * h + l
  <2>1. Xor(256 * h + 0, 256 * 0 + l) = 256 * Xor(h, 0) + Xor(0, l)
    BY <1>1, XorBytes
  <2>2. Xor(h, 0) = h /\ Xor(0, l) = l
    BY <1>1, XorZero
  <2>3. QED
    BY <1>1, <1>4, <2>1, <2>2
<1>8. ShiftByte(crc, byte) = Xor(EightShifts(256 * h), EightShifts(l))
  BY <1>1, <1>5, <1>6, <1>7, ShiftByteIs, EightLinear
<1>9. ShiftByte(crc, byte) = Xor(h, 256 * u + v)
  BY <1>1, <1>3, <1>8, ShiftsOfHigh, Entries
<1>10. Xor(256 * 0 + h, 256 * u + v) = 256 * Xor(0, u) + Xor(h, v)
  BY <1>1, <1>3, XorBytes
<1>11. Xor(0, u) = u
  BY <1>3, XorZero, WordsBelow
<1>12. QED
  BY <1>1, <1>2, <1>4, <1>9, <1>10, <1>11

-----------------------------------------------------------------------------
(* Two checksums, one function *)

\* One byte, by the table.
TableStep == [crc \in Word |-> [byte \in Byte |-> LookUpByte(crc, byte)]]

\* The link layer's checksum by tables (mbcrc.c:83-97) and the library's by shifts
\* (base.impl.h:125-145) are one function: what the one signs the other accepts.
THEOREM ChecksumsAgree == \A f : usMBCRC16(f) = modbusCRC(f)
<1>1. [crc \in Word |-> [byte \in Byte |-> ShiftByte(crc, byte)]] = TableStep
  BY LookUpIsShift DEF TableStep
<1> DEFINE shifts == [crc \in Word |-> [byte \in Byte |-> ShiftByte(crc, byte)]]
<1>2. ASSUME NEW f
      PROVE  usMBCRC16(f) = modbusCRC(f)
  <2>1. modbusCRC(f) = FoldBytes(shifts, U16_MAX, f)
    BY Zenon DEF modbusCRC
  <2>2. usMBCRC16(f) = FoldBytes(TableStep, U16_MAX, f)
    BY Zenon DEF usMBCRC16, TableStep
  <2> HIDE DEF shifts
  <2>3. shifts = TableStep
    BY <1>1 DEF shifts
  <2>4. QED
    BY <2>1, <2>2, <2>3
<1>3. QED
  BY <1>2

\* The two bytes a table entry is made of, at the place the low byte selects.
LEMMA LookUpParts ==
    ASSUME NEW crc \in Word, NEW byte \in Byte
    PROVE  \E x \in Byte :
             /\ x = Xor(crc % 256, byte)
             /\ crc % 256 \in Byte /\ crc \div 256 \in Byte
             /\ LookUpByte(crc, byte) \in Word
             /\ LookUpByte(crc, byte) \div 256 = aucCRCLo[x + 1]
             /\ LookUpByte(crc, byte) % 256 = Xor(crc \div 256, aucCRCHi[x + 1])
<1> DEFINE x == Xor(crc % 256, byte)
           u == aucCRCLo[x + 1]
           v == Xor(crc \div 256, aucCRCHi[x + 1])
<1>1. crc % 256 \in Byte /\ crc \div 256 \in Byte
  BY BytesOfWord
<1>2. x \in Byte
  BY <1>1, XorBounded
<1>3. u \in Byte /\ v \in Byte
  BY <1>1, <1>2, TableWords, XorBounded
<1>4. LookUpByte(crc, byte) = 256 * u + v
  BY Zenon DEF LookUpByte
<1> HIDE DEF u, v
<1>5. /\ LookUpByte(crc, byte) \in Word
      /\ LookUpByte(crc, byte) \div 256 = u /\ LookUpByte(crc, byte) % 256 = v
  BY <1>3, <1>4, BytesOfWord
<1>6. QED
  BY <1>1, <1>2, <1>5, ZenonT(60) DEF u, v

LEMMA LookUpBounded ==
    \A crc \in Word, byte \in Byte : LookUpByte(crc, byte) \in Word
BY LookUpParts

LEMMA SameEntry ==
    ASSUME NEW x \in Byte, NEW y \in Byte, aucCRCLo[x + 1] = aucCRCLo[y + 1]
    PROVE  x = y
<1>1. x \in Nat /\ y \in Nat /\ x + 1 \in 1 .. 256 /\ y + 1 \in 1 .. 256
  BY DEF Byte
<1>2. x + 1 = y + 1
  BY <1>1, TableInjective, Zenon
<1>3. QED
  BY <1>1, <1>2

\* Checksums that differ stay different whatever byte follows.
LEMMA StaysApart ==
    ASSUME NEW c \in Word, NEW d \in Word, NEW byte \in Byte,
           LookUpByte(c, byte) = LookUpByte(d, byte)
    PROVE  c = d
<1>1. PICK x \in Byte :
        /\ x = Xor(c % 256, byte)
        /\ c % 256 \in Byte /\ c \div 256 \in Byte
        /\ LookUpByte(c, byte) \div 256 = aucCRCLo[x + 1]
        /\ LookUpByte(c, byte) % 256 = Xor(c \div 256, aucCRCHi[x + 1])
  BY LookUpParts
<1>2. PICK y \in Byte :
        /\ y = Xor(d % 256, byte)
        /\ d % 256 \in Byte /\ d \div 256 \in Byte
        /\ LookUpByte(d, byte) \div 256 = aucCRCLo[y + 1]
        /\ LookUpByte(d, byte) % 256 = Xor(d \div 256, aucCRCHi[y + 1])
  BY LookUpParts
<1>3. x = y
  BY <1>1, <1>2, SameEntry
<1>4. /\ c % 256 \in Word /\ d % 256 \in Word /\ c \div 256 \in Word /\ d \div 256 \in Word
      /\ byte \in Word /\ aucCRCHi[x + 1] \in Word
  BY <1>1, <1>2, WordsBelow, TableWords
<1>5. c % 256 = d % 256 /\ c \div 256 = d \div 256
  BY <1>1, <1>2, <1>3, <1>4, XorInjective
<1>6. c = 256 * (c \div 256) + (c % 256) /\ d = 256 * (d \div 256) + (d % 256)
  BY BytesOfWord
<1>7. QED
  BY <1>5, <1>6

\* Two bytes that follow each other are known from the checksum after them.
LEMMA TwoSteps ==
    ASSUME NEW c \in Word, NEW a \in Byte, NEW b \in Byte, NEW i \in Byte, NEW j \in Byte,
           LookUpByte(LookUpByte(c, a), b) = LookUpByte(LookUpByte(c, i), j)
    PROVE  a = i /\ b = j
<1> DEFINE d == LookUpByte(c, a)
           e == LookUpByte(c, i)
<1>1. PICK x \in Byte :
        /\ x = Xor(c % 256, a) /\ c % 256 \in Byte /\ c \div 256 \in Byte
        /\ d \in Word /\ d \div 256 = aucCRCLo[x + 1]
        /\ d % 256 = Xor(c \div 256, aucCRCHi[x + 1])
  BY LookUpParts
<1>2. PICK y \in Byte :
        /\ y = Xor(c % 256, i)
        /\ e \in Word /\ e \div 256 = aucCRCLo[y + 1]
        /\ e % 256 = Xor(c \div 256, aucCRCHi[y + 1])
  BY LookUpParts
<1> HIDE DEF d, e
<1>3. PICK z \in Byte :
        /\ z = Xor(d % 256, b) /\ d % 256 \in Byte /\ d \div 256 \in Byte
        /\ LookUpByte(d, b) \div 256 = aucCRCLo[z + 1]
        /\ LookUpByte(d, b) % 256 = Xor(d \div 256, aucCRCHi[z + 1])
  BY <1>1, LookUpParts
<1>4. PICK w \in Byte :
        /\ w = Xor(e % 256, j) /\ e % 256 \in Byte /\ e \div 256 \in Byte
        /\ LookUpByte(e, j) \div 256 = aucCRCLo[w + 1]
        /\ LookUpByte(e, j) % 256 = Xor(e \div 256, aucCRCHi[w + 1])
  BY <1>2, LookUpParts
<1>5. LookUpByte(d, b) = LookUpByte(e, j)
  BY DEF d, e
<1>6. z = w
  BY <1>3, <1>4, <1>5, SameEntry
<1>7. d \div 256 \in Word /\ e \div 256 \in Word /\ aucCRCHi[z + 1] \in Word
  BY <1>3, <1>4, WordsBelow, TableWords
<1>8. d \div 256 = e \div 256
  BY <1>3, <1>4, <1>5, <1>6, <1>7, XorInjective
<1>9. x = y
  BY <1>1, <1>2, <1>8, SameEntry
<1>10. a \in Word /\ i \in Word /\ c % 256 \in Word /\ b \in Word /\ j \in Word
       /\ d % 256 \in Word
  BY <1>1, <1>3, WordsBelow
<1>11. a = i
  BY <1>1, <1>2, <1>9, <1>10, XorInjective
<1>12. d % 256 = e % 256
  BY <1>1, <1>2, <1>9
<1>13. b = j
  BY <1>3, <1>4, <1>6, <1>10, <1>12, XorInjective
<1>14. QED
  BY <1>11, <1>13

\* The checksum of what is followed by its own checksum, the low byte first, is 0.
LEMMA Residue ==
    ASSUME NEW c \in Word
    PROVE  LookUpByte(LookUpByte(c, c % 256), c \div 256) = 0
<1>1. /\ c % 256 \in Byte /\ c \div 256 \in Byte /\ c % 256 \in Word /\ c \div 256 \in Word
      /\ 0 \in Byte /\ 0 \in Word
  <2>1. c % 256 \in Byte /\ c \div 256 \in Byte
    BY BytesOfWord
  <2>2. 0 \in Byte
    BY DEF Byte
  <2>3. QED
    BY <2>1, <2>2, WordsBelow, Zenon
<1>2. \A d \in Word, b \in Byte :
        d % 256 = b => LookUpByte(d, b) = d \div 256
  <2> TAKE d \in Word, b \in Byte
  <2> HAVE d % 256 = b
  <2>1. PICK x \in Byte :
          /\ x = Xor(d % 256, b) /\ d \div 256 \in Byte
          /\ LookUpByte(d, b) \in Word
          /\ LookUpByte(d, b) \div 256 = aucCRCLo[x + 1]
          /\ LookUpByte(d, b) % 256 = Xor(d \div 256, aucCRCHi[x + 1])
    BY LookUpParts
  <2>2. x = 0
    BY <2>1, XorSelf, WordsBelow
  <2>3. LookUpByte(d, b) \div 256 = 0 /\ LookUpByte(d, b) % 256 = Xor(d \div 256, 0)
    BY <2>1, <2>2, TableEntries
  <2>4. Xor(d \div 256, 0) = d \div 256 /\ d \div 256 \in Nat
    BY <2>1, XorZero, WordsBelow
  <2>5. LookUpByte(d, b) = 256 * (LookUpByte(d, b) \div 256) + (LookUpByte(d, b) % 256)
    BY <2>1, BytesOfWord
  <2>6. QED
    BY <2>3, <2>4, <2>5
<1>3. LookUpByte(c, c % 256) = c \div 256
  BY <1>1, <1>2
<1>4. (c \div 256) % 256 = c \div 256 /\ (c \div 256) \div 256 = 0
  <2>1. \A h \in Byte : h % 256 = h /\ h \div 256 = 0
    BY DEF Byte
  <2>2. QED
    BY <1>1, <2>1
<1>5. LookUpByte(c \div 256, c \div 256) = (c \div 256) \div 256
  BY <1>1, <1>2, <1>4
<1>6. QED
  BY <1>3, <1>4, <1>5

-----------------------------------------------------------------------------
(* Checksums of frames *)

LEMMA Checksum ==
    ASSUME NEW f \in Seq(Byte)
    PROVE  \E t : IsTrace(t, TableStep, U16_MAX, f) /\ usMBCRC16(f) = t[Len(f)]
<1>1. Stepping(TableStep)
  BY LookUpBounded DEF Stepping, TableStep
<1>2. U16_MAX \in Word
  BY WordsBelow
<1>3. usMBCRC16(f) = FoldBytes(TableStep, U16_MAX, f)
  BY Zenon DEF usMBCRC16, TableStep
<1>4. QED
  BY <1>1, <1>2, <1>3, FoldTraces

\* One byte of a trace.
LEMMA TraceStep ==
    ASSUME NEW f \in Seq(Byte), NEW t, IsTrace(t, TableStep, U16_MAX, f), NEW k \in 1 .. Len(f)
    PROVE  /\ t[k - 1] \in Word /\ t[k] \in Word /\ f[k] \in Byte
           /\ t[k] = LookUpByte(t[k - 1], f[k])
<1>1. Len(f) \in Nat /\ f[k] \in Byte
  OBVIOUS
<1>2. k - 1 \in 0 .. Len(f) /\ k \in 0 .. Len(f)
  BY <1>1
<1>3. t[k - 1] \in Word /\ t[k] \in Word /\ t[k] = TableStep[t[k - 1]][f[k]]
  BY <1>2 DEF IsTrace
<1>4. QED
  BY <1>1, <1>3 DEF TableStep

\* As far as frames are the same, so are their traces.
SameUpTo(f, g, m) == \A k \in 1 .. m : f[k] = g[k]

LEMMA SamePrefix ==
    ASSUME NEW f \in Seq(Byte), NEW t, IsTrace(t, TableStep, U16_MAX, f),
           NEW g \in Seq(Byte), NEW u, IsTrace(u, TableStep, U16_MAX, g),
           NEW m \in Nat, m <= Len(f), m <= Len(g), SameUpTo(f, g, m)
    PROVE  t[m] = u[m]
<1>0. Len(f) \in Nat /\ Len(g) \in Nat
  OBVIOUS
<1> DEFINE S == {n \in Nat : n <= m => t[n] = u[n]}
<1>1. 0 \in S
  BY DEF IsTrace
<1>2. ASSUME NEW n \in Nat, n \in S
      PROVE  n + 1 \in S
  <2>1. SUFFICES ASSUME n + 1 <= m
                 PROVE  t[n + 1] = u[n + 1]
    OBVIOUS
  <2>2. n + 1 \in 1 .. Len(f) /\ n + 1 \in 1 .. Len(g) /\ n + 1 \in 1 .. m /\ (n + 1) - 1 = n
    BY <1>0, <2>1
  <2>3. t[n] = u[n]
    BY <1>2, <2>1
  <2>4. /\ t[n + 1] = LookUpByte(t[n], f[n + 1])
        /\ u[n + 1] = LookUpByte(u[n], g[n + 1])
    BY <2>2, TraceStep
  <2>5. f[n + 1] = g[n + 1]
    BY <2>2 DEF SameUpTo
  <2>6. QED
    BY <2>3, <2>4, <2>5
<1> HIDE DEF S
<1>3. m \in S
  BY <1>1, <1>2, Induction
<1>4. QED
  BY <1>3 DEF S

\* Once they differ they stay different.
LEMMA SameSuffix ==
    ASSUME NEW f \in Seq(Byte), NEW t, IsTrace(t, TableStep, U16_MAX, f),
           NEW g \in Seq(Byte), NEW u, IsTrace(u, TableStep, U16_MAX, g),
           Len(f) = Len(g), t[Len(f)] = u[Len(f)],
           NEW m \in 0 .. Len(f), \A k \in m + 1 .. Len(f) : f[k] = g[k]
    PROVE  t[m] = u[m]
<1>0. Len(f) \in Nat /\ m \in Nat
  OBVIOUS
<1> DEFINE S == {n \in Nat : m <= Len(f) - n => t[Len(f) - n] = u[Len(f) - n]}
<1>1. 0 \in S
  BY <1>0
<1>2. ASSUME NEW n \in Nat, n \in S
      PROVE  n + 1 \in S
  <2>1. SUFFICES ASSUME m <= Len(f) - (n + 1)
                 PROVE  t[Len(f) - (n + 1)] = u[Len(f) - (n + 1)]
    OBVIOUS
  <2> DEFINE k == Len(f) - n
  <2>2. k \in 1 .. Len(f) /\ k \in 1 .. Len(g) /\ k \in m + 1 .. Len(f)
        /\ k - 1 = Len(f) - (n + 1) /\ m <= k
    BY <1>0, <2>1
  <2>3. t[k] = u[k]
    BY <1>2, <2>2
  <2> HIDE DEF k
  <2>4. /\ t[k - 1] \in Word /\ f[k] \in Byte /\ t[k] = LookUpByte(t[k - 1], f[k])
        /\ u[k - 1] \in Word /\ u[k] = LookUpByte(u[k - 1], g[k])
    BY <2>2, TraceStep
  <2>5. f[k] = g[k]
    BY <2>2
  <2>6. t[k - 1] = u[k - 1]
    BY <2>3, <2>4, <2>5, StaysApart
  <2>7. QED
    BY <2>2, <2>6
<1> HIDE DEF S
<1>3. Len(f) - m \in Nat /\ Len(f) - (Len(f) - m) = m
  BY <1>0
<1>4. Len(f) - m \in S
  BY <1>1, <1>2, <1>3, Induction
<1>5. QED
  BY <1>0, <1>3, <1>4 DEF S

\* A frame is intact if its checksum, its last two bytes included, is 0.
Intact(f) == usMBCRC16(f) = 0

\* This is so if and only if these two are the checksum of the others, the low byte first.
LEMMA IntactFrames ==
    ASSUME NEW f \in Seq(Byte), NEW g \in Seq(Byte), Len(f) = Len(g) + 2,
           SameUpTo(f, g, Len(g))
    PROVE  /\ usMBCRC16(g) \in Word
           /\ Intact(f) <=> /\ f[Len(g) + 1] = usMBCRC16(g) % 256
                            /\ f[Len(g) + 2] = usMBCRC16(g) \div 256
<1> DEFINE n == Len(g)
           c == usMBCRC16(g)
<1>0. n \in Nat
  OBVIOUS
<1>1. PICK t : IsTrace(t, TableStep, U16_MAX, f) /\ usMBCRC16(f) = t[Len(f)]
  BY Checksum
<1>2. PICK u : IsTrace(u, TableStep, U16_MAX, g) /\ c = u[n]
  BY Checksum
<1>3. t[n] = c
  BY <1>0, <1>1, <1>2, SamePrefix
<1>4. c \in Word
  BY <1>0, <1>2 DEF IsTrace
<1>5. /\ n + 1 \in 1 .. Len(f) /\ n + 2 \in 1 .. Len(f)
      /\ (n + 1) - 1 = n /\ (n + 2) - 1 = n + 1 /\ Len(f) = n + 2
  BY <1>0
<1> HIDE DEF c, n
<1>6. /\ f[n + 1] \in Byte /\ f[n + 2] \in Byte
      /\ t[n + 1] = LookUpByte(t[n], f[n + 1]) /\ t[n + 2] = LookUpByte(t[n + 1], f[n + 2])
  <2>1. f[n + 1] \in Byte /\ t[n + 1] = LookUpByte(t[(n + 1) - 1], f[n + 1])
    BY <1>1, <1>5, TraceStep, Zenon
  <2>2. f[n + 2] \in Byte /\ t[n + 2] = LookUpByte(t[(n + 2) - 1], f[n + 2])
    BY <1>1, <1>5, TraceStep, Zenon
  <2>3. QED
    BY <1>5, <2>1, <2>2
<1>7. Intact(f) <=> LookUpByte(LookUpByte(c, f[n + 1]), f[n + 2]) = 0
  BY <1>1, <1>3, <1>5, <1>6 DEF Intact
<1>8. LookUpByte(LookUpByte(c, c % 256), c \div 256) = 0
  BY <1>4, Residue
<1>9. c % 256 \in Byte /\ c \div 256 \in Byte
  BY <1>4, BytesOfWord
<1>10. LookUpByte(LookUpByte(c, f[n + 1]), f[n + 2]) = 0
         => f[n + 1] = c % 256 /\ f[n + 2] = c \div 256
  BY <1>4, <1>6, <1>8, <1>9, TwoSteps
<1>11. QED
  BY <1>4, <1>7, <1>8, <1>10 DEF c, n

\* Frames that differ in one byte, or in two that follow each other, are not both intact.
LEMMA DamageShows ==
    ASSUME NEW f \in Seq(Byte), NEW g \in Seq(Byte), Len(f) = Len(g), f # g,
           NEW n \in 1 .. Len(f) - 1,
           \A k \in 1 .. Len(f) : k \notin {n, n + 1} => f[k] = g[k]
    PROVE  ~(Intact(f) /\ Intact(g))
<1>0. /\ Len(f) \in Nat /\ n \in Nat /\ n - 1 \in Nat /\ n - 1 <= Len(f)
      /\ n \in 1 .. Len(f) /\ n + 1 \in 1 .. Len(f) /\ (n + 1) - 1 = n
      /\ n + 1 \in 0 .. Len(f)
  OBVIOUS
<1>1. SUFFICES ASSUME Intact(f), Intact(g)
               PROVE  FALSE
  OBVIOUS
<1>2. PICK t : IsTrace(t, TableStep, U16_MAX, f) /\ usMBCRC16(f) = t[Len(f)]
  BY Checksum
<1>3. PICK u : IsTrace(u, TableStep, U16_MAX, g) /\ usMBCRC16(g) = u[Len(g)]
  BY Checksum
<1>4. t[n - 1] = u[n - 1]
  <2>1. SameUpTo(f, g, n - 1)
    BY <1>0 DEF SameUpTo
  <2>2. QED
    BY <1>0, <1>2, <1>3, <2>1, SamePrefix
<1>5. t[n + 1] = u[n + 1]
  <2>1. t[Len(f)] = u[Len(f)]
    BY <1>1, <1>2, <1>3 DEF Intact
  <2>2. \A k \in (n + 1) + 1 .. Len(f) : f[k] = g[k]
    BY <1>0
  <2>3. QED
    BY <1>0, <1>2, <1>3, <2>1, <2>2, SameSuffix
<1>6. /\ t[n - 1] \in Word /\ f[n] \in Byte /\ f[n + 1] \in Byte
      /\ t[n] = LookUpByte(t[n - 1], f[n]) /\ t[n + 1] = LookUpByte(t[n], f[n + 1])
  <2>1. /\ t[n - 1] \in Word /\ f[n] \in Byte
        /\ t[n] = LookUpByte(t[n - 1], f[n])
    BY <1>0, <1>2, TraceStep, Zenon
  <2>2. f[n + 1] \in Byte /\ t[n + 1] = LookUpByte(t[(n + 1) - 1], f[n + 1])
    BY <1>0, <1>2, TraceStep, Zenon
  <2>3. QED
    BY <1>0, <2>1, <2>2
<1>7. /\ g[n] \in Byte /\ g[n + 1] \in Byte
      /\ u[n] = LookUpByte(u[n - 1], g[n]) /\ u[n + 1] = LookUpByte(u[n], g[n + 1])
  <2>1. n \in 1 .. Len(g) /\ n + 1 \in 1 .. Len(g)
    BY <1>0
  <2>2. g[n] \in Byte /\ u[n] = LookUpByte(u[n - 1], g[n])
    BY <1>3, <2>1, TraceStep, Zenon
  <2>3. g[n + 1] \in Byte /\ u[n + 1] = LookUpByte(u[(n + 1) - 1], g[n + 1])
    BY <1>3, <2>1, TraceStep, Zenon
  <2>4. QED
    BY <1>0, <2>2, <2>3
<1>8. f[n] = g[n] /\ f[n + 1] = g[n + 1]
  <2>1. LookUpByte(LookUpByte(t[n - 1], f[n]), f[n + 1])
          = LookUpByte(LookUpByte(t[n - 1], g[n]), g[n + 1])
    BY <1>4, <1>5, <1>6, <1>7
  <2>2. QED
    BY <1>6, <1>7, <2>1, TwoSteps
<1>9. \A k \in 1 .. Len(f) : f[k] = g[k]
  BY <1>0, <1>8
<1>10. f = g
  BY <1>9, SeqEqual
<1>11. QED
  BY <1>10

-----------------------------------------------------------------------------
(* Sequences, whatever their elements *)

IsSequence(s) == \E S : s \in Seq(S)

LEMMA SequenceOf ==
    ASSUME NEW n \in Nat, NEW s, s = [k \in 1 .. n |-> s[k]]
    PROVE  IsSequence(s) /\ Len(s) = n
<1> DEFINE S == {s[k] : k \in 1 .. n}
<1>1. s \in [1 .. n -> S]
  OBVIOUS
<1>2. s \in Seq(S) /\ Len(s) = n
  BY <1>1
<1>3. QED
  BY <1>2 DEF IsSequence

LEMMA Lengths ==
    ASSUME NEW s, IsSequence(s)
    PROVE  Len(s) \in Nat /\ DOMAIN s = 1 .. Len(s) /\ s = [k \in 1 .. Len(s) |-> s[k]]
BY LenProperties DEF IsSequence

\* u is s followed by t.
Joins(u, s, t) == IsSequence(s) /\ IsSequence(t) /\ u = s \o t

Concatenation(u, s, t) ==
    /\ Len(s) \in Nat /\ Len(t) \in Nat
    /\ IsSequence(u) /\ Len(u) = Len(s) + Len(t)
    /\ \A n \in 1 .. Len(s) : u[n] = s[n]
    /\ \A n \in 1 .. Len(t) : u[Len(s) + n] = t[n]

LEMMA Joined ==
    ASSUME NEW u, NEW s, NEW t, Joins(u, s, t)
    PROVE  Concatenation(u, s, t)
<1>0. IsSequence(s) /\ IsSequence(t) /\ u = s \o t
  BY DEF Joins
<1>1. PICK S : s \in Seq(S)
  BY <1>0 DEF IsSequence
<1>2. PICK T : t \in Seq(T)
  BY <1>0 DEF IsSequence
<1>3. s \in Seq(S \cup T) /\ t \in Seq(S \cup T)
  BY <1>1, <1>2, SeqMonotonic
<1>4. Len(s) \in Nat /\ Len(t) \in Nat
  BY <1>0, Lengths
<1>5. /\ u \in Seq(S \cup T) /\ Len(u) = Len(s) + Len(t)
      /\ \A i \in 1 .. Len(s) + Len(t) :
           u[i] = IF i <= Len(s) THEN s[i] ELSE t[i - Len(s)]
  BY <1>0, <1>3, ConcatProperties, Zenon
<1>6. \A n \in 1 .. Len(s) : n \in 1 .. Len(s) + Len(t) /\ n <= Len(s)
  BY <1>4
<1>7. \A n \in 1 .. Len(t) : /\ Len(s) + n \in 1 .. Len(s) + Len(t)
                             /\ ~(Len(s) + n <= Len(s)) /\ (Len(s) + n) - Len(s) = n
  BY <1>4
<1>8. QED
  BY <1>4, <1>5, <1>6, <1>7 DEF IsSequence, Concatenation

LEMMA Part ==
    ASSUME NEW s, IsSequence(s), NEW m \in 1 .. Len(s) + 1, NEW n \in m - 1 .. Len(s)
    PROVE  /\ IsSequence(SubSeq(s, m, n)) /\ Len(SubSeq(s, m, n)) = n - m + 1
           /\ \A k \in 1 .. n - m + 1 : SubSeq(s, m, n)[k] = s[m + k - 1]
<1>1. PICK S : s \in Seq(S)
  BY DEF IsSequence
<1>2. Len(s) \in Nat
  BY Lengths
<1>3. m \in Int /\ n \in Int
  BY <1>2
<1>4. \A i \in m .. n : s[i] \in S
  <2>1. m .. n \subseteq 1 .. Len(s)
    BY <1>2
  <2>2. QED
    BY <1>1, <2>1, LenProperties
<1>5. /\ SubSeq(s, m, n) \in Seq(S)
      /\ Len(SubSeq(s, m, n)) = (IF m <= n THEN n - m + 1 ELSE 0)
      /\ \A i \in 1 .. n - m + 1 : SubSeq(s, m, n)[i] = s[m + i - 1]
  BY <1>3, <1>4, SubSeqProperties
<1>6. n - m + 1 = (IF m <= n THEN n - m + 1 ELSE 0)
  BY <1>2
<1>7. QED
  BY <1>5, <1>6 DEF IsSequence

LEMMA Changed ==
    ASSUME NEW s, IsSequence(s), NEW n, NEW x
    PROVE  IsSequence([s EXCEPT ![n] = x])
<1>1. [s EXCEPT ![n] = x] = [k \in 1 .. Len(s) |-> [s EXCEPT ![n] = x][k]]
  BY Lengths
<1>2. QED
  BY <1>1, SequenceOf, Lengths

LEMMA Longer ==
    ASSUME NEW s, IsSequence(s), NEW x
    PROVE  IsSequence(Append(s, x))
<1>1. PICK S : s \in Seq(S)
  BY DEF IsSequence
<1>2. s \in Seq(S \cup {x})
  BY <1>1, SeqMonotonic
<1>3. QED
  BY <1>2, AppendProperties DEF IsSequence

LEMMA Equal ==
    ASSUME NEW s, IsSequence(s), NEW t, IsSequence(t), Len(s) = Len(t),
           \A k \in 1 .. Len(s) : s[k] = t[k]
    PROVE  s = t
<1>1. s = [k \in 1 .. Len(s) |-> s[k]] /\ t = [k \in 1 .. Len(s) |-> t[k]]
  BY Lengths
<1>2. QED
  BY <1>1

LEMMA Single ==
    ASSUME NEW a, NEW s, s = <<a>>
    PROVE  IsSequence(s) /\ Len(s) = 1 /\ s[1] = a
<1>1. s \in Seq({a}) /\ Len(s) = 1 /\ s[1] = a
  OBVIOUS
<1>2. QED
  BY <1>1 DEF IsSequence

LEMMA Pair ==
    ASSUME NEW a, NEW b, NEW s, s = <<a, b>>
    PROVE  IsSequence(s) /\ Len(s) = 2 /\ s[1] = a /\ s[2] = b
<1>1. s \in Seq({a, b}) /\ Len(s) = 2 /\ s[1] = a /\ s[2] = b
  OBVIOUS
<1>2. QED
  BY <1>1 DEF IsSequence

\* The two bytes of a word, the high one first and the low one first.
\* Two items.
AreTwo(s, a, b) == IsSequence(s) /\ Len(s) = 2 /\ s[1] = a /\ s[2] = b

LEMMA HighFirst ==
    ASSUME NEW w
    PROVE  AreTwo(modbusWBE(w), w \div 256, w % 256)
<1>1. \A a, b : AreTwo(<<a, b>>, a, b)
  BY Pair DEF AreTwo
<1>2. modbusWBE(w) = <<w \div 256, w % 256>>
  BY Zenon DEF modbusWBE
<1>3. QED
  BY <1>1, <1>2, Zenon

LEMMA LowFirst ==
    ASSUME NEW w
    PROVE  AreTwo(modbusWLE(w), w % 256, w \div 256)
<1>1. \A a, b : AreTwo(<<a, b>>, a, b)
  BY Pair DEF AreTwo
<1>2. modbusWLE(w) = <<w % 256, w \div 256>>
  BY Zenon DEF modbusWLE
<1>3. QED
  BY <1>1, <1>2, Zenon

LEMMA TwoBytes ==
    ASSUME NEW w
    PROVE  /\ IsSequence(modbusWBE(w)) /\ Len(modbusWBE(w)) = 2
           /\ modbusWBE(w)[1] = w \div 256 /\ modbusWBE(w)[2] = w % 256
           /\ IsSequence(modbusWLE(w)) /\ Len(modbusWLE(w)) = 2
<1> DEFINE high == w \div 256
           low == w % 256
<1>1. modbusWBE(w) = <<high, low>> /\ modbusWLE(w) = <<low, high>>
  BY Zenon DEF modbusWBE, modbusWLE
<1> HIDE DEF high, low
<1>2. /\ IsSequence(modbusWBE(w)) /\ Len(modbusWBE(w)) = 2
      /\ modbusWBE(w)[1] = high /\ modbusWBE(w)[2] = low
  BY <1>1, Pair
<1>3. IsSequence(modbusWLE(w)) /\ Len(modbusWLE(w)) = 2
  BY <1>1, Pair
<1>4. QED
  BY <1>2, <1>3, Zenon DEF high, low

\* f is the PDU with an address before it and two bytes after it.
IsFrameOf(f, a, pdu) ==
    \E crc : IsSequence(crc) /\ Len(crc) = 2 /\ f = <<a>> \o pdu \o crc

\* The PDU is found in its frame.
Holds(f, pdu) ==
    IsSequence(f) /\ Len(f) = Len(pdu) + 3 /\ SubSeq(f, 2, Len(f) - 2) = pdu

LEMMA Framed ==
    ASSUME NEW a, NEW pdu, IsSequence(pdu), NEW f, IsFrameOf(f, a, pdu)
    PROVE  Holds(f, pdu)
<1>1. PICK crc : IsSequence(crc) /\ Len(crc) = 2 /\ f = <<a>> \o pdu \o crc
  BY Zenon DEF IsFrameOf
<1> DEFINE b == <<a>>
           h == b \o pdu
           p == SubSeq(f, 2, Len(f) - 2)
<1>2. Len(pdu) \in Nat
  BY Lengths
<1>3. IsSequence(b) /\ Len(b) = 1
  BY Single
<1>4. Joins(h, b, pdu)
  BY <1>3, Zenon DEF Joins
<1>5. f = h \o crc
  BY <1>1, Zenon
<1> HIDE DEF b, h
<1>6. Concatenation(h, b, pdu)
  BY <1>4, Joined, Zenon
<1>7. Joins(f, h, crc)
  BY <1>1, <1>5, <1>6, Zenon DEF Joins, Concatenation
<1>8. Concatenation(f, h, crc)
  BY <1>7, Joined, Zenon
<1>9. IsSequence(f) /\ Len(f) = Len(pdu) + 3
  BY <1>1, <1>2, <1>3, <1>6, <1>8 DEF Concatenation
<1>10. \A k \in 1 .. Len(pdu) : f[k + 1] = pdu[k]
  BY <1>2, <1>3, <1>6, <1>8 DEF Concatenation
<1>11. /\ 2 \in 1 .. Len(f) + 1 /\ Len(f) - 2 \in 2 - 1 .. Len(f)
       /\ (Len(f) - 2) - 2 + 1 = Len(pdu)
  BY <1>2, <1>9
<1>12. /\ IsSequence(p) /\ Len(p) = Len(pdu)
       /\ \A k \in 1 .. Len(pdu) : p[k] = f[2 + k - 1]
  BY <1>9, <1>11, Part
<1> HIDE DEF p
<1>13. \A k \in 1 .. Len(p) : p[k] = pdu[k]
  BY <1>2, <1>10, <1>12
<1>14. p = pdu
  BY <1>12, <1>13, Equal
<1>15. QED
  BY <1>9, <1>14, Zenon DEF Holds, p

LEMMA Packs ==
    ASSUME NEW a, NEW pdu
    PROVE  IsFrameOf(modbusPackRTU(a, pdu), a, pdu)
<1> DEFINE crc == modbusWLE(modbusCRC(<<a>> \o pdu))
<1>1. IsSequence(crc) /\ Len(crc) = 2
  BY TwoBytes, Zenon
<1>2. modbusPackRTU(a, pdu) = <<a>> \o pdu \o crc
  BY Zenon DEF modbusPackRTU
<1>3. QED
  BY <1>1, <1>2, Zenon DEF IsFrameOf

-----------------------------------------------------------------------------
(* Frames of bytes *)

LEMMA BytesAreSequence ==
    ASSUME NEW s \in Seq(Byte)
    PROVE  IsSequence(s) /\ \A k \in 1 .. Len(s) : s[k] \in Byte
BY Zenon, LenProperties DEF IsSequence

LEMMA SequenceOfBytes ==
    ASSUME NEW s, IsSequence(s), \A k \in 1 .. Len(s) : s[k] \in Byte
    PROVE  s \in Seq(Byte)
<1>1. Len(s) \in Nat /\ s = [k \in 1 .. Len(s) |-> s[k]]
  BY Lengths, Zenon
<1> DEFINE n == Len(s)
<1> HIDE DEF n
<1>2. s \in [1 .. n -> Byte] /\ n \in Nat
  BY <1>1 DEF n
<1>3. QED
  BY <1>2

LEMMA JoinedBytes ==
    ASSUME NEW s \in Seq(Byte), NEW t \in Seq(Byte), NEW u, u = s \o t
    PROVE  u \in Seq(Byte) /\ Concatenation(u, s, t)
<1>1. u \in Seq(Byte)
  BY ConcatProperties, Zenon
<1>2. Joins(u, s, t)
  BY BytesAreSequence, Zenon DEF Joins
<1>3. QED
  BY <1>1, <1>2, Joined, Zenon

LEMMA WordAsBytes ==
    ASSUME NEW w \in Word
    PROVE  /\ modbusWBE(w) \in Seq(Byte) /\ modbusWLE(w) \in Seq(Byte)
           /\ modbusWLE(w)[1] = w % 256 /\ modbusWLE(w)[2] = w \div 256
           /\ w \div 256 \in Byte /\ w % 256 \in Byte
<1> DEFINE high == w \div 256
           low == w % 256
<1>1. high \in Byte /\ low \in Byte
  BY BytesOfWord
<1>2. modbusWBE(w) = <<high, low>> /\ modbusWLE(w) = <<low, high>>
  BY Zenon DEF modbusWBE, modbusWLE
<1> HIDE DEF high, low
<1>3. \A a, b \in Byte : <<a, b>> \in Seq(Byte)
  OBVIOUS
<1>4. modbusWLE(w)[1] = low /\ modbusWLE(w)[2] = high
  BY <1>2
<1>5. modbusWBE(w) \in Seq(Byte) /\ modbusWLE(w) \in Seq(Byte)
  BY <1>1, <1>2, <1>3
<1>6. QED
  BY <1>1, <1>4, <1>5 DEF high, low

LEMMA ChecksumIsWord ==
    ASSUME NEW f \in Seq(Byte)
    PROVE  usMBCRC16(f) \in Word
<1>1. PICK t : IsTrace(t, TableStep, U16_MAX, f) /\ usMBCRC16(f) = t[Len(f)]
  BY Checksum
<1>2. Len(f) \in Nat
  OBVIOUS
<1>3. QED
  BY <1>1, <1>2 DEF IsTrace

\* A frame that arrived as it was sent.
IsIntactFrame(f, a, pdu) ==
    /\ f \in Seq(Byte) /\ Len(f) = Len(pdu) + 3 /\ Intact(f)
    /\ f[1] = a /\ SubSeq(f, 2, Len(f) - 2) = pdu

\* The library and the link layer make the same frame, and it is intact.
LEMMA PackedFrame ==
    ASSUME NEW a \in Byte, NEW pdu \in Seq(Byte)
    PROVE  /\ IsIntactFrame(modbusPackRTU(a, pdu), a, pdu)
           /\ eMBRTUSend(a, pdu) = modbusPackRTU(a, pdu)
<1> DEFINE b == <<a>>
           g == b \o pdu
           c == usMBCRC16(g)
           crc == modbusWLE(c)
           f == modbusPackRTU(a, pdu)
<1>1. b \in Seq(Byte) /\ Len(b) = 1 /\ b[1] = a /\ Len(pdu) \in Nat
  OBVIOUS
<1> HIDE DEF b
<1>2. g \in Seq(Byte) /\ Concatenation(g, b, pdu)
  BY <1>1, JoinedBytes, Zenon
<1>3. f = g \o crc /\ eMBRTUSend(a, pdu) = f
  BY ChecksumsAgree, Zenon DEF modbusPackRTU, eMBRTUSend, b
<1> HIDE DEF f, g
<1>4. c \in Word
  BY <1>2, ChecksumIsWord
<1> HIDE DEF c
<1>5. /\ crc \in Seq(Byte) /\ Len(crc) = 2
      /\ crc[1] = c % 256 /\ crc[2] = c \div 256
  <2>1. AreTwo(crc, c % 256, c \div 256)
    BY LowFirst, Zenon
  <2>2. crc \in Seq(Byte)
    BY <1>4, WordAsBytes, Zenon
  <2>3. QED
    BY <2>1, <2>2, Zenon DEF AreTwo
<1> HIDE DEF crc
<1>6. f \in Seq(Byte) /\ Concatenation(f, g, crc)
  BY <1>2, <1>3, <1>5, JoinedBytes, Zenon
<1>7. Len(g) = Len(pdu) + 1 /\ g[1] = a
  BY <1>1, <1>2 DEF Concatenation
<1>8. /\ Len(f) = Len(g) + 2 /\ SameUpTo(f, g, Len(g))
      /\ f[Len(g) + 1] = c % 256 /\ f[Len(g) + 2] = c \div 256
  BY <1>5, <1>6 DEF Concatenation, SameUpTo
<1>9. Intact(f)
  BY <1>2, <1>6, <1>8, IntactFrames DEF c
<1>10. Len(f) = Len(pdu) + 3 /\ f[1] = a
  BY <1>1, <1>7, <1>8 DEF SameUpTo
<1>11. SubSeq(f, 2, Len(f) - 2) = pdu
  <2>1. IsFrameOf(f, a, pdu)
    BY Packs, Zenon DEF f
  <2>2. IsSequence(pdu)
    BY BytesAreSequence
  <2>3. QED
    BY <2>1, <2>2, Framed, Zenon DEF Holds
<1>12. IsIntactFrame(f, a, pdu)
  BY <1>6, <1>9, <1>10, <1>11 DEF IsIntactFrame
<1>13. QED
  BY <1>3, <1>12 DEF f

\* The library's check of a frame says what the link layer's says.
LEMMA UnpackIntact ==
    ASSUME NEW f \in Seq(Byte), FrameLengthOk(Len(f))
    PROVE  modbusUnpackRTU(f) =
             IF Intact(f)
             THEN [error |-> "ok", address |-> f[1], pdu |-> SubSeq(f, 2, Len(f) - 2)]
             ELSE [error |-> "crc", address |-> f[1], pdu |-> <<>>]
<1> DEFINE m == Len(f) - 2
           g == SubSeq(f, 1, m)
           c == usMBCRC16(g)
<1>1. Len(f) \in Nat /\ Len(f) >= 4
  <2>1. \A n \in Nat : FrameLengthOk(n) => n >= 4
    BY DEF FrameLengthOk, MODBUS_RTU_ADU_MIN, MODBUS_RTU_ADU_MAX
  <2>2. Len(f) \in Nat
    OBVIOUS
  <2>3. QED
    BY <2>1, <2>2
<1>2. IsSequence(f) /\ \A k \in 1 .. Len(f) : f[k] \in Byte
  BY BytesAreSequence
<1>3. m \in Nat /\ 1 \in 1 .. Len(f) + 1 /\ m \in 1 - 1 .. Len(f)
  BY <1>1
<1>4. IsSequence(g) /\ Len(g) = m /\ \A k \in 1 .. m : g[k] = f[k]
  <2>1. /\ IsSequence(g) /\ Len(g) = m - 1 + 1
        /\ \A k \in 1 .. m - 1 + 1 : g[k] = f[1 + k - 1]
    BY <1>2, <1>3, Part
  <2> HIDE DEF g
  <2>2. QED
    BY <2>1, <1>3
<1>5. g \in Seq(Byte)
  <2>1. \A k \in 1 .. Len(g) : g[k] \in Byte
    <3> HIDE DEF g
    <3>1. QED
      BY <1>1, <1>2, <1>4
  <2>2. QED
    BY <1>4, <2>1, SequenceOfBytes
<1>6. modbusCRC(SubSeq(f, 1, Len(f) - 2)) = c
  BY ChecksumsAgree, Zenon
<1> HIDE DEF g
<1>7. /\ c \in Word
      /\ Intact(f) <=> f[m + 1] = c % 256 /\ f[m + 2] = c \div 256
  <2>1. Len(f) = Len(g) + 2 /\ SameUpTo(f, g, Len(g))
    BY <1>1, <1>4 DEF SameUpTo
  <2>2. QED
    BY <1>4, <1>5, <2>1, IntactFrames
<1> HIDE DEF c
<1>8. f[m + 1] \in Byte /\ f[m + 2] \in Byte
  BY <1>1, <1>2
<1>9. modbusRLE(f, Len(f) - 2) = 256 * f[m + 2] + f[m + 1]
  <2>1. ByteAt(f, m) = f[m + 1] /\ ByteAt(f, m + 1) = f[m + 2]
    BY <1>1 DEF ByteAt
  <2>2. QED
    BY <2>1 DEF modbusRLE
<1> HIDE DEF m
<1>10. Intact(f) <=> c = modbusRLE(f, Len(f) - 2)
  <2> DEFINE lo == f[m + 1]
             hi == f[m + 2]
  <2> HIDE DEF lo, hi
  <2>1. lo \in Byte /\ hi \in Byte
    BY <1>8 DEF lo, hi
  <2>2. (256 * hi + lo) \div 256 = hi /\ (256 * hi + lo) % 256 = lo
    BY <2>1, BytesOfWord
  <2>3. c = 256 * (c \div 256) + (c % 256)
    BY <1>7, BytesOfWord
  <2>4. c = 256 * hi + lo <=> lo = c % 256 /\ hi = c \div 256
    BY <2>2, <2>3
  <2>5. QED
    BY <1>7, <1>9, <2>4 DEF lo, hi
<1>11. QED
  BY <1>6, <1>10, Zenon DEF modbusUnpackRTU

-----------------------------------------------------------------------------
(* What is built, and what is taken from a frame *)

LEMMA Words ==
    ASSUME NEW w \in Word
    PROVE  w \in Nat /\ w <= U16_MAX
<1>1. U16_MAX \in Nat
  BY DEF U16_MAX
<1>2. QED
  BY <1>1 DEF Word

LEMMA Arguments ==
    ASSUME NEW r \in Requests
    PROVE  r.index \in Word /\ r.count \in Word /\ r.index \in Nat /\ r.count \in Nat
<1>1. r.index \in Word /\ r.count \in Word
  BY RequestsAssumption
<1>2. QED
  BY <1>1, Words

LEMMA Kinds ==
    ASSUME NEW r \in Requests, BuildError(r) = OK
    PROVE  \/ r.function \in 1 .. 4 \/ r.function \in {5, 6}
           \/ r.function = 15 \/ r.function = 16 \/ r.function = 22
BY DEF BuildError, OK, Error

LEMMA Functions ==
    ASSUME NEW r \in Requests, BuildError(r) = OK
    PROVE  r.function \in Byte /\ r.function \in (1 .. 6) \cup {15, 16, 22}
<1>1. r.function \in (1 .. 6) \cup {15, 16, 22}
  BY DEF BuildError, OK, Error
<1>2. r.function \in Byte
  BY RequestsAssumption
<1>3. QED
  BY <1>1, <1>2

LEMMA Counted ==
    ASSUME NEW r \in Requests, r.function \in {1, 2, 3, 4, 15, 16}, BuildError(r) = OK
    PROVE  /\ r.count \in 1 .. MaxCount(r.function) /\ r.index + r.count - 1 <= U16_MAX
           /\ ~modbusCheckRangeU16(r.index, r.count)
           /\ r.count # 0 /\ ~(r.count > MaxCount(r.function))
<1>1. r.index \in Nat /\ r.count \in Nat
  BY Arguments
<1>2. CountError(r) = OK
  BY DEF BuildError
<1>3. /\ r.count # 0 /\ ~(r.count > MaxCount(r.function))
      /\ ~modbusCheckRangeU16(r.index, r.count)
  BY <1>2 DEF CountError, Error, OK
<1>4. MaxCount(r.function) \in Nat /\ U16_MAX \in Nat
  BY DEF MaxCount, U16_MAX
<1>5. r.count \in 1 .. MaxCount(r.function) /\ r.index + r.count - 1 <= U16_MAX
  BY <1>1, <1>3, <1>4 DEF modbusCheckRangeU16
<1>6. QED
  BY <1>3, <1>5

\* The head of a request: a function and two words.
IsHead(s, f, v, w) == s = <<f>> \o modbusWBE(v) \o modbusWBE(w)

ReadsAs(s, f, v, w) ==
    /\ IsSequence(s) /\ Len(s) = 5 /\ s[1] = f
    /\ v \in Nat => modbusRBE(s, 1) = v
    /\ w \in Nat => modbusRBE(s, 3) = w

LEMMA Headed ==
    ASSUME NEW f, NEW v, NEW w, NEW s, IsHead(s, f, v, w)
    PROVE  ReadsAs(s, f, v, w)
<1> DEFINE a == <<f>>
           b == modbusWBE(v)
           c == modbusWBE(w)
           h == a \o b
<1>1. IsSequence(a) /\ Len(a) = 1 /\ a[1] = f
  BY Single
<1>2. /\ IsSequence(b) /\ Len(b) = 2 /\ b[1] = v \div 256 /\ b[2] = v % 256
      /\ IsSequence(c) /\ Len(c) = 2 /\ c[1] = w \div 256 /\ c[2] = w % 256
  <2>1. AreTwo(b, v \div 256, v % 256) /\ AreTwo(c, w \div 256, w % 256)
    BY HighFirst, Zenon
  <2>2. QED
    BY <2>1, Zenon DEF AreTwo
<1>3. Joins(h, a, b)
  BY <1>1, <1>2, Zenon DEF Joins
<1>4. s = h \o c
  BY Zenon DEF IsHead
<1> HIDE DEF a, b, c, h
<1>5. /\ IsSequence(h) /\ Len(h) = 3
      /\ h[1] = f /\ h[2] = v \div 256 /\ h[3] = v % 256
  <2>1. Concatenation(h, a, b)
    BY <1>3, Joined, Zenon
  <2>2. Len(h) = 3 /\ h[1] = a[1] /\ h[1 + 1] = b[1] /\ h[1 + 2] = b[2]
    BY <1>1, <1>2, <2>1 DEF Concatenation
  <2>3. QED
    BY <1>1, <1>2, <2>1, <2>2 DEF Concatenation
<1>6. Joins(s, h, c)
  BY <1>2, <1>4, <1>5, Zenon DEF Joins
<1>7. /\ IsSequence(s) /\ Len(s) = 5
      /\ s[1] = f /\ s[2] = v \div 256 /\ s[3] = v % 256
      /\ s[4] = w \div 256 /\ s[5] = w % 256
  <2>1. Concatenation(s, h, c)
    BY <1>6, Joined, Zenon
  <2>2. /\ Len(s) = 5 /\ s[1] = h[1] /\ s[2] = h[2] /\ s[3] = h[3]
        /\ s[3 + 1] = c[1] /\ s[3 + 2] = c[2]
    BY <1>2, <1>5, <2>1 DEF Concatenation
  <2>3. QED
    BY <1>2, <1>5, <2>1, <2>2 DEF Concatenation
<1>8. /\ modbusRBE(s, 1) = 256 * (v \div 256) + (v % 256)
      /\ modbusRBE(s, 3) = 256 * (w \div 256) + (w % 256)
  BY <1>7 DEF modbusRBE, ByteAt
<1>9. \A n \in Nat : 256 * (n \div 256) + (n % 256) = n
  OBVIOUS
<1>10. QED
  BY <1>7, <1>8, <1>9 DEF ReadsAs

LEMMA ReadIsBuilt ==
    ASSUME NEW r \in Requests, r.function \in 1 .. 4, BuildError(r) = OK
    PROVE  /\ IsHead(Built(r), r.function, r.index, r.count)
           /\ ReadsAs(Built(r), r.function, r.index, r.count)
           /\ r.count \in 1 .. MaxCount(r.function)
           /\ r.index + r.count - 1 <= U16_MAX
<1>1. IsHead(Built(r), r.function, r.index, r.count)
  <2>1. Built(r) = BuildRead(r)
    BY DEF Built
  <2>2. QED
    BY <2>1, Zenon DEF BuildRead, IsHead
<1>2. ReadsAs(Built(r), r.function, r.index, r.count)
  BY <1>1, Headed, Zenon
<1>3. QED
  BY <1>1, <1>2, Counted

\* What follows the head does not change the function.
Opens(s, f) == IsSequence(s) /\ Len(s) >= 5 /\ s[1] = f

LEMMA Extended ==
    ASSUME NEW f, NEW s, NEW t, NEW u, Opens(s, f), Joins(u, s, t)
    PROVE  Opens(u, f)
<1>1. Concatenation(u, s, t)
  BY Joined, Zenon
<1>2. QED
  BY <1>1 DEF Concatenation, Opens

LEMMA SingleWrite ==
    ASSUME NEW r
    PROVE  \E v : IsHead(BuildWrite(r), r.function, r.index, v)
BY Zenon DEF BuildWrite, IsHead

LEMMA WriteIsBuilt ==
    ASSUME NEW r \in Requests, r.function \notin 1 .. 4, BuildError(r) = OK
    PROVE  Opens(Built(r), r.function)
<1> DEFINE f == r.function
<1>1. \A v, w, s : IsHead(s, f, v, w) => Opens(s, f)
  <2> TAKE v, w, s
  <2> HAVE IsHead(s, f, v, w)
  <2>1. ReadsAs(s, f, v, w)
    BY Headed, Zenon
  <2>2. QED
    BY <2>1 DEF ReadsAs, Opens
<1>2. CASE f \in {5, 6}
  <2>1. \E v : IsHead(BuildWrite(r), f, r.index, v)
    BY SingleWrite, Zenon
  <2>2. Built(r) = BuildWrite(r)
    BY <1>2 DEF Built
  <2>3. QED
    BY <2>1, <2>2, <1>1, Zenon
<1>3. ASSUME NEW n, NEW s, IsSequence(s), Built(r) = BuildWriteHead(r, n) \o s
      PROVE  Opens(Built(r), f)
  <2> DEFINE h == <<f>> \o modbusWBE(r.index) \o modbusWBE(r.count)
             g == BuildWriteHead(r, n)
             l == <<n>>
  <2>1. IsHead(h, f, r.index, r.count)
    BY Zenon DEF IsHead
  <2>2. IsSequence(l)
    BY Single
  <2>3. g = h \o l
    BY Zenon DEF BuildWriteHead
  <2> HIDE DEF h, g, l
  <2>4. Opens(h, f)
    BY <2>1, <1>1, Zenon
  <2>5. Joins(g, h, l)
    BY <2>2, <2>3, <2>4, Zenon DEF Joins, Opens
  <2>6. Opens(g, f)
    BY <2>4, <2>5, Extended, Zenon
  <2>7. Joins(Built(r), g, s)
    BY <1>3, <2>6, Zenon DEF g, Joins, Opens
  <2>8. QED
    BY <2>6, <2>7, Extended, Zenon
<1>4. CASE f = 15
  <2> DEFINE n == U8(modbusBitsToBytes(r.count))
             s == [k \in 1 .. n |-> IF k <= r.count \div 8 THEN r.values[k]
                                    ELSE r.values[k] % (2^(r.count % 8))]
  <2>1. n \in Nat
    BY Arguments DEF U8, modbusBitsToBytes
  <2>2. Built(r) = BuildWriteCoils(r)
    BY <1>4 DEF Built
  <2>3. Built(r) = BuildWriteHead(r, n) \o s
    BY <2>2, Zenon DEF BuildWriteCoils
  <2> HIDE DEF n
  <2>4. s = [k \in 1 .. n |-> s[k]]
    OBVIOUS
  <2> HIDE DEF s
  <2>5. IsSequence(s)
    BY <2>1, <2>4, SequenceOf
  <2>6. QED
    BY <2>3, <2>5, <1>3, Zenon
<1>5. CASE f = 16
  <2> DEFINE n == U8(2 * r.count)
             s == [k \in 1 .. n |-> modbusWBE(r.values[(k + 1) \div 2])[2 - (k % 2)]]
  <2>1. n \in Nat
    BY Arguments DEF U8
  <2>2. Built(r) = BuildWriteRegisters(r)
    BY <1>5 DEF Built
  <2>3. Built(r) = BuildWriteHead(r, n) \o s
    BY <2>2, Zenon DEF BuildWriteRegisters
  <2> HIDE DEF n
  <2>4. s = [k \in 1 .. n |-> s[k]]
    OBVIOUS
  <2> HIDE DEF s
  <2>5. IsSequence(s)
    BY <2>1, <2>4, SequenceOf
  <2>6. QED
    BY <2>3, <2>5, <1>3, Zenon
<1>6. CASE f = 22
  <2> DEFINE h == <<f>> \o modbusWBE(r.index) \o modbusWBE(r.values[1])
             w == modbusWBE(r.values[2])
  <2>1. Built(r) = h \o w
    <3>1. Built(r) = BuildMask(r)
      BY <1>6 DEF Built
    <3>2. QED
      BY <1>6, <3>1, Zenon DEF BuildMask
  <2>2. IsHead(h, f, r.index, r.values[1])
    BY Zenon DEF IsHead
  <2>3. IsSequence(w)
    BY TwoBytes, Zenon
  <2> HIDE DEF h, w
  <2>4. Opens(h, f)
    BY <2>2, <1>1, Zenon
  <2>5. Joins(Built(r), h, w)
    BY <2>1, <2>3, <2>4, Zenon DEF Joins, Opens
  <2>6. QED
    BY <2>4, <2>5, Extended, Zenon
<1>7. f \in {5, 6, 15, 16, 22}
  BY DEF BuildError, OK, Error
<1>8. QED
  BY <1>2, <1>4, <1>5, <1>6, <1>7

LEMMA IsBuilt ==
    ASSUME NEW r \in Requests, BuildError(r) = OK
    PROVE  Opens(Built(r), r.function)
<1>1. CASE r.function \in 1 .. 4
  <2>1. ReadsAs(Built(r), r.function, r.index, r.count)
    BY <1>1, ReadIsBuilt, Zenon
  <2>2. QED
    BY <2>1 DEF ReadsAs, Opens
<1>2. CASE r.function \notin 1 .. 4
  BY <1>2, WriteIsBuilt
<1>3. QED
  BY <1>1, <1>2

-----------------------------------------------------------------------------
(* What is built, byte by byte *)

\* A head of bytes.
Heads(s, f, v, w) ==
    /\ s \in Seq(Byte) /\ Len(s) = 5
    /\ s[1] = f /\ modbusRBE(s, 1) = v /\ modbusRBE(s, 3) = w

LEMMA HeadBytes ==
    ASSUME NEW f \in Byte, NEW v \in Word, NEW w \in Word, NEW s, IsHead(s, f, v, w)
    PROVE  Heads(s, f, v, w)
<1> DEFINE a == <<f>>
           b == modbusWBE(v)
           c == modbusWBE(w)
           h == a \o b
<1>1. a \in Seq(Byte)
  OBVIOUS
<1>2. b \in Seq(Byte) /\ c \in Seq(Byte)
  BY WordAsBytes, Zenon
<1>3. s = h \o c
  BY Zenon DEF IsHead
<1> HIDE DEF a, b, c
<1>4. h \in Seq(Byte)
  BY <1>1, <1>2, JoinedBytes, Zenon
<1> HIDE DEF h
<1>5. s \in Seq(Byte)
  BY <1>2, <1>3, <1>4, JoinedBytes, Zenon
<1>6. ReadsAs(s, f, v, w)
  BY Headed, Zenon
<1>7. v \in Nat /\ w \in Nat
  BY Words
<1>8. QED
  BY <1>5, <1>6, <1>7 DEF ReadsAs, Heads

\* A head, a byte and then t.
Carries(s, f, v, w, t) ==
    /\ s \in Seq(Byte) /\ Len(s) = 6 + Len(t)
    /\ s[1] = f /\ modbusRBE(s, 1) = v /\ modbusRBE(s, 3) = w
    /\ \A k \in 1 .. Len(t) : s[6 + k] = t[k]

LEMMA Carried ==
    ASSUME NEW f \in Byte, NEW v \in Word, NEW w \in Word, NEW n \in Byte,
           NEW h, IsHead(h, f, v, w), NEW t \in Seq(Byte), NEW s, s = (h \o <<n>>) \o t
    PROVE  Carries(s, f, v, w, t)
<1> DEFINE l == <<n>>
           g == h \o l
<1>1. /\ h \in Seq(Byte) /\ Len(h) = 5 /\ h[1] = f
      /\ modbusRBE(h, 1) = v /\ modbusRBE(h, 3) = w
  <2>1. Heads(h, f, v, w)
    BY HeadBytes, Zenon
  <2>2. QED
    BY <2>1 DEF Heads
<1>2. l \in Seq(Byte) /\ Len(l) = 1 /\ Len(t) \in Nat
  <2>1. Len(t) \in Nat
    BY LenProperties, Zenon
  <2>2. l \in Seq(Byte) /\ Len(l) = 1
    OBVIOUS
  <2>3. QED
    BY <2>1, <2>2
<1> HIDE DEF l
<1>3. g \in Seq(Byte) /\ Concatenation(g, h, l)
  BY <1>1, <1>2, JoinedBytes, Zenon
<1>4. s = g \o t
  BY Zenon DEF l
<1> HIDE DEF g
<1>5. s \in Seq(Byte) /\ Concatenation(s, g, t)
  BY <1>3, <1>4, JoinedBytes, Zenon
<1>6. Len(g) = 6 /\ \A k \in 1 .. 5 : g[k] = h[k]
  BY <1>1, <1>2, <1>3 DEF Concatenation
<1>7. /\ Len(s) = 6 + Len(t) /\ \A k \in 1 .. 5 : s[k] = h[k]
      /\ \A k \in 1 .. Len(t) : s[6 + k] = t[k]
  BY <1>2, <1>5, <1>6, SMTT(40) DEF Concatenation
<1>8. modbusRBE(s, 1) = modbusRBE(h, 1) /\ modbusRBE(s, 3) = modbusRBE(h, 3)
  BY <1>1, <1>2, <1>7 DEF modbusRBE, ByteAt
<1>9. QED
  BY <1>1, <1>5, <1>7, <1>8 DEF Carries

\* The words that are written.
LEMMA Operands ==
    ASSUME NEW r \in Requests
    PROVE  /\ IsSequence(r.values) /\ Len(r.values) \in Nat
           /\ \A k \in 1 .. Len(r.values) : r.values[k] \in Word
<1>1. r.values \in Seq(Word)
  BY RequestsAssumption
<1>2. QED
  BY <1>1, LenProperties, Zenon DEF IsSequence

\* The value of a single write.
Written(r) ==
    IF r.function = 6 THEN r.values[1] ELSE IF r.values[1] # 0 THEN COIL_ON ELSE 0

LEMMA WriteReads ==
    ASSUME NEW r \in Requests, r.function \in {5, 6}
    PROVE  /\ IsHead(Built(r), r.function, r.index, Written(r)) /\ Written(r) \in Word
           /\ r.values[1] \in Word
<1>1. r.values[1] \in Word
  <2>1. Len(r.values) = 1
    BY RequestsAssumption
  <2>2. QED
    BY <2>1, Operands
<1>2. COIL_ON \in Word /\ 0 \in Word
  BY DEF COIL_ON, Word, U16_MAX
<1>3. Built(r) = BuildWrite(r)
  BY DEF Built
<1>4. IsHead(BuildWrite(r), r.function, r.index, Written(r))
  BY Zenon DEF BuildWrite, IsHead, Written
<1>5. QED
  BY <1>1, <1>2, <1>3, <1>4 DEF Written

\* A mask request: a head and a word.
LEMMA MaskReads ==
    ASSUME NEW r \in Requests, r.function = 22
    PROVE  /\ Built(r) \in Seq(Byte) /\ Len(Built(r)) = 7 /\ Built(r)[1] = 22
           /\ modbusRBE(Built(r), 1) = r.index
           /\ modbusRBE(Built(r), 3) = r.values[1] /\ modbusRBE(Built(r), 5) = r.values[2]
           /\ Len(r.values) = 2
<1> DEFINE h == <<22>> \o modbusWBE(r.index) \o modbusWBE(r.values[1])
           w == r.values[2]
           t == modbusWBE(w)
           s == Built(r)
<1>1. Len(r.values) = 2 /\ r.values[1] \in Word /\ w \in Word /\ r.index \in Word
  <2>1. Len(r.values) = 2 /\ r.index \in Word
    BY RequestsAssumption
  <2>2. \A k \in 1 .. 2 : r.values[k] \in Word
    BY <2>1, Operands
  <2>3. QED
    BY <2>1, <2>2
<1>2. Built(r) = h \o t
  <2>1. Built(r) = BuildMask(r)
    BY DEF Built
  <2>2. QED
    BY <2>1, Zenon DEF BuildMask
<1>3. IsHead(h, 22, r.index, r.values[1])
  BY Zenon DEF IsHead
<1>4. 22 \in Byte
  BY DEF Byte
<1> HIDE DEF h, w
<1>5. /\ h \in Seq(Byte) /\ Len(h) = 5 /\ h[1] = 22
      /\ modbusRBE(h, 1) = r.index /\ modbusRBE(h, 3) = r.values[1]
  <2>1. Heads(h, 22, r.index, r.values[1])
    BY <1>1, <1>3, <1>4, HeadBytes, Zenon
  <2>2. QED
    BY <2>1 DEF Heads
<1>6. /\ t \in Seq(Byte) /\ Len(t) = 2 /\ t[1] = w \div 256 /\ t[2] = w % 256
      /\ w = 256 * (w \div 256) + (w % 256)
  <2>1. t \in Seq(Byte)
    BY <1>1, WordAsBytes, Zenon
  <2>2. Len(t) = 2 /\ t[1] = w \div 256 /\ t[2] = w % 256
    <3>1. AreTwo(t, w \div 256, w % 256)
      BY HighFirst, Zenon
    <3>2. QED
      BY <3>1, Zenon DEF AreTwo
  <2>3. w = 256 * (w \div 256) + (w % 256)
    BY <1>1, WordSplit, Zenon
  <2>4. QED
    BY <2>1, <2>2, <2>3, Zenon
<1> HIDE DEF s, t
<1>7. s \in Seq(Byte) /\ Concatenation(s, h, t)
  BY <1>2, <1>5, <1>6, JoinedBytes, Zenon DEF s
<1>8. /\ Len(s) = 7 /\ \A k \in 1 .. 5 : s[k] = h[k]
      /\ s[5 + 1] = t[1] /\ s[5 + 2] = t[2]
  BY <1>5, <1>6, <1>7 DEF Concatenation
<1>9. modbusRBE(s, 1) = modbusRBE(h, 1) /\ modbusRBE(s, 3) = modbusRBE(h, 3)
  BY <1>5, <1>8 DEF modbusRBE, ByteAt
<1>10. modbusRBE(s, 5) = 256 * (w \div 256) + (w % 256)
  BY <1>6, <1>8 DEF modbusRBE, ByteAt
<1>11. QED
  BY <1>1, <1>5, <1>6, <1>7, <1>8, <1>9, <1>10 DEF s, w

\* The powers of two that take a bit out of a byte.
LEMMA Powers ==
    /\ 2^0 = 1 /\ 2^1 = 2 /\ 2^2 = 4 /\ 2^3 = 8
    /\ 2^4 = 16 /\ 2^5 = 32 /\ 2^6 = 64 /\ 2^7 = 128
BY SMT

\* The bits below the place c stay when the others are cut off.
LEMMA LowBits ==
    ASSUME NEW b \in Byte, NEW c \in 0 .. 7
    PROVE  /\ b % 2^c \in Byte
           /\ \A m \in 0 .. c - 1 : ((b % 2^c) \div 2^m) % 2 = (b \div 2^m) % 2
<1>1. b \in 0 .. 255
  BY DEF Byte
<1>2. ASSUME NEW x \in {1, 2, 4, 8, 16, 32, 64, 128}
      PROVE  b % x \in Byte
  BY <1>1, <1>2 DEF Byte
<1>3. CASE c = 0
  BY <1>2, <1>3, Powers
<1>4. CASE c = 1
  BY <1>1, <1>2, <1>4, Powers
<1>5. CASE c = 2
  BY <1>1, <1>2, <1>5, Powers
<1>6. CASE c = 3
  BY <1>1, <1>2, <1>6, Powers, SMTT(40)
<1>7. CASE c = 4
  BY <1>1, <1>2, <1>7, Powers
<1>8. CASE c = 5
  BY <1>1, <1>2, <1>8, Powers
<1>9. CASE c = 6
  BY <1>1, <1>2, <1>9, Powers
<1>10. CASE c = 7
  BY <1>1, <1>2, <1>10, Powers
<1>11. QED
  BY <1>3, <1>4, <1>5, <1>6, <1>7, <1>8, <1>9, <1>10

LEMMA CoilSizes ==
    ASSUME NEW n \in 1 .. 8 * 246
    PROVE  (n + 7) \div 8 \in 1 .. 246 /\ n % 8 \in 0 .. 7
OBVIOUS

LEMMA MostCoils == MaxCount(15) = 8 * 246
BY DEF MaxCount

LEMMA BytesIn ==
    ASSUME NEW n \in Nat, NEW s, s = [k \in 1 .. n |-> s[k]], \A k \in 1 .. n : s[k] \in Byte
    PROVE  s \in Seq(Byte) /\ Len(s) = n
<1>1. IsSequence(s) /\ Len(s) = n
  BY SequenceOf
<1>2. QED
  BY <1>1, SequenceOfBytes

\* What follows the head of a request to write coils.
Coils(r) ==
    [k \in 1 .. (r.count + 7) \div 8 |->
       IF k <= r.count \div 8 THEN r.values[k] ELSE r.values[k] % (2^(r.count % 8))]

LEMMA CoilsBuilt ==
    ASSUME NEW r \in Requests, r.function = 15, BuildError(r) = OK
    PROVE  /\ r.count \in 1 .. 8 * 246 /\ Len(r.values) >= (r.count + 7) \div 8
           /\ \A k \in 1 .. Len(r.values) : r.values[k] \in Byte
           /\ Len(Coils(r)) = (r.count + 7) \div 8 /\ Coils(r) \in Seq(Byte)
           /\ Carries(Built(r), 15, r.index, r.count, Coils(r))
<1> DEFINE n == (r.count + 7) \div 8
           h == <<r.function>> \o modbusWBE(r.index) \o modbusWBE(r.count)
           t == Coils(r)
<1>1. r.count \in 1 .. 8 * 246
  BY Counted, MostCoils
<1>2. n \in 1 .. 246 /\ n \in Byte
  <2>1. n \in 1 .. 246
    BY <1>1, CoilSizes
  <2>2. QED
    BY <2>1 DEF Byte
<1>3. /\ Len(r.values) \in Nat /\ Len(r.values) >= n
      /\ \A k \in 1 .. Len(r.values) : r.values[k] \in Byte
  <2>1. Len(r.values) >= n /\ \A k \in DOMAIN r.values : r.values[k] \in Byte
    BY RequestsAssumption
  <2>2. DOMAIN r.values = 1 .. Len(r.values) /\ Len(r.values) \in Nat
    BY Operands, Lengths
  <2>3. QED
    BY <2>1, <2>2
<1>4. U8(modbusBitsToBytes(r.count)) = n
  BY <1>2 DEF U8, modbusBitsToBytes
<1>5. Built(r) = (h \o <<n>>) \o t
  <2>1. Built(r) = BuildWriteCoils(r)
    BY DEF Built
  <2>2. BuildWriteCoils(r) = BuildWriteHead(r, n) \o t
    BY <1>4, Zenon DEF BuildWriteCoils, Coils
  <2>3. QED
    BY <2>1, <2>2, Zenon DEF BuildWriteHead
<1>6. IsHead(h, 15, r.index, r.count)
  BY Zenon DEF IsHead
<1> HIDE DEF h
<1>7. t = [k \in 1 .. n |-> t[k]]
  BY DEF Coils
<1>8. \A k \in 1 .. n : t[k] \in Byte
  <2> TAKE k \in 1 .. n
  <2>1. r.values[k] \in Byte
    <3> HIDE DEF n
    <3>1. k \in 1 .. Len(r.values)
      BY <1>2, <1>3
    <3>2. QED
      BY <1>3, <3>1
  <2>2. r.count % 8 \in 0 .. 7
    BY <1>1, CoilSizes
  <2>3. r.values[k] % (2^(r.count % 8)) \in Byte
    BY <2>1, <2>2, LowBits
  <2>4. t[k] = IF k <= r.count \div 8 THEN r.values[k] ELSE r.values[k] % (2^(r.count % 8))
    BY DEF Coils
  <2>5. QED
    BY <2>1, <2>3, <2>4
<1> HIDE DEF t
<1>9. t \in Seq(Byte) /\ Len(t) = n
  <2> HIDE DEF n
  <2>1. n \in Nat
    BY <1>2
  <2>2. QED
    BY <2>1, <1>7, <1>8, BytesIn, Zenon
<1>10. r.index \in Word /\ r.count \in Word
  BY Arguments
<1>11. 15 \in Byte
  BY DEF Byte
<1> HIDE DEF n
<1>12. Carries(Built(r), 15, r.index, r.count, t)
  BY <1>2, <1>5, <1>6, <1>9, <1>10, <1>11, Carried, Zenon
<1>13. QED
  BY <1>1, <1>3, <1>9, <1>12 DEF n, t

\* What follows the head of a request to write registers.
Registers(r) ==
    [k \in 1 .. 2 * r.count |-> modbusWBE(r.values[(k + 1) \div 2])[2 - (k % 2)]]

LEMMA RegistersBuilt ==
    ASSUME NEW r \in Requests, r.function = 16, BuildError(r) = OK
    PROVE  /\ r.count \in 1 .. 123 /\ Len(r.values) >= r.count
           /\ Len(Registers(r)) = 2 * r.count /\ Registers(r) \in Seq(Byte)
           /\ Carries(Built(r), 16, r.index, r.count, Registers(r))
<1> DEFINE n == 2 * r.count
           h == <<r.function>> \o modbusWBE(r.index) \o modbusWBE(r.count)
           t == Registers(r)
<1>1. r.count \in 1 .. 123
  BY Counted DEF MaxCount
<1>2. n \in 2 .. 246 /\ n \in Byte
  <2>1. n \in 2 .. 246
    BY <1>1
  <2>2. QED
    BY <2>1 DEF Byte
<1>3. Len(r.values) \in Nat /\ Len(r.values) >= r.count
  BY RequestsAssumption, Operands
<1>4. U8(2 * r.count) = n
  BY <1>2 DEF U8
<1>5. Built(r) = (h \o <<n>>) \o t
  <2>1. Built(r) = BuildWriteRegisters(r)
    BY DEF Built
  <2>2. BuildWriteRegisters(r) = BuildWriteHead(r, n) \o t
    BY <1>4, Zenon DEF BuildWriteRegisters, Registers
  <2>3. QED
    BY <2>1, <2>2, Zenon DEF BuildWriteHead
<1>6. IsHead(h, 16, r.index, r.count)
  BY Zenon DEF IsHead
<1> HIDE DEF h
<1>7. t = [k \in 1 .. n |-> t[k]]
  BY DEF Registers
<1>8. \A k \in 1 .. n : t[k] \in Byte
  <2> TAKE k \in 1 .. n
  <2> DEFINE w == r.values[(k + 1) \div 2]
  <2>1. (k + 1) \div 2 \in 1 .. r.count
    BY <1>1
  <2>2. (k + 1) \div 2 \in 1 .. Len(r.values)
    <3> DEFINE l == Len(r.values)
    <3>1. l \in Nat /\ l >= r.count
      BY <1>3
    <3> HIDE DEF l
    <3>2. (k + 1) \div 2 \in 1 .. l
      BY <1>1, <2>1, <3>1
    <3>3. QED
      BY <3>2 DEF l
  <2>3. w \in Word
    BY <2>2, Operands, Zenon
  <2>4. t[k] = modbusWBE(w)[2 - (k % 2)]
    BY DEF Registers
  <2> HIDE DEF w
  <2>5. modbusWBE(w)[1] \in Byte /\ modbusWBE(w)[2] \in Byte
    BY <2>3, WordAsBytes, TwoBytes
  <2>6. 2 - (k % 2) \in {1, 2}
    OBVIOUS
  <2>7. QED
    BY <2>4, <2>5, <2>6
<1> HIDE DEF t
<1>9. t \in Seq(Byte) /\ Len(t) = n
  <2> HIDE DEF n
  <2>1. n \in Nat
    BY <1>2
  <2>2. QED
    BY <2>1, <1>7, <1>8, BytesIn, Zenon
<1>10. r.index \in Word /\ r.count \in Word
  BY Arguments
<1>11. 16 \in Byte
  BY DEF Byte
<1> HIDE DEF n
<1>12. Carries(Built(r), 16, r.index, r.count, t)
  BY <1>2, <1>5, <1>6, <1>9, <1>10, <1>11, Carried, Zenon
<1>13. QED
  BY <1>1, <1>3, <1>9, <1>12 DEF n, t

LEMMA ReadBytes ==
    ASSUME NEW r \in Requests, r.function \in 1 .. 4, BuildError(r) = OK
    PROVE  Heads(Built(r), r.function, r.index, r.count)
<1>1. r.function \in Byte /\ r.index \in Word /\ r.count \in Word
  BY Functions, Arguments
<1>2. IsHead(Built(r), r.function, r.index, r.count)
  BY ReadIsBuilt
<1>3. QED
  BY <1>1, <1>2, HeadBytes, Zenon

LEMMA WriteBytes ==
    ASSUME NEW r \in Requests, r.function \in {5, 6}, BuildError(r) = OK
    PROVE  Heads(Built(r), r.function, r.index, Written(r))
<1>1. r.function \in Byte /\ r.index \in Word
  BY Functions, Arguments, SMTT(40)
<1>2. QED
  BY <1>1, WriteReads, HeadBytes, Zenon

\* Every request fits.
LEMMA BuiltBytes ==
    ASSUME NEW r \in Requests, BuildError(r) = OK
    PROVE  /\ Built(r) \in Seq(Byte) /\ Len(Built(r)) \in 5 .. 252
           /\ Built(r)[1] = r.function /\ modbusRBE(Built(r), 1) = r.index
<1>1. CASE r.function \in 1 .. 4
  <2>1. Heads(Built(r), r.function, r.index, r.count)
    BY <1>1, ReadBytes
  <2>2. QED
    BY <2>1 DEF Heads
<1>2. CASE r.function \in {5, 6}
  <2>1. Heads(Built(r), r.function, r.index, Written(r))
    BY <1>2, WriteBytes
  <2>2. QED
    BY <2>1 DEF Heads
<1>3. CASE r.function = 15
  <2>1. /\ r.count \in 1 .. 8 * 246 /\ Len(Coils(r)) = (r.count + 7) \div 8
        /\ Carries(Built(r), 15, r.index, r.count, Coils(r))
    BY <1>3, CoilsBuilt
  <2>2. Len(Coils(r)) \in 1 .. 246
    <3> DEFINE c == r.count
    <3>1. c \in 1 .. 8 * 246 /\ Len(Coils(r)) = (c + 7) \div 8
      BY <2>1
    <3> HIDE DEF c
    <3>2. (c + 7) \div 8 \in 1 .. 246
      BY <3>1, CoilSizes
    <3>3. QED
      BY <3>1, <3>2
  <2>3. Len(Built(r)) = 6 + Len(Coils(r))
    BY <2>1 DEF Carries
  <2> DEFINE n == Len(Coils(r))
  <2>4. 6 + n \in 5 .. 252
    <3>1. n \in 1 .. 246
      BY <2>2
    <3> HIDE DEF n
    <3>2. QED
      BY <3>1
  <2> HIDE DEF n
  <2>5. QED
    BY <1>3, <2>1, <2>3, <2>4 DEF Carries, n
<1>4. CASE r.function = 16
  <2>1. /\ r.count \in 1 .. 123 /\ Len(Registers(r)) = 2 * r.count
        /\ Carries(Built(r), 16, r.index, r.count, Registers(r))
    BY <1>4, RegistersBuilt
  <2>2. Len(Registers(r)) \in 1 .. 246
    <3> DEFINE c == r.count
    <3>1. c \in 1 .. 123 /\ Len(Registers(r)) = 2 * c
      BY <2>1
    <3> HIDE DEF c
    <3>2. 2 * c \in 1 .. 246
      BY <3>1
    <3>3. QED
      BY <3>1, <3>2
  <2>3. Len(Built(r)) = 6 + Len(Registers(r))
    BY <2>1 DEF Carries
  <2> DEFINE n == Len(Registers(r))
  <2>4. 6 + n \in 5 .. 252
    <3>1. n \in 1 .. 246
      BY <2>2
    <3> HIDE DEF n
    <3>2. QED
      BY <3>1
  <2> HIDE DEF n
  <2>5. QED
    BY <1>4, <2>1, <2>3, <2>4 DEF Carries, n
<1>5. CASE r.function = 22
  BY <1>5, MaskReads
<1>6. QED
  BY <1>1, <1>2, <1>3, <1>4, <1>5, Kinds, Zenon

-----------------------------------------------------------------------------
(* What the slave takes a request for *)

\* The place of the coil number k among n.
LEMMA CoilPlace ==
    ASSUME NEW n \in 1 .. 8 * 246, NEW k \in 1 .. n
    PROVE  /\ (k - 1) \div 8 \in Nat /\ (k - 1) \div 8 + 1 \in 1 .. (n + 7) \div 8
           /\ (k - 1) % 8 \in 0 .. 7
           /\ ~((k - 1) \div 8 + 1 <= n \div 8) => (k - 1) % 8 \in 0 .. (n % 8) - 1
<1> DEFINE j == (k - 1) \div 8
           q == n \div 8
<1>1. /\ j \in Nat /\ (k - 1) % 8 \in 0 .. 7 /\ k - 1 = 8 * j + ((k - 1) % 8)
      /\ q \in Nat /\ n % 8 \in 0 .. 7 /\ n = 8 * q + (n % 8)
  OBVIOUS
<1>2. j + 1 \in 1 .. (n + 7) \div 8
  OBVIOUS
<1> HIDE DEF j, q
<1>3. ASSUME ~(j + 1 <= q)
      PROVE  (k - 1) % 8 \in 0 .. (n % 8) - 1
  <2>1. j >= q
    BY <1>1, <1>3
  <2>2. QED
    BY <1>1, <2>1
<1>4. QED
  BY <1>1, <1>2, <1>3 DEF j, q

LEMMA CoilsUnderstood ==
    ASSUME NEW r \in Requests, r.function = 15, BuildError(r) = OK, NEW k \in 1 .. r.count
    PROVE  modbusMaskRead(Built(r), 6, k - 1) = modbusMaskRead(r.values, 0, k - 1)
<1> DEFINE t == Coils(r)
           s == Built(r)
           v == r.values
           j == (k - 1) \div 8
           m == (k - 1) % 8
           c == r.count % 8
           n == (r.count + 7) \div 8
           l == Len(v)
<1>1. /\ r.count \in 1 .. 8 * 246 /\ l >= n
      /\ \A i \in 1 .. l : v[i] \in Byte
      /\ Len(t) = n
      /\ Carries(s, 15, r.index, r.count, t)
  BY CoilsBuilt
<1>2. r.count \in Nat /\ l \in Nat /\ k \in Nat
  <2>1. l \in Nat
    BY Operands
  <2>2. r.count \in Nat
    BY Arguments
  <2>3. k \in Nat
    BY <2>2
  <2>4. QED
    BY <2>1, <2>2, <2>3
<1>3. Len(s) = 6 + n /\ \A i \in 1 .. n : s[6 + i] = t[i]
  BY <1>1 DEF Carries
<1>4. /\ j \in Nat /\ j + 1 \in 1 .. n /\ m \in 0 .. 7 /\ c \in 0 .. 7 /\ n \in Nat
      /\ ~(j + 1 <= r.count \div 8) => m \in 0 .. c - 1
  <2>1. n \in 1 .. 246 /\ c \in 0 .. 7
    BY <1>1, CoilSizes, Zenon
  <2>2. /\ j \in Nat /\ j + 1 \in 1 .. n /\ m \in 0 .. 7
        /\ ~(j + 1 <= r.count \div 8) => m \in 0 .. c - 1
    BY <1>1, CoilPlace, Zenon
  <2>3. QED
    BY <2>1, <2>2
<1>5. t[j + 1] = IF j + 1 <= r.count \div 8 THEN v[j + 1] ELSE v[j + 1] % 2^c
  BY <1>4 DEF Coils
<1> HIDE DEF t, s, v, j, m, c, n, l
<1>6. modbusMaskRead(s, 6, k - 1) = (t[j + 1] \div 2^m) % 2
  <2>1. 6 + j < Len(s) /\ (6 + j) + 1 = 6 + (j + 1)
    BY <1>3, <1>4
  <2>2. ByteAt(s, 6 + j) = t[j + 1]
    BY <1>3, <1>4, <2>1 DEF ByteAt
  <2>3. QED
    BY <2>2, Zenon DEF modbusMaskRead, j, m
<1>7. modbusMaskRead(v, 0, k - 1) = (v[j + 1] \div 2^m) % 2
  <2>1. 0 + j = j /\ j < l
    BY <1>1, <1>2, <1>4
  <2>2. ByteAt(v, 0 + j) = v[j + 1]
    BY <2>1 DEF ByteAt, l
  <2>3. QED
    BY <2>2, Zenon DEF modbusMaskRead, j, m
<1>8. v[j + 1] \in Byte
  BY <1>1, <1>2, <1>4
<1>9. (t[j + 1] \div 2^m) % 2 = (v[j + 1] \div 2^m) % 2
  <2>1. CASE j + 1 <= r.count \div 8
    BY <1>5, <2>1
  <2>2. CASE ~(j + 1 <= r.count \div 8)
    <3>1. m \in 0 .. c - 1 /\ c \in 0 .. 7 /\ t[j + 1] = v[j + 1] % 2^c
      BY <1>4, <1>5, <2>2
    <3>2. QED
      BY <1>8, <3>1, LowBits
  <2>3. QED
    BY <2>1, <2>2
<1>10. QED
  BY <1>6, <1>7, <1>9 DEF s, v

LEMMA RegistersUnderstood ==
    ASSUME NEW r \in Requests, r.function = 16, BuildError(r) = OK, NEW k \in 1 .. r.count
    PROVE  modbusRBE(Built(r), 4 + 2 * k) = r.values[k]
<1> DEFINE t == Registers(r)
           s == Built(r)
           w == r.values[k]
           l == Len(r.values)
<1>1. /\ r.count \in 1 .. 123 /\ l >= r.count /\ Len(t) = 2 * r.count
      /\ Carries(s, 16, r.index, r.count, t)
  BY RegistersBuilt
<1>2. r.count \in Nat /\ k \in Nat /\ l \in Nat
  <2>1. l \in Nat
    BY Operands
  <2>2. r.count \in Nat
    BY Arguments
  <2>3. k \in Nat
    BY <2>2
  <2>4. QED
    BY <2>1, <2>2, <2>3
<1>3. Len(s) = 6 + 2 * r.count /\ \A i \in 1 .. 2 * r.count : s[6 + i] = t[i]
  BY <1>1 DEF Carries
<1>4. w \in Word
  <2>1. k \in 1 .. l
    <3> HIDE DEF l
    <3>1. QED
      BY <1>1, <1>2
  <2>2. QED
    BY <2>1, Operands
<1>5. t[2 * k - 1] = modbusWBE(w)[1] /\ t[2 * k] = modbusWBE(w)[2]
  <2>1. 2 * k - 1 \in 1 .. 2 * r.count /\ 2 * k \in 1 .. 2 * r.count
    BY <1>2
  <2>2. ((2 * k - 1) + 1) \div 2 = k /\ (2 * k + 1) \div 2 = k
    BY <1>2
  <2>3. 2 - ((2 * k - 1) % 2) = 1 /\ 2 - ((2 * k) % 2) = 2
    BY <1>2
  <2>4. \A i \in 1 .. 2 * r.count : t[i] = modbusWBE(r.values[(i + 1) \div 2])[2 - (i % 2)]
    BY DEF Registers
  <2> HIDE DEF t
  <2>5. /\ t[2 * k - 1] = modbusWBE(r.values[((2 * k - 1) + 1) \div 2])[2 - ((2 * k - 1) % 2)]
        /\ t[2 * k] = modbusWBE(r.values[(2 * k + 1) \div 2])[2 - ((2 * k) % 2)]
    BY <2>1, <2>4
  <2>6. QED
    BY <2>2, <2>3, <2>5
<1> HIDE DEF t, s, w
<1>6. t[2 * k - 1] = w \div 256 /\ t[2 * k] = w % 256 /\ w = 256 * (w \div 256) + (w % 256)
  <2>1. modbusWBE(w)[1] = w \div 256 /\ modbusWBE(w)[2] = w % 256
    BY TwoBytes
  <2>2. w = 256 * (w \div 256) + (w % 256)
    BY <1>4, BytesOfWord
  <2>3. QED
    BY <1>5, <2>1, <2>2
<1>7. /\ ByteAt(s, 4 + 2 * k) = t[2 * k - 1]
      /\ ByteAt(s, (4 + 2 * k) + 1) = t[2 * k]
  <2>1. /\ 4 + 2 * k < Len(s) /\ (4 + 2 * k) + 1 < Len(s)
        /\ (4 + 2 * k) + 1 = 6 + (2 * k - 1) /\ ((4 + 2 * k) + 1) + 1 = 6 + 2 * k
        /\ 2 * k - 1 \in 1 .. 2 * r.count /\ 2 * k \in 1 .. 2 * r.count
    BY <1>2, <1>3
  <2>2. QED
    BY <1>3, <2>1 DEF ByteAt
<1>8. modbusRBE(s, 4 + 2 * k) = w
  BY <1>6, <1>7 DEF modbusRBE
<1>9. QED
  BY <1>8 DEF s, w

LEMMA UnderstoodAsMeant ==
    ASSUME NEW r \in Requests, BuildError(r) = OK
    PROVE  Understood(Built(r)) = Meant(r)
<1> DEFINE pdu == Built(r)
           f == r.function
<1>0. pdu[1] = f /\ modbusRBE(pdu, 1) = r.index
  BY BuiltBytes
<1>1. CASE f \in 1 .. 4
  <2>1. modbusRBE(pdu, 3) = r.count
    BY <1>1, ReadBytes DEF Heads
  <2>2. QED
    BY <1>0, <1>1, <2>1 DEF Understood, Meant
<1>2. CASE f = 5
  <2>1. modbusRBE(pdu, 3) = Written(r)
    BY <1>2, WriteBytes DEF Heads
  <2>2. QED
    BY <1>0, <1>2, <2>1 DEF Understood, Meant, Written, COIL_ON
<1>3. CASE f = 6
  <2>1. modbusRBE(pdu, 3) = r.values[1]
    BY <1>3, WriteBytes DEF Heads, Written
  <2>2. r.values = <<r.values[1]>>
    <3>1. Len(r.values) = 1
      BY <1>3, RequestsAssumption
    <3>2. QED
      <4> DEFINE u == <<r.values[1]>>
      <4>1. IsSequence(u) /\ Len(u) = 1 /\ u[1] = r.values[1]
        BY Single
      <4> HIDE DEF u
      <4>2. \A k \in 1 .. Len(r.values) : r.values[k] = u[k]
        BY <3>1, <4>1
      <4>3. r.values = u
        BY <3>1, <4>1, <4>2, Operands, Equal
      <4>4. QED
        BY <4>3 DEF u
  <2>3. QED
    BY <1>0, <1>3, <2>1, <2>2 DEF Understood, Meant
<1>4. CASE f = 15
  <2>1. modbusRBE(pdu, 3) = r.count
    BY <1>4, CoilsBuilt DEF Carries
  <2>2. [k \in 1 .. r.count |-> modbusMaskRead(pdu, 6, k - 1)]
          = [k \in 1 .. r.count |-> modbusMaskRead(r.values, 0, k - 1)]
    BY <1>4, CoilsUnderstood
  <2> DEFINE got == [k \in 1 .. modbusRBE(pdu, 3) |-> modbusMaskRead(pdu, 6, k - 1)]
             meant == [k \in 1 .. r.count |-> modbusMaskRead(r.values, 0, k - 1)]
  <2>3. got = meant
    BY <2>1, <2>2
  <2>4. Understood(pdu) = [function |-> pdu[1], index |-> modbusRBE(pdu, 1), values |-> got]
    BY <1>0, <1>4 DEF Understood
  <2>5. Meant(r) = [function |-> f, index |-> r.index, values |-> meant]
    BY <1>4 DEF Meant
  <2> HIDE DEF got, meant
  <2>6. QED
    BY <1>0, <2>3, <2>4, <2>5
<1>5. CASE f = 16
  <2> DEFINE given == [k \in 1 .. r.count |-> modbusRBE(pdu, 4 + 2 * k)]
             part == SubSeq(r.values, 1, r.count)
  <2>1. modbusRBE(pdu, 3) = r.count
    BY <1>5, RegistersBuilt DEF Carries
  <2>2. given = part
    <3>1. r.count \in Nat /\ IsSequence(given) /\ Len(given) = r.count
      <4>1. r.count \in Nat
        BY Arguments
      <4>2. given = [k \in 1 .. r.count |-> given[k]]
        OBVIOUS
      <4> HIDE DEF given
      <4>3. QED
        BY <4>1, <4>2, SequenceOf
    <3>2. \A k \in 1 .. r.count : given[k] = r.values[k]
      BY <1>5, RegistersUnderstood
    <3>3. /\ IsSequence(part) /\ Len(part) = r.count
          /\ \A k \in 1 .. r.count : part[k] = r.values[k]
      <4> DEFINE l == Len(r.values)
      <4>1. l \in Nat /\ l >= r.count
        BY <1>5, Operands, RequestsAssumption
      <4> HIDE DEF l
      <4>2. 1 \in 1 .. l + 1 /\ r.count \in 1 - 1 .. l /\ r.count - 1 + 1 = r.count
        BY <3>1, <4>1
      <4>3. /\ IsSequence(part) /\ Len(part) = r.count - 1 + 1
            /\ \A k \in 1 .. r.count - 1 + 1 : part[k] = r.values[1 + k - 1]
        BY <4>2, Operands, Part DEF l
      <4> HIDE DEF part
      <4>4. QED
        BY <3>1, <4>2, <4>3
    <3> HIDE DEF given, part
    <3>4. QED
      BY <3>1, <3>2, <3>3, Equal
  <2> DEFINE got == [k \in 1 .. modbusRBE(pdu, 3) |-> modbusRBE(pdu, 4 + 2 * k)]
  <2>3. got = part
    BY <2>1, <2>2
  <2>4. Understood(pdu) = [function |-> pdu[1], index |-> modbusRBE(pdu, 1), values |-> got]
    BY <1>0, <1>5 DEF Understood
  <2>5. Meant(r) = [function |-> f, index |-> r.index, values |-> part]
    BY <1>5 DEF Meant
  <2> HIDE DEF got, part
  <2>6. QED
    BY <1>0, <2>3, <2>4, <2>5
<1>6. CASE f = 22
  <2>1. /\ modbusRBE(pdu, 3) = r.values[1] /\ modbusRBE(pdu, 5) = r.values[2]
        /\ Len(r.values) = 2
    BY <1>6, MaskReads
  <2>2. r.values = <<r.values[1], r.values[2]>>
    <3> DEFINE u == <<r.values[1], r.values[2]>>
    <3>1. IsSequence(u) /\ Len(u) = 2 /\ u[1] = r.values[1] /\ u[2] = r.values[2]
      BY Pair
    <3> HIDE DEF u
    <3>2. \A k \in 1 .. Len(r.values) : r.values[k] = u[k]
      BY <2>1, <3>1
    <3>3. r.values = u
      BY <2>1, <3>1, <3>2, Operands, Equal
    <3>4. QED
      BY <3>3 DEF u
  <2>3. QED
    BY <1>0, <1>6, <2>1, <2>2 DEF Understood, Meant
<1>7. QED
  BY <1>1, <1>2, <1>3, <1>4, <1>5, <1>6, Functions

-----------------------------------------------------------------------------
(* Parsing *)

LEMMA MostBits ==
    ASSUME NEW f \in {1, 2}
    PROVE  MaxCount(f) = 8 * 250
BY DEF MaxCount

LEMMA MostWords ==
    ASSUME NEW f \in {3, 4}
    PROVE  MaxCount(f) = 125
BY DEF MaxCount

\* The bytes of n bits, and of n words, read up to the number k.
LEMMA BitsFit ==
    ASSUME NEW n \in 1 .. 8 * 250, NEW k \in 1 .. n
    PROVE  2 + (k - 1) \div 8 < (((n + 7) \div 8) % 256) + 2
<1>1. (n + 7) \div 8 \in 0 .. 255
  OBVIOUS
<1>2. (k - 1) \div 8 < (n + 7) \div 8
  OBVIOUS
<1>3. QED
  BY <1>1, <1>2

LEMMA WordsFit ==
    ASSUME NEW n \in 1 .. 125, NEW k \in 1 .. n
    PROVE  2 * k + 1 < ((2 * n) % 256) + 2
OBVIOUS

\* Whatever the reply is: the data that is handed over answers the request.
LEMMA ParsedAsAsked ==
    ASSUME NEW r \in Requests, BuildError(r) = OK,
           NEW response, Len(response) \in Nat,
           NEW result, result = modbusParseResponsePDU(Built(r), response),
           result.data # <<>>
    PROVE  /\ result.err = OK /\ r.function \in 1 .. 4 /\ Len(result.data) = r.count
           /\ \A k \in DOMAIN result.data :
                /\ result.data[k].index = r.index + k - 1
                /\ result.data[k].at < Len(response)
<1> DEFINE f == r.function
           asking == Built(r)
<1>1. result = ParseFunction(f, asking, response)
  <2>1. asking[1] = f
    BY IsBuilt DEF Opens
  <2>2. \A source, code : Reject(source, code).data = <<>>
    BY DEF Reject, Parsed
  <2>3. Accept(<<>>).data = <<>>
    BY DEF Accept, Parsed
  <2>4. QED
    BY <2>1, <2>2, <2>3 DEF modbusParseResponsePDU
<1>2. f \in 1 .. 4
  <2>1. \A source, code : Reject(source, code).data = <<>>
    BY DEF Reject, Parsed
  <2>2. Accept(<<>>).data = <<>>
    BY DEF Accept, Parsed
  <2>3. /\ ParseWrite(asking, response).data = <<>>
        /\ ParseWriteMany(f, asking, response).data = <<>>
        /\ ParseMask(asking, response).data = <<>>
    BY <2>1, <2>2 DEF ParseWrite, ParseWriteMany, ParseMask
  <2>4. QED
    BY <1>1, <2>1, <2>3 DEF ParseFunction
<1>3. /\ Len(asking) = 5
      /\ modbusRBE(asking, 1) = r.index /\ modbusRBE(asking, 3) = r.count
      /\ r.count \in 1 .. MaxCount(f) /\ r.index + r.count - 1 <= U16_MAX
      /\ r.index \in Nat /\ r.count \in Nat
  <2>1. ReadsAs(asking, f, r.index, r.count)
    BY <1>2, ReadIsBuilt, Zenon
  <2>2. QED
    BY <1>2, <2>1, ReadIsBuilt, Arguments DEF ReadsAs
<1> DEFINE expected == U8(IF f \in {1, 2} THEN modbusBitsToBytes(r.count) ELSE 2 * r.count)
           given == Reported(f, r.index, r.count, response)
<1>4. LengthFits(response, expected) /\ result = Accept(given)
  <2>1. result = ParseRead(f, asking, response)
    BY <1>1, <1>2 DEF ParseFunction
  <2>2. \A source, code : Reject(source, code).data = <<>>
    BY DEF Reject, Parsed
  <2>3. QED
    BY <1>3, <2>1, <2>2 DEF ParseRead
<1>5. result.err = OK /\ result.data = given
  BY <1>4 DEF Accept, Parsed
<1>6. Len(given) = r.count /\ DOMAIN given = 1 .. r.count
  <2>1. given = [k \in 1 .. r.count |-> given[k]]
    BY DEF Reported
  <2>2. QED
    BY <1>3, <2>1, SequenceOf, Lengths
<1>7. ASSUME NEW k \in 1 .. r.count
      PROVE  given[k].index = r.index + k - 1 /\ given[k].at < Len(response)
  <2>1. /\ given[k].index = (r.index + k - 1) % (U16_MAX + 1)
        /\ given[k].at = IF f \in {1, 2} THEN 2 + (k - 1) \div 8 ELSE 2 * k + 1
    BY DEF Reported
  <2>2. given[k].index = r.index + k - 1
    <3>1. U16_MAX \in Nat
      BY DEF U16_MAX
    <3>2. r.index + k - 1 \in 0 .. U16_MAX
      BY <1>3, <3>1, SMTT(40)
    <3>3. \A m \in Nat : \A n \in 0 .. m : n % (m + 1) = n
      OBVIOUS
    <3>4. QED
      BY <2>1, <3>1, <3>2, <3>3
  <2>3. Len(response) = expected + 2
    BY <1>4 DEF LengthFits
  <2>4. CASE f \in {1, 2}
    <3>1. expected = ((r.count + 7) \div 8) % 256
      BY <2>4 DEF U8, modbusBitsToBytes
    <3>2. r.count \in 1 .. 8 * 250
      BY <1>3, <2>4, MostBits
    <3>3. 2 + (k - 1) \div 8 < expected + 2
      BY <3>1, <3>2, BitsFit, ZenonT(60)
    <3>4. given[k].at = 2 + (k - 1) \div 8
      BY <2>1, <2>4
    <3>5. QED
      BY <2>2, <2>3, <3>3, <3>4, Zenon
  <2>5. CASE f \in {3, 4}
    <3>1. expected = (2 * r.count) % 256
      BY <2>5 DEF U8
    <3>2. r.count \in 1 .. 125
      BY <1>3, <2>5, MostWords
    <3>3. 2 * k + 1 < expected + 2
      BY <3>1, <3>2, WordsFit, ZenonT(60)
    <3>4. given[k].at = 2 * k + 1
      BY <2>1, <2>5
    <3>5. QED
      BY <2>2, <2>3, <3>3, <3>4, Zenon
  <2>6. QED
    BY <1>2, <2>4, <2>5
<1>8. QED
  BY <1>2, <1>5, <1>6, <1>7

LEMMA Unpacked ==
    ASSUME NEW f, modbusUnpackRTU(f).error = "ok"
    PROVE  Len(f) >= 4 /\ modbusUnpackRTU(f).pdu = SubSeq(f, 2, Len(f) - 2)
<1> DEFINE length == Len(f)
           sound == modbusCRC(SubSeq(f, 1, length - 2)) = modbusRLE(f, length - 2)
<1>1. FrameLengthOk(length)
  <2>1. ASSUME ~FrameLengthOk(length)
        PROVE  modbusUnpackRTU(f) = [error |-> "length", address |-> 0, pdu |-> <<>>]
    BY <2>1, Zenon DEF modbusUnpackRTU
  <2>2. QED
    BY <2>1
<1>2. sound
  <2>1. ASSUME ~sound
        PROVE  modbusUnpackRTU(f) = [error |-> "crc", address |-> f[1], pdu |-> <<>>]
    BY <1>1, <2>1, Zenon DEF modbusUnpackRTU
  <2> HIDE DEF sound
  <2>2. QED
    BY <2>1
<1>3. modbusUnpackRTU(f) = [error |-> "ok", address |-> f[1], pdu |-> SubSeq(f, 2, length - 2)]
  BY <1>1, <1>2, Zenon DEF modbusUnpackRTU
<1>4. length >= 4
  <2>1. \A n : FrameLengthOk(n) => n >= 4
    BY DEF FrameLengthOk, MODBUS_RTU_ADU_MIN, MODBUS_RTU_ADU_MAX
  <2>2. QED
    BY <1>1, <2>1, Zenon
<1>5. QED
  BY <1>3, <1>4

-----------------------------------------------------------------------------
(* The replies *)

LEMMA ProperIsSequence ==
    ASSUME NEW r \in Requests, BuildError(r) = OK, NEW seed,
           NEW reading, reading = SlaveValues(Built(r), seed)
    PROVE  /\ IsSequence(ProperReply(Built(r), reading))
           /\ Len(ProperReply(Built(r), reading)) >= 1
<1> DEFINE pdu == Built(r)
           f == r.function
<1>1. IsSequence(pdu) /\ Len(pdu) >= 5 /\ pdu[1] = f
  BY IsBuilt DEF Opens
<1>2. CASE f \in 1 .. 4
  <2> DEFINE body == IF f \in {1, 2} THEN Packed(reading) ELSE Bytes(reading)
             h == <<f, Len(body)>>
  <2>1. r.count \in Nat /\ modbusRBE(pdu, 3) = r.count
    <3>1. ReadsAs(pdu, f, r.index, r.count)
      BY <1>2, ReadIsBuilt, Zenon
    <3>2. QED
      BY <3>1, Arguments DEF ReadsAs
  <2>2. reading = [k \in 1 .. r.count |-> reading[k]]
    BY <1>1, <1>2, <2>1 DEF SlaveValues
  <2>3. IsSequence(reading) /\ Len(reading) \in Nat
    BY <2>1, <2>2, SequenceOf, Lengths
  <2>4. IsSequence(Packed(reading))
    <3> DEFINE n == (Len(reading) + 7) \div 8
               s == Packed(reading)
    <3>1. n \in Nat
      BY <2>3
    <3>2. s = [b \in 1 .. n |-> s[b]]
      BY DEF Packed
    <3> HIDE DEF n, s
    <3>3. QED
      BY <3>1, <3>2, SequenceOf DEF s
  <2>5. IsSequence(Bytes(reading))
    <3> DEFINE n == 2 * Len(reading)
               s == Bytes(reading)
    <3>1. n \in Nat
      BY <2>3
    <3>2. s = [b \in 1 .. n |-> s[b]]
      BY DEF Bytes
    <3> HIDE DEF n, s
    <3>3. QED
      BY <3>1, <3>2, SequenceOf DEF s
  <2>6. IsSequence(body)
    BY <2>4, <2>5
  <2>7. ProperReply(pdu, reading) = h \o body
    BY <1>1, <1>2, SMTT(40) DEF ProperReply
  <2>8. IsSequence(h) /\ Len(h) = 2
    BY Pair
  <2> HIDE DEF body, h
  <2>9. Joins(ProperReply(pdu, reading), h, body)
    BY <2>6, <2>7, <2>8, Zenon DEF Joins
  <2>10. Concatenation(ProperReply(pdu, reading), h, body)
    BY <2>9, Joined, Zenon
  <2>11. QED
    BY <2>8, <2>10 DEF Concatenation
<1>3. CASE f \in {15, 16}
  <2>1. ProperReply(pdu, reading) = SubSeq(pdu, 1, 5)
    BY <1>1, <1>3 DEF ProperReply
  <2>2. Len(pdu) \in Nat
    BY <1>1, Lengths
  <2>3. 1 \in 1 .. Len(pdu) + 1 /\ 5 \in 1 - 1 .. Len(pdu) /\ 5 - 1 + 1 = 5
    BY <1>1, <2>2
  <2>4. IsSequence(SubSeq(pdu, 1, 5)) /\ Len(SubSeq(pdu, 1, 5)) = 5
    BY <1>1, <2>3, Part
  <2>5. QED
    BY <2>1, <2>4
<1>4. CASE f \notin (1 .. 4) \cup {15, 16}
  <2>1. ProperReply(pdu, reading) = pdu
    BY <1>1, <1>4 DEF ProperReply
  <2>2. QED
    BY <1>1, <2>1, Lengths
<1>5. QED
  BY <1>2, <1>3, <1>4

LEMMA OddIsSequence ==
    ASSUME NEW pdu, IsSequence(pdu), Len(pdu) >= 1, NEW odd \in OddReplies(pdu)
    PROVE  IsSequence(odd)
<1>1. Len(pdu) \in Nat
  BY Lengths
<1>2. IsSequence(SubSeq(pdu, 1, Len(pdu) - 1))
  <2>1. 1 \in 1 .. Len(pdu) + 1 /\ Len(pdu) - 1 \in 1 - 1 .. Len(pdu)
    BY <1>1
  <2>2. QED
    BY <2>1, Part
<1>3. IsSequence(Append(pdu, 0))
  BY Longer
<1>4. /\ IsSequence([pdu EXCEPT ![1] = (@ % 6) + 1])
      /\ IsSequence([pdu EXCEPT ![2] = (@ + 1) % 256])
      /\ IsSequence([pdu EXCEPT ![3] = (@ + 1) % 256])
  BY Changed, ZenonT(60)
<1>5. QED
  BY <1>2, <1>3, <1>4 DEF OddReplies

-----------------------------------------------------------------------------
(* What a slave answers to a read *)

\* Eight bits make a byte, and each is found in its place.
IsSumOf(s, a, b, c, d, e, f, g, h) ==
    s = a + 2 * b + 4 * c + 8 * d + 16 * e + 32 * f + 64 * g + 128 * h

Places(s, a, b, c, d, e, f, g, h) ==
    /\ s \in Byte
    /\ (s \div 2^0) % 2 = a /\ (s \div 2^1) % 2 = b
    /\ (s \div 2^2) % 2 = c /\ (s \div 2^3) % 2 = d
    /\ (s \div 2^4) % 2 = e /\ (s \div 2^5) % 2 = f
    /\ (s \div 2^6) % 2 = g /\ (s \div 2^7) % 2 = h

LEMMA EightBits ==
    ASSUME NEW a \in {0, 1}, NEW b \in {0, 1}, NEW c \in {0, 1}, NEW d \in {0, 1},
           NEW e \in {0, 1}, NEW f \in {0, 1}, NEW g \in {0, 1}, NEW h \in {0, 1},
           NEW s, IsSumOf(s, a, b, c, d, e, f, g, h)
    PROVE  Places(s, a, b, c, d, e, f, g, h)
<1>0. s = a + 2 * b + 4 * c + 8 * d + 16 * e + 32 * f + 64 * g + 128 * h
  BY DEF IsSumOf
<1>1. s \in Byte
  BY <1>0 DEF Byte
<1>2. (s \div 2^0) % 2 = a /\ (s \div 2^1) % 2 = b
  BY <1>0, Powers
<1>3. (s \div 2^2) % 2 = c /\ (s \div 2^3) % 2 = d
  BY <1>0, Powers
<1>4. (s \div 2^4) % 2 = e /\ (s \div 2^5) % 2 = f
  BY <1>0, Powers
<1>5. (s \div 2^6) % 2 = g /\ (s \div 2^7) % 2 = h
  BY <1>0, Powers
<1>6. QED
  BY <1>1, <1>2, <1>3, <1>4, <1>5 DEF Places

LEMMA BitPlace ==
    ASSUME NEW n \in 1 .. 8 * 250
    PROVE  /\ (n + 7) \div 8 \in 1 .. 250
           /\ \A k \in 1 .. n : /\ (k - 1) \div 8 \in Nat
                                /\ (k - 1) \div 8 + 1 \in 1 .. (n + 7) \div 8
                                /\ (k - 1) % 8 \in 0 .. 7
                                /\ 8 * ((k - 1) \div 8) + (((k - 1) % 8) + 1) = k
OBVIOUS

IsBits(s, n) == s = [k \in 1 .. n |-> s[k]] /\ \A k \in 1 .. n : s[k] \in {0, 1}

LEMMA BitsPacked ==
    ASSUME NEW n \in 1 .. 8 * 250, NEW bits, IsBits(bits, n)
    PROVE  /\ Packed(bits) \in Seq(Byte) /\ Len(Packed(bits)) = (n + 7) \div 8
           /\ \A k \in 1 .. n :
                (Packed(bits)[(k - 1) \div 8 + 1] \div 2^((k - 1) % 8)) % 2 = bits[k]
<1> DEFINE l == (n + 7) \div 8
           p == Packed(bits)
           Bit(i) == IF i \in 1 .. n THEN bits[i] ELSE 0
           At(b, i) == Bit(8 * (b - 1) + i)
<1>1. Len(bits) = n /\ DOMAIN bits = 1 .. n /\ n \in Nat
  <2>1. n \in Nat
    OBVIOUS
  <2>2. bits = [k \in 1 .. n |-> bits[k]]
    BY Zenon DEF IsBits
  <2>3. QED
    BY <2>1, <2>2, SequenceOf
<1>2. l \in 1 .. 250 /\ l \in Nat
  <2>1. l \in 1 .. 250
    BY BitPlace, Zenon
  <2> HIDE DEF l
  <2>2. QED
    BY <2>1, SMTT(40)
<1>3. \A i : Bit(i) \in {0, 1}
  BY DEF IsBits
<1>4. /\ p = [b \in 1 .. l |-> p[b]]
      /\ \A b \in 1 .. l :
           p[b] = At(b, 1) + 2 * At(b, 2) + 4 * At(b, 3) + 8 * At(b, 4)
                  + 16 * At(b, 5) + 32 * At(b, 6) + 64 * At(b, 7) + 128 * At(b, 8)
  BY <1>1 DEF Packed
<1> HIDE DEF p, l, Bit
<1>5. ASSUME NEW b \in 1 .. l
      PROVE  /\ p[b] \in Byte
             /\ \A m \in 0 .. 7 : (p[b] \div 2^m) % 2 = At(b, m + 1)
  <2>1. \A i : At(b, i) \in {0, 1}
    BY <1>3
  <2>2. p[b] = At(b, 1) + 2 * At(b, 2) + 4 * At(b, 3) + 8 * At(b, 4)
                  + 16 * At(b, 5) + 32 * At(b, 6) + 64 * At(b, 7) + 128 * At(b, 8)
    BY <1>4, <1>5
  <2> HIDE DEF At
  <2>3. /\ p[b] \in Byte
        /\ (p[b] \div 2^0) % 2 = At(b, 1) /\ (p[b] \div 2^1) % 2 = At(b, 2)
        /\ (p[b] \div 2^2) % 2 = At(b, 3) /\ (p[b] \div 2^3) % 2 = At(b, 4)
        /\ (p[b] \div 2^4) % 2 = At(b, 5) /\ (p[b] \div 2^5) % 2 = At(b, 6)
        /\ (p[b] \div 2^6) % 2 = At(b, 7) /\ (p[b] \div 2^7) % 2 = At(b, 8)
    <3>1. IsSumOf(p[b], At(b, 1), At(b, 2), At(b, 3), At(b, 4),
                  At(b, 5), At(b, 6), At(b, 7), At(b, 8))
      BY <2>2 DEF IsSumOf
    <3>2. Places(p[b], At(b, 1), At(b, 2), At(b, 3), At(b, 4),
                 At(b, 5), At(b, 6), At(b, 7), At(b, 8))
      BY <2>1, <3>1, EightBits
    <3>3. QED
      BY <3>2 DEF Places
  <2>4. \A m \in 0 .. 7 : m = 0 \/ m = 1 \/ m = 2 \/ m = 3 \/ m = 4 \/ m = 5 \/ m = 6 \/ m = 7
    OBVIOUS
  <2>5. QED
    BY <2>3, <2>4
<1>6. p \in Seq(Byte) /\ Len(p) = l
  BY <1>2, <1>4, <1>5, BytesIn, SMTT(40)
<1>7. ASSUME NEW k \in 1 .. n
      PROVE  (p[(k - 1) \div 8 + 1] \div 2^((k - 1) % 8)) % 2 = bits[k]
  <2> DEFINE j == (k - 1) \div 8
             m == (k - 1) % 8
  <2>1. j \in Nat /\ j + 1 \in 1 .. l /\ m \in 0 .. 7 /\ 8 * j + (m + 1) = k
    BY BitPlace DEF l
  <2> HIDE DEF j, m
  <2>2. (p[j + 1] \div 2^m) % 2 = At(j + 1, m + 1)
    BY <1>5, <2>1, Zenon
  <2>3. 8 * ((j + 1) - 1) + (m + 1) = k
    BY <2>1
  <2>4. At(j + 1, m + 1) = bits[k]
    BY <2>3 DEF Bit
  <2>5. QED
    BY <2>2, <2>4 DEF j, m
<1>8. QED
  BY <1>6, <1>7 DEF p, l

IsWords(s, n) == s = [k \in 1 .. n |-> s[k]] /\ \A k \in 1 .. n : s[k] \in Word

\* t has the bytes of n words.
HasWords(t, s, n) ==
    \A k \in 1 .. n : t[2 * k - 1] = s[k] \div 256 /\ t[2 * k] = s[k] % 256

LEMMA WordsPacked ==
    ASSUME NEW n \in 1 .. 125, NEW words, IsWords(words, n)
    PROVE  /\ Bytes(words) \in Seq(Byte) /\ Len(Bytes(words)) = 2 * n
           /\ HasWords(Bytes(words), words, n)
<1> DEFINE p == Bytes(words)
<1>1. Len(words) = n /\ n \in Nat
  <2>1. n \in Nat
    OBVIOUS
  <2>2. words = [k \in 1 .. n |-> words[k]]
    BY Zenon DEF IsWords
  <2>3. QED
    BY <2>1, <2>2, SequenceOf
<1>2. /\ p = [b \in 1 .. 2 * n |-> p[b]]
      /\ \A b \in 1 .. 2 * n : p[b] = modbusWBE(words[(b + 1) \div 2])[2 - (b % 2)]
  BY <1>1 DEF Bytes
<1> HIDE DEF p
<1>3. ASSUME NEW k \in 1 .. n
      PROVE  p[2 * k - 1] = words[k] \div 256 /\ p[2 * k] = words[k] % 256
  <2>1. 2 * k - 1 \in 1 .. 2 * n /\ 2 * k \in 1 .. 2 * n
    BY <1>1
  <2>2. ((2 * k - 1) + 1) \div 2 = k /\ (2 * k + 1) \div 2 = k
    BY <1>1
  <2>3. 2 - ((2 * k - 1) % 2) = 1 /\ 2 - ((2 * k) % 2) = 2
    BY <1>1
  <2>4. /\ p[2 * k - 1] = modbusWBE(words[((2 * k - 1) + 1) \div 2])[2 - ((2 * k - 1) % 2)]
        /\ p[2 * k] = modbusWBE(words[(2 * k + 1) \div 2])[2 - ((2 * k) % 2)]
    BY <1>2, <2>1
  <2>5. /\ modbusWBE(words[k])[1] = words[k] \div 256
        /\ modbusWBE(words[k])[2] = words[k] % 256
    BY TwoBytes
  <2>6. QED
    BY <2>2, <2>3, <2>4, <2>5
<1>4. ASSUME NEW b \in 1 .. 2 * n
      PROVE  p[b] \in Byte
  <2> DEFINE w == words[(b + 1) \div 2]
  <2>1. (b + 1) \div 2 \in 1 .. n
    BY <1>1
  <2>2. w \in Word
    BY <2>1, Zenon DEF IsWords
  <2>3. p[b] = modbusWBE(w)[2 - (b % 2)]
    BY <1>2
  <2> HIDE DEF w
  <2>4. modbusWBE(w)[1] \in Byte /\ modbusWBE(w)[2] \in Byte
    BY <2>2, WordAsBytes, TwoBytes
  <2>5. 2 - (b % 2) \in {1, 2}
    OBVIOUS
  <2>6. QED
    BY <2>3, <2>4, <2>5
<1>5. p \in Seq(Byte) /\ Len(p) = 2 * n
  <2>1. 2 * n \in Nat
    BY <1>1
  <2>2. QED
    BY <1>2, <1>4, <2>1, BytesIn
<1>6. QED
  BY <1>3, <1>5 DEF p, HasWords

LEMMA Contents ==
    ASSUME NEW seed \in Nat, NEW k \in Nat
    PROVE  /\ \A f \in {1, 2} : Content(f, seed, k) \in {0, 1}
           /\ \A f \in {3, 4} : Content(f, seed, k) \in Word
<1>1. seed * k \in Nat
  OBVIOUS
<1> DEFINE word == (seed * k) % (U16_MAX + 1)
<1>2. word \in Word
  <2>1. \A x, m \in Nat : x % (m + 1) \in 0 .. m
    OBVIOUS
  <2>2. QED
    BY <1>1, <2>1, WordsBelow DEF Word
<1> HIDE DEF word
<1>3. (word \div 16) % 2 \in {0, 1}
  BY <1>2, Words
<1>4. \A f : Content(f, seed, k) = IF f \in {1, 2} THEN (word \div 16) % 2 ELSE word
  BY Zenon DEF Content, word
<1>5. QED
  BY <1>2, <1>3, <1>4

\* A reply to a read: the function, the number of bytes that follow, and these.
Replies(s, f, t) ==
    /\ s \in Seq(Byte) /\ Len(s) = 2 + Len(t) /\ s[1] = f /\ s[2] = Len(t)
    /\ \A k \in 1 .. Len(t) : s[2 + k] = t[k]

LEMMA ReplyMade ==
    ASSUME NEW f \in Byte, NEW t \in Seq(Byte), Len(t) \in Byte,
           NEW s, s = <<f, Len(t)>> \o t
    PROVE  Replies(s, f, t)
<1> DEFINE h == <<f, Len(t)>>
<1>1. h \in Seq(Byte) /\ Len(h) = 2 /\ h[1] = f /\ h[2] = Len(t)
  BY Pair
<1>2. Len(t) \in Nat
  BY LenProperties, Zenon
<1> HIDE DEF h
<1>3. s \in Seq(Byte) /\ Concatenation(s, h, t)
  BY <1>1, JoinedBytes, Zenon DEF h
<1>4. QED
  BY <1>1, <1>2, <1>3 DEF Concatenation, Replies

LEMMA SlaveReads ==
    ASSUME NEW r \in Requests, r.function \in 1 .. 4, BuildError(r) = OK, NEW seed \in Nat,
           NEW s, s = SlaveValues(Built(r), seed)
    PROVE  /\ r.count \in Nat /\ Len(s) = r.count
           /\ r.function \in {1, 2} => IsBits(s, r.count)
           /\ r.function \in {3, 4} => IsWords(s, r.count)
<1> DEFINE f == r.function
<1>1. Built(r)[1] = f /\ modbusRBE(Built(r), 3) = r.count
  BY ReadBytes DEF Heads
<1>2. s = [k \in 1 .. r.count |-> Content(f, seed, k)]
  BY <1>1 DEF SlaveValues
<1>3. r.count \in Nat
  BY Arguments
<1>4. /\ s = [k \in 1 .. r.count |-> s[k]]
      /\ \A k \in 1 .. r.count : k \in Nat /\ s[k] = Content(f, seed, k)
  BY <1>2, <1>3
<1>5. Len(s) = r.count
  BY <1>3, <1>4, SequenceOf
<1>6. ASSUME f \in {1, 2}
      PROVE  IsBits(s, r.count)
  <2>1. \A k \in 1 .. r.count : s[k] \in {0, 1}
    BY <1>4, <1>6, Contents
  <2>2. QED
    BY <1>4, <2>1, Zenon DEF IsBits
<1>7. ASSUME f \in {3, 4}
      PROVE  IsWords(s, r.count)
  <2>1. \A k \in 1 .. r.count : s[k] \in Word
    BY <1>4, <1>7, Contents
  <2>2. QED
    BY <1>4, <2>1, Zenon DEF IsWords
<1>8. QED
  BY <1>3, <1>5, <1>6, <1>7

\* The reply to a read of bits is taken apart as it was put together,
LEMMA BitsReplied ==
    ASSUME NEW r \in Requests, r.function \in {1, 2}, BuildError(r) = OK,
           NEW s, IsBits(s, r.count), NEW given, given = ProperReply(Built(r), s)
    PROVE  /\ Replies(given, r.function, Packed(s))
           /\ Len(Packed(s)) = (r.count + 7) \div 8 /\ Len(Packed(s)) \in 1 .. 250
           /\ \A k \in 1 .. r.count : modbusMaskRead(given, 2, k - 1) = s[k]
<1> DEFINE n == r.count
           t == Packed(s)
<1>1. n \in 1 .. 8 * 250
  BY Counted, MostBits
<1>2. /\ t \in Seq(Byte) /\ Len(t) = (n + 7) \div 8
      /\ \A k \in 1 .. n : (t[(k - 1) \div 8 + 1] \div 2^((k - 1) % 8)) % 2 = s[k]
  BY <1>1, BitsPacked, Zenon
<1>3. Len(t) \in 1 .. 250
  <2> DEFINE m == Len(t)
  <2>1. m = (n + 7) \div 8
    BY <1>2
  <2> HIDE DEF m, n
  <2>2. m \in 1 .. 250
    BY <1>1, <2>1
  <2>3. QED
    BY <2>2 DEF m
<1>4. given = <<r.function, Len(t)>> \o t
  <2>1. Built(r)[1] = r.function
    BY ReadBytes DEF Heads
  <2>2. QED
    BY <2>1 DEF ProperReply
<1> HIDE DEF t, n
<1>5. Replies(given, r.function, t)
  <2>1. Len(t) \in Byte
    BY <1>3 DEF Byte
  <2>2. QED
    BY <1>2, <1>4, <2>1, Functions, ReplyMade
<1>6. ASSUME NEW k \in 1 .. n
      PROVE  modbusMaskRead(given, 2, k - 1) = s[k]
  <2> DEFINE j == (k - 1) \div 8
             m == (k - 1) % 8
             l == Len(t)
  <2>1. j \in Nat /\ j + 1 \in 1 .. l
    BY <1>1, <1>2, BitPlace
  <2>2. (t[j + 1] \div 2^m) % 2 = s[k]
    BY <1>2
  <2>3. l \in Nat /\ Len(given) = 2 + l /\ \A i \in 1 .. l : given[2 + i] = t[i]
    BY <1>3, <1>5 DEF Replies
  <2> HIDE DEF j, m, l
  <2>4. ByteAt(given, 2 + j) = t[j + 1]
    <3>1. 2 + j < Len(given) /\ (2 + j) + 1 = 2 + (j + 1)
      <4>1. \A a, b \in Nat : a + 1 \in 1 .. b => 2 + a < 2 + b /\ (2 + a) + 1 = 2 + (a + 1)
        OBVIOUS
      <4>2. QED
        BY <2>1, <2>3, <4>1, Zenon
    <3>2. given[2 + (j + 1)] = t[j + 1]
      BY <2>1, <2>3, Zenon
    <3>3. QED
      BY <3>1, <3>2, Zenon DEF ByteAt
  <2>5. modbusMaskRead(given, 2, k - 1) = (t[j + 1] \div 2^m) % 2
    BY <2>4, Zenon DEF modbusMaskRead, j, m
  <2>6. QED
    BY <2>2, <2>5
<1>7. QED
  BY <1>2, <1>3, <1>5, <1>6 DEF t, n

\* and the one to a read of words.
LEMMA WordsReplied ==
    ASSUME NEW r \in Requests, r.function \in {3, 4}, BuildError(r) = OK,
           NEW s, IsWords(s, r.count), NEW given, given = ProperReply(Built(r), s)
    PROVE  /\ Replies(given, r.function, Bytes(s))
           /\ Len(Bytes(s)) = 2 * r.count /\ Len(Bytes(s)) \in 1 .. 250
           /\ \A k \in 1 .. r.count : modbusRBE(given, 2 * k) = s[k]
<1> DEFINE n == r.count
           t == Bytes(s)
<1>1. n \in 1 .. 125
  BY Counted, MostWords
<1>2. /\ t \in Seq(Byte) /\ Len(t) = 2 * n
      /\ \A k \in 1 .. n : t[2 * k - 1] = s[k] \div 256 /\ t[2 * k] = s[k] % 256
  <2>1. t \in Seq(Byte) /\ Len(t) = 2 * n /\ HasWords(t, s, n)
    BY <1>1, WordsPacked
  <2>2. QED
    BY <2>1 DEF HasWords
<1>3. Len(t) \in 1 .. 250
  <2>1. \A i \in 1 .. 125 : 2 * i \in 1 .. 250
    OBVIOUS
  <2> DEFINE l == Len(t)
  <2>2. l = 2 * n
    BY <1>2
  <2> HIDE DEF l, n
  <2>3. l \in 1 .. 250
    BY <1>1, <2>1, <2>2
  <2>4. QED
    BY <2>3 DEF l
<1>4. given = <<r.function, Len(t)>> \o t
  <2>1. Built(r)[1] = r.function
    BY ReadBytes DEF Heads
  <2>2. QED
    BY <2>1, SMTT(40) DEF ProperReply
<1> HIDE DEF t, n
<1>5. Replies(given, r.function, t)
  <2>1. Len(t) \in Byte
    BY <1>3 DEF Byte
  <2>2. QED
    BY <1>2, <1>4, <2>1, Functions, ReplyMade
<1>6. ASSUME NEW k \in 1 .. n
      PROVE  modbusRBE(given, 2 * k) = s[k]
  <2> DEFINE w == s[k]
  <2>1. w \in Word
    BY DEF IsWords, n
  <2>2. w = 256 * (w \div 256) + (w % 256)
    BY <2>1, BytesOfWord
  <2>3. t[2 * k - 1] = w \div 256 /\ t[2 * k] = w % 256
    BY <1>2
  <2> HIDE DEF w
  <2>4. Len(given) = 2 + 2 * n /\ \A i \in 1 .. 2 * n : given[2 + i] = t[i]
    BY <1>2, <1>5 DEF Replies
  <2>5. /\ 2 * k < Len(given) /\ 2 * k + 1 < Len(given)
        /\ 2 * k + 1 = 2 + (2 * k - 1) /\ (2 * k + 1) + 1 = 2 + 2 * k
        /\ 2 * k - 1 \in 1 .. 2 * n /\ 2 * k \in 1 .. 2 * n
    <3> DEFINE l == Len(given)
    <3>1. l = 2 + 2 * n
      BY <2>4
    <3> HIDE DEF l
    <3>2. 2 * k < l /\ 2 * k + 1 < l
      BY <1>1, <3>1
    <3>3. /\ 2 * k + 1 = 2 + (2 * k - 1) /\ (2 * k + 1) + 1 = 2 + 2 * k
          /\ 2 * k - 1 \in 1 .. 2 * n /\ 2 * k \in 1 .. 2 * n
      BY <1>1
    <3>4. QED
      BY <3>2, <3>3 DEF l
  <2>6. ByteAt(given, 2 * k) = t[2 * k - 1] /\ ByteAt(given, 2 * k + 1) = t[2 * k]
    BY <2>4, <2>5 DEF ByteAt
  <2>7. modbusRBE(given, 2 * k) = w
    BY <2>2, <2>3, <2>6 DEF modbusRBE
  <2>8. QED
    BY <2>7 DEF w
<1>7. QED
  BY <1>2, <1>3, <1>5, <1>6 DEF t, n

-----------------------------------------------------------------------------
(* The reply as the protocol asks for it is accepted *)

LEMMA Sizes ==
    /\ \A n \in 1 .. 252 : U8(n) = n /\ U8(n) \in 1 .. MODBUS_PDU_MAX
    /\ \A n \in 3 .. 252 : n \in 1 .. 252 /\ n # 2 /\ ~(n < 3)
    /\ \A n \in 1 .. 250 : n \in 1 .. 252 /\ 2 + n \in 3 .. 252 /\ n + 2 = 2 + n
    /\ \A n \in 5 .. 252 : n \in 1 .. 252 /\ n \in Nat /\ n >= 5
BY DEF U8, MODBUS_PDU_MAX

LEMMA NoWrap ==
    ASSUME NEW index \in Nat, NEW count \in Nat, index + count - 1 <= U16_MAX,
           NEW k \in 1 .. count
    PROVE  (index + k - 1) % (U16_MAX + 1) = index + k - 1
<1>1. U16_MAX \in Nat
  BY WordsBelow
<1>2. index + k - 1 \in 0 .. U16_MAX
  BY <1>1
<1>3. \A m \in Nat : \A n \in 0 .. m : n % (m + 1) = n
  OBVIOUS
<1>4. QED
  BY <1>1, <1>2, <1>3

\* Between a request and a reply of the same function that is long enough the
\* function decides.
RequestSizes == 1 .. 252
ReplySizes == 3 .. 252

AreAlike(asking, given) ==
    Len(asking) \in RequestSizes /\ Len(given) \in ReplySizes /\ given[1] = asking[1]

LEMMA SizesFit ==
    /\ \A n \in 1 .. 252 : n \in RequestSizes
    /\ \A n \in 3 .. 252 : n \in ReplySizes
    /\ 5 \in ReplySizes /\ 7 \in ReplySizes
BY DEF RequestSizes, ReplySizes

LEMMA FunctionDecides ==
    ASSUME NEW asking, NEW given, AreAlike(asking, given)
    PROVE  modbusParseResponsePDU(asking, given) = ParseFunction(asking[1], asking, given)
<1>0. Len(asking) \in 1 .. 252 /\ Len(given) \in 3 .. 252 /\ given[1] = asking[1]
  BY DEF AreAlike, RequestSizes, ReplySizes
<1>1. Len(given) \in 1 .. 252 /\ Len(given) # 2
  BY <1>0, Sizes, ZenonT(60)
<1>2. U8(Len(asking)) \in 1 .. MODBUS_PDU_MAX /\ U8(Len(given)) \in 1 .. MODBUS_PDU_MAX
  BY <1>0, <1>1, Sizes, ZenonT(60)
<1>3. ~IsException(given)
  BY <1>1 DEF IsException
<1>4. QED
  BY <1>0, <1>2, <1>3 DEF modbusParseResponsePDU

\* The values are handed over, each under its index.
HandsOver(result, r, s) ==
    /\ result.err = OK /\ Len(result.data) = Len(s)
    /\ \A k \in DOMAIN result.data :
         result.data[k].index = r.index + k - 1 /\ result.data[k].value = s[k]

\* given is a reply to r: t behind its head, and in t the values s.
RepliesTo(given, r, s, t) ==
    LET bits == r.function \in {1, 2}
    IN  /\ Replies(given, r.function, t)
        /\ Len(t) \in 1 .. 250
        /\ Len(t) = IF bits THEN (r.count + 7) \div 8 ELSE 2 * r.count
        /\ \A k \in 1 .. r.count :
             s[k] = IF bits THEN modbusMaskRead(given, 2, k - 1) ELSE modbusRBE(given, 2 * k)

LEMMA ReadAccepted ==
    ASSUME NEW r \in Requests, r.function \in 1 .. 4, BuildError(r) = OK,
           NEW s, Len(s) = r.count, NEW given, NEW t, RepliesTo(given, r, s, t)
    PROVE  /\ given \in Seq(Byte) /\ Len(given) \in 3 .. 252
           /\ HandsOver(modbusParseResponsePDU(Built(r), given), r, s)
<1> DEFINE f == r.function
           asking == Built(r)
           values == Reported(f, r.index, r.count, given)
           expected == U8(IF f \in {1, 2} THEN modbusBitsToBytes(r.count) ELSE 2 * r.count)
           l == Len(t)
<1>1. /\ Len(asking) = 5 /\ asking[1] = f
      /\ modbusRBE(asking, 1) = r.index /\ modbusRBE(asking, 3) = r.count
  BY ReadBytes DEF Heads
<1>2. /\ given \in Seq(Byte) /\ Len(given) = 2 + l /\ given[1] = f /\ given[2] = l
  BY DEF Replies, RepliesTo
<1>3. l \in 1 .. 250 /\ U8(l) = l
  <2>1. l \in 1 .. 250
    BY DEF RepliesTo
  <2> HIDE DEF l
  <2>2. l \in 1 .. 252
    BY <2>1, Sizes
  <2>3. QED
    BY <2>1, <2>2, Sizes
<1>4. expected = l
  <2>1. l = IF f \in {1, 2} THEN modbusBitsToBytes(r.count) ELSE 2 * r.count
    BY DEF modbusBitsToBytes, RepliesTo
  <2> HIDE DEF l
  <2>2. QED
    BY <1>3, <2>1
<1> HIDE DEF l
<1>5. Len(given) \in 3 .. 252
  BY <1>2, <1>3, Sizes
<1>6. modbusParseResponsePDU(asking, given) = ParseRead(f, asking, given)
  <2>1. Len(asking) \in 1 .. 252
    BY <1>1
  <2>2. modbusParseResponsePDU(asking, given) = ParseFunction(f, asking, given)
    <3>1. Len(asking) \in RequestSizes /\ Len(given) \in ReplySizes
      BY <1>5, <2>1, SizesFit, Zenon
    <3>2. AreAlike(asking, given)
      BY <1>1, <1>2, <3>1, Zenon DEF AreAlike
    <3>3. QED
      BY <1>1, <3>2, FunctionDecides, Zenon
  <2>3. QED
    BY <2>2, SMTT(40) DEF ParseFunction
<1> HIDE DEF asking
<1>7. ParseRead(f, asking, given) = Accept(values)
  <2>1. LengthFits(given, expected)
    <3>1. l + 2 = 2 + l
      BY <1>3, Sizes
    <3>2. QED
      BY <1>2, <1>4, <3>1 DEF LengthFits
  <2>2. ~(Len(given) < 3)
    BY <1>5, Sizes
  <2>3. /\ ~(r.count = 0 \/ r.count > MaxCount(f))
        /\ ~modbusCheckRangeU16(r.index, r.count)
    BY Counted
  <2> HIDE DEF values, expected
  <2>4. QED
    BY <1>1, <2>1, <2>2, <2>3 DEF ParseRead, values, expected
<1>8. r.count \in Nat /\ r.index \in Nat /\ r.index + r.count - 1 <= U16_MAX
  BY Arguments, Counted
<1>9. Len(values) = r.count /\ DOMAIN values = 1 .. r.count
  <2>1. values = [k \in 1 .. r.count |-> values[k]]
    BY DEF Reported
  <2>2. QED
    BY <1>8, <2>1, SequenceOf, Lengths
<1>10. ASSUME NEW k \in 1 .. r.count
       PROVE  values[k].index = r.index + k - 1 /\ values[k].value = s[k]
  <2>1. /\ values[k].index = (r.index + k - 1) % (U16_MAX + 1)
        /\ values[k].value = IF f \in {1, 2} THEN modbusMaskRead(given, 2, k - 1)
                             ELSE modbusRBE(given, 2 * k)
    BY DEF Reported
  <2>0. s[k] = IF f \in {1, 2} THEN modbusMaskRead(given, 2, k - 1) ELSE modbusRBE(given, 2 * k)
    BY DEF RepliesTo
  <2>2. (r.index + k - 1) % (U16_MAX + 1) = r.index + k - 1
    BY <1>8, NoWrap, SMTT(40)
  <2>3. QED
    BY <2>0, <2>1, <2>2
<1> HIDE DEF values
<1>11. HandsOver(Accept(values), r, s)
  BY <1>9, <1>10 DEF HandsOver, Accept, Parsed
<1>12. QED
  BY <1>2, <1>5, <1>6, <1>7, <1>11 DEF asking

\* A reply that hands over nothing.
LEMMA EmptyAccepted ==
    ASSUME NEW r
    PROVE  HandsOver(Accept(<<>>), r, <<>>)
BY DEF HandsOver, Accept, Parsed

LEMMA WriteAccepted ==
    ASSUME NEW r \in Requests, r.function \notin 1 .. 4, BuildError(r) = OK,
           NEW given, given = ProperReply(Built(r), <<>>)
    PROVE  /\ given \in Seq(Byte) /\ Len(given) \in 3 .. 252
           /\ modbusParseResponsePDU(Built(r), given) = Accept(<<>>)
<1> DEFINE f == r.function
           asking == Built(r)
<1>1. asking \in Seq(Byte) /\ Len(asking) \in 5 .. 252 /\ asking[1] = f
  BY BuiltBytes, SMTT(40)
<1>2. Len(asking) \in 1 .. 252 /\ Len(asking) \in Nat /\ Len(asking) >= 5
  BY <1>1, Sizes, ZenonT(60)
<1>3. Len(asking) \in RequestSizes
  BY <1>2, SizesFit, Zenon
<1>4. CASE f \in {5, 6}
  <2>1. given = asking
    <3>1. f \notin 1 .. 4 /\ f \notin {15, 16}
      BY <1>4
    <3>2. QED
      BY <1>1, <3>1, Zenon DEF ProperReply
  <2>2. Len(asking) = 5
    BY <1>4, WriteBytes DEF Heads
  <2>3. modbusParseResponsePDU(asking, given) = ParseFunction(f, asking, given)
    <3>1. Len(given) \in ReplySizes
      BY <2>1, <2>2, SizesFit, Zenon
    <3>2. AreAlike(asking, given)
      BY <1>3, <2>1, <3>1, Zenon DEF AreAlike
    <3>3. QED
      BY <1>1, <3>2, FunctionDecides, Zenon
  <2>4. ParseFunction(f, asking, given) = ParseWrite(asking, asking)
    BY <1>4, <2>1 DEF ParseFunction
  <2>5. ParseWrite(asking, asking) = Accept(<<>>)
    BY <2>2 DEF ParseWrite
  <2>6. QED
    BY <1>1, <2>1, <2>2, <2>3, <2>4, <2>5
<1>5. CASE f \in {15, 16}
  <2>1. given = SubSeq(asking, 1, 5)
    BY <1>1, <1>5 DEF ProperReply
  <2>2. /\ IsSequence(given) /\ Len(given) = 5
        /\ \A k \in 1 .. 5 : given[k] = asking[k]
    <3>1. IsSequence(asking)
      BY <1>1, BytesAreSequence
    <3>2. 1 \in 1 .. Len(asking) + 1 /\ 5 \in 1 - 1 .. Len(asking) /\ 5 - 1 + 1 = 5
      BY <1>2
    <3>3. /\ IsSequence(given) /\ Len(given) = 5 - 1 + 1
          /\ \A k \in 1 .. 5 - 1 + 1 : given[k] = asking[1 + k - 1]
      <4> DEFINE l == Len(asking)
      <4>1. IsSequence(asking) /\ 1 \in 1 .. l + 1 /\ 5 \in 1 - 1 .. l
        BY <3>1, <3>2
      <4> HIDE DEF asking
      <4>2. /\ IsSequence(SubSeq(asking, 1, 5)) /\ Len(SubSeq(asking, 1, 5)) = 5 - 1 + 1
            /\ \A k \in 1 .. 5 - 1 + 1 : SubSeq(asking, 1, 5)[k] = asking[1 + k - 1]
        BY <4>1, Part, Zenon
      <4>3. QED
        BY <2>1, <4>2, Zenon
    <3>4. QED
      BY <3>2, <3>3
  <2>3. given \in Seq(Byte)
    <3> DEFINE l == Len(asking)
    <3>1. \A k \in 1 .. l : asking[k] \in Byte
      BY <1>1, BytesAreSequence, Zenon
    <3>2. l \in Nat /\ l >= 5
      BY <1>2
    <3> HIDE DEF asking, l
    <3>3. \A k \in 1 .. 5 : asking[k] \in Byte
      BY <3>1, <3>2
    <3>4. \A k \in 1 .. Len(given) : given[k] \in Byte
      BY <2>2, <3>3, Zenon
    <3>5. QED
      BY <2>2, <3>4, SequenceOfBytes, Zenon
  <2>4. /\ modbusRBE(given, 1) = modbusRBE(asking, 1)
        /\ modbusRBE(given, 3) = modbusRBE(asking, 3)
    BY <1>2, <2>2 DEF modbusRBE, ByteAt
  <2>5. /\ modbusRBE(asking, 1) = r.index /\ modbusRBE(asking, 3) = r.count
        /\ Len(asking) = (IF f = 15 THEN modbusBitsToBytes(r.count) ELSE 2 * r.count) + 6
    <3>1. CASE f = 15
      <4>1. /\ Len(Coils(r)) = (r.count + 7) \div 8
            /\ Carries(asking, 15, r.index, r.count, Coils(r))
            /\ r.count \in 1 .. 8 * 246
        BY <3>1, CoilsBuilt
      <4>2. (r.count + 7) \div 8 \in 1 .. 246
        BY <4>1, CoilSizes
      <4>3. \A n \in 1 .. 246 : 6 + n = n + 6
        OBVIOUS
      <4>4. Len(asking) = (r.count + 7) \div 8 + 6
        BY <4>1, <4>2, <4>3 DEF Carries
      <4>5. QED
        BY <3>1, <4>1, <4>4 DEF Carries, modbusBitsToBytes
    <3>2. CASE f = 16
      <4>1. /\ Len(Registers(r)) = 2 * r.count
            /\ Carries(asking, 16, r.index, r.count, Registers(r))
            /\ r.count \in 1 .. 123
        BY <3>2, RegistersBuilt
      <4>2. 6 + 2 * r.count = 2 * r.count + 6
        BY <4>1
      <4>3. QED
        BY <3>2, <4>1, <4>2 DEF Carries
    <3>3. QED
      BY <1>5, <3>1, <3>2
  <2>6. Len(asking) >= 7
    <3>1. CASE f = 15
      <4>1. (r.count + 7) \div 8 \in 1 .. 246
        BY <3>1, CoilsBuilt, CoilSizes
      <4>2. \A n \in 1 .. 246 : n + 6 >= 7
        OBVIOUS
      <4>3. QED
        BY <2>5, <3>1, <4>1, <4>2, ZenonT(60) DEF modbusBitsToBytes
    <3>2. CASE f = 16
      <4>1. r.count \in 1 .. 123
        BY <3>2, RegistersBuilt
      <4>2. \A n \in 1 .. 123 : 2 * n + 6 >= 7
        BY SMTT(40)
      <4>3. QED
        <5>1. Len(asking) = 2 * r.count + 6
          BY <2>5, <3>2
        <5>2. 2 * r.count + 6 >= 7
          BY <4>1, <4>2
        <5>3. QED
          BY <5>1, <5>2
    <3>3. QED
      BY <1>5, <3>1, <3>2
  <2>7. modbusParseResponsePDU(asking, given) = ParseFunction(f, asking, given)
    <3>1. Len(given) \in ReplySizes
      BY <2>2, SizesFit, Zenon
    <3>2. given[1] = asking[1]
      <4> HIDE DEF asking
      <4>1. QED
        BY <2>2
    <3>3. AreAlike(asking, given)
      BY <1>3, <3>1, <3>2, Zenon DEF AreAlike
    <3>4. QED
      BY <1>1, <3>3, FunctionDecides, Zenon
  <2>8. ParseFunction(f, asking, given) = ParseWriteMany(f, asking, given)
    BY <1>5 DEF ParseFunction
  <2>9. ~(Len(asking) < 7)
    BY <1>2, <2>6
  <2>10. /\ ~(r.count = 0 \/ r.count > MaxCount(f))
         /\ ~modbusCheckRangeU16(r.index, r.count)
    BY <1>5, Counted
  <2> HIDE DEF asking
  <2>11. ParseWriteMany(f, asking, given) = Accept(<<>>)
    BY <2>2, <2>4, <2>5, <2>9, <2>10 DEF ParseWriteMany
  <2>12. QED
    BY <2>2, <2>3, <2>7, <2>8, <2>11 DEF asking
<1>6. CASE f = 22
  <2>1. given = asking
    BY <1>1, <1>6 DEF ProperReply
  <2>2. Len(asking) = 7
    BY <1>6, MaskReads, SMTT(40)
  <2>3. modbusParseResponsePDU(asking, given) = ParseFunction(f, asking, given)
    <3>1. Len(given) \in ReplySizes
      BY <2>1, <2>2, SizesFit, Zenon
    <3>2. AreAlike(asking, given)
      BY <1>3, <2>1, <3>1, Zenon DEF AreAlike
    <3>3. QED
      BY <1>1, <3>2, FunctionDecides, Zenon
  <2>4. ParseFunction(f, asking, given) = ParseMask(asking, asking)
    BY <1>6, <2>1 DEF ParseFunction
  <2>5. ParseMask(asking, asking) = Accept(<<>>)
    BY <2>2 DEF ParseMask
  <2>6. QED
    BY <1>1, <2>1, <2>2, <2>3, <2>4, <2>5
<1>7. QED
  BY <1>4, <1>5, <1>6, Kinds, Zenon

\* The slave's contents, as it replies with them, are what is handed over.
LEMMA ProperAccepted ==
    ASSUME NEW r \in Requests, BuildError(r) = OK, NEW seed \in Nat,
           NEW s, s = SlaveValues(Built(r), seed), NEW given, given = ProperReply(Built(r), s)
    PROVE  /\ given \in Seq(Byte) /\ Len(given) \in 3 .. 252
           /\ HandsOver(modbusParseResponsePDU(Built(r), given), r, s)
<1> DEFINE f == r.function
<1>1. CASE f \in {1, 2}
  <2>1. f \in 1 .. 4
    BY <1>1
  <2>2. Len(s) = r.count /\ IsBits(s, r.count)
    BY <1>1, <2>1, SlaveReads
  <2>3. /\ Replies(given, f, Packed(s)) /\ Len(Packed(s)) = (r.count + 7) \div 8
        /\ Len(Packed(s)) \in 1 .. 250
        /\ \A k \in 1 .. r.count : modbusMaskRead(given, 2, k - 1) = s[k]
    BY <1>1, <2>2, BitsReplied
  <2>4. RepliesTo(given, r, s, Packed(s))
    BY <1>1, <2>3 DEF RepliesTo
  <2>5. QED
    BY <2>1, <2>2, <2>4, ReadAccepted, Zenon
<1>2. CASE f \in {3, 4}
  <2>1. f \in 1 .. 4 /\ f \notin {1, 2}
    BY <1>2
  <2>2. Len(s) = r.count /\ IsWords(s, r.count)
    BY <1>2, <2>1, SlaveReads
  <2>3. /\ Replies(given, f, Bytes(s)) /\ Len(Bytes(s)) = 2 * r.count
        /\ Len(Bytes(s)) \in 1 .. 250
        /\ \A k \in 1 .. r.count : modbusRBE(given, 2 * k) = s[k]
    BY <1>2, <2>2, WordsReplied
  <2>4. RepliesTo(given, r, s, Bytes(s))
    BY <2>1, <2>3 DEF RepliesTo
  <2>5. QED
    BY <2>1, <2>2, <2>4, ReadAccepted, Zenon
<1>3. CASE f \notin 1 .. 4
  <2>1. s = <<>>
    BY <1>3, BuiltBytes, SMTT(40) DEF SlaveValues
  <2>2. /\ given \in Seq(Byte) /\ Len(given) \in 3 .. 252
        /\ modbusParseResponsePDU(Built(r), given) = Accept(<<>>)
    BY <1>3, <2>1, WriteAccepted
  <2>3. QED
    BY <2>1, <2>2, EmptyAccepted, SMTT(40)
<1>4. f \in 1 .. 4 => f \in {1, 2} \/ f \in {3, 4}
  OBVIOUS
<1>5. QED
  BY <1>1, <1>2, <1>3, <1>4, Zenon

-----------------------------------------------------------------------------
(* The inductive invariant *)

\* From building to return the request is the one asked for, in its frame if the
\* library makes the frame.
RequestInv ==
    phase # "idle" =>
      /\ asked \in Requests /\ BuildError(asked) = OK
      /\ request = IF padding = 0 THEN Built(asked)
                   ELSE modbusPackRTU(Address, Built(asked))

\* On the line is a frame, at first the request's.
FrameInv ==
    /\ phase = "sent" => IsFrameOf(frame, Address, Built(asked))
    /\ phase \in {"answered", "done"} => IsSequence(frame)

\* Data is handed over when the frame is parsed, and then only.
DataInv ==
    /\ phase # "done" => data = <<>>
    /\ DataIsTheReplys

IInv == RequestInv /\ FrameInv /\ DataInv

-----------------------------------------------------------------------------
(* The first part of the invariant *)

LEMMA InitInv == Init => IInv
BY DEF Init, IInv, RequestInv, FrameInv, DataInv, DataIsTheReplys

LEMMA BuildInv == IInv /\ (\E r \in Requests : Build(r)) => IInv'
BY DEF Build, IInv, RequestInv, FrameInv, DataInv, DataIsTheReplys

LEMMA SendInv == IInv /\ Send => IInv'
<1> SUFFICES ASSUME IInv, Send
             PROVE  IInv'
  OBVIOUS
<1>1. /\ phase = "built" /\ phase' = "sent" /\ data = <<>> /\ data' = <<>>
      /\ UNCHANGED <<request, padding, asked>>
  BY DEF IInv, DataInv, Send
<1>2. RequestInv' /\ asked \in Requests /\ BuildError(asked) = OK
  BY <1>1 DEF IInv, RequestInv
<1>3. IsFrameOf(frame', Address, Built(asked))
  <2>1. CASE padding = 0
    <3> DEFINE crc == modbusWLE(usMBCRC16(<<Address>> \o Built(asked)))
    <3>1. request = Built(asked)
      BY <1>1, <2>1 DEF IInv, RequestInv
    <3>2. frame' = eMBRTUSend(Address, request)
      BY <2>1 DEF Send
    <3>3. frame' = <<Address>> \o Built(asked) \o crc
      BY <3>1, <3>2, Zenon DEF eMBRTUSend
    <3>4. IsSequence(crc) /\ Len(crc) = 2
      BY TwoBytes, Zenon
    <3>5. QED
      BY <3>3, <3>4, Zenon DEF IsFrameOf
  <2>2. CASE padding # 0
    <3>1. frame' = modbusPackRTU(Address, Built(asked))
      BY <1>1, <2>2 DEF Send, IInv, RequestInv
    <3>2. QED
      BY <3>1, Packs, Zenon
  <2>3. QED
    BY <2>1, <2>2
<1>4. FrameInv' /\ DataInv'
  BY <1>1, <1>3 DEF FrameInv, DataInv, DataIsTheReplys
<1>5. QED
  BY <1>2, <1>4 DEF IInv

\* A reply, of whatever PDU, is a frame.
LEMMA AnswersInv ==
    ASSUME IInv, phase = "sent", NEW from, NEW pdu, IsSequence(pdu), NEW kind, NEW given,
           Answers(from, pdu, kind, given)
    PROVE  IInv'
<1>1. /\ phase' = "answered" /\ data = <<>> /\ data' = <<>>
      /\ UNCHANGED <<request, padding, asked>>
  BY DEF IInv, DataInv, Answers
<1>2. RequestInv' /\ DataInv'
  BY <1>1 DEF IInv, RequestInv, DataInv, DataIsTheReplys
<1>3. frame' = modbusPackRTU(from, pdu)
  BY DEF Answers
<1>4. IsSequence(frame')
  BY <1>3, Packs, Framed, Zenon DEF Holds
<1>5. FrameInv'
  BY <1>1, <1>4 DEF FrameInv
<1>6. QED
  BY <1>2, <1>5 DEF IInv

LEMMA RefusalIsSequence ==
    ASSUME NEW f
    PROVE  IsSequence(<<f, 2>>)
BY Pair

\* The slave has the request that was asked for.
LEMMA SlaveReceives ==
    ASSUME IInv, phase = "sent"
    PROVE  /\ asked \in Requests /\ BuildError(asked) = OK
           /\ Received = Built(asked)
<1>1. /\ asked \in Requests /\ BuildError(asked) = OK
      /\ IsFrameOf(frame, Address, Built(asked))
  BY DEF IInv, RequestInv, FrameInv
<1>2. IsSequence(Built(asked))
  BY <1>1, IsBuilt DEF Opens
<1>3. Holds(frame, Built(asked))
  BY <1>1, <1>2, Framed, Zenon
<1>4. QED
  BY <1>1, <1>3 DEF Holds, Received

LEMMA SlaveInv == IInv /\ SlaveAnswers => IInv'
<1> SUFFICES ASSUME IInv, SlaveAnswers
             PROVE  IInv'
  OBVIOUS
<1>1. phase = "sent"
  BY DEF SlaveAnswers
<1>2. asked \in Requests /\ BuildError(asked) = OK /\ Received = Built(asked)
  BY <1>1, SlaveReceives
<1>3. PICK seed \in Seeds :
        LET reading == SlaveValues(Built(asked), seed)
            proper == ProperReply(Built(asked), reading)
        IN  \/ Answers(Address, proper, "proper", reading)
            \/ \E pdu \in OddReplies(proper) : Answers(Address, pdu, "odd", <<>>)
            \/ Answers(Address, <<Received[1] + 128, 2>>, "exception", <<>>)
  BY <1>2, Zenon DEF SlaveAnswers
<1> DEFINE reading == SlaveValues(Built(asked), seed)
           proper == ProperReply(Built(asked), reading)
<1>4. IsSequence(proper) /\ Len(proper) >= 1
  BY <1>2, ProperIsSequence
<1> HIDE DEF proper, reading
<1>5. CASE Answers(Address, proper, "proper", reading)
  BY <1>1, <1>4, <1>5, AnswersInv, Zenon
<1>6. ASSUME NEW pdu \in OddReplies(proper), Answers(Address, pdu, "odd", <<>>)
      PROVE  IInv'
  BY <1>1, <1>4, <1>6, OddIsSequence, AnswersInv, Zenon
<1>7. CASE Answers(Address, <<Received[1] + 128, 2>>, "exception", <<>>)
  BY <1>1, <1>7, RefusalIsSequence, AnswersInv, Zenon
<1>8. QED
  BY <1>3, <1>5, <1>6, <1>7, Zenon DEF proper, reading

LEMMA StrangerInv == IInv /\ StrangerAnswers => IInv'
BY RefusalIsSequence, AnswersInv, Zenon DEF StrangerAnswers

LEMMA DamageInv == IInv /\ Damage => IInv'
<1> SUFFICES ASSUME IInv, Damage
             PROVE  IInv'
  OBVIOUS
<1>1. /\ phase = "answered" /\ data = <<>> /\ IsSequence(frame)
      /\ UNCHANGED <<phase, request, padding, data, asked>>
  BY DEF IInv, DataInv, FrameInv, Damage
<1>2. RequestInv' /\ DataInv'
  BY <1>1 DEF IInv, RequestInv, DataInv, DataIsTheReplys
<1>3. PICK n, d, e : LET once == [frame EXCEPT ![n] = (@ + d) % 256]
                     IN  frame' = [once EXCEPT ![n + 1] = (@ + e) % 256]
  BY Zenon DEF Damage
<1> DEFINE once == [frame EXCEPT ![n] = (@ + d) % 256]
<1>4. IsSequence(frame')
  <2>1. IsSequence(once)
    BY <1>1, Changed
  <2> HIDE DEF once
  <2>2. frame' = [once EXCEPT ![n + 1] = (@ + e) % 256]
    BY <1>3 DEF once
  <2>3. QED
    BY <2>1, <2>2, Changed
<1>5. FrameInv'
  BY <1>1, <1>4 DEF FrameInv
<1>6. QED
  BY <1>2, <1>5 DEF IInv

\* What is parsed is the PDU of the frame on the line.
LEMMA ReceiveInv == IInv /\ Receive => IInv'
<1> SUFFICES ASSUME IInv, Receive
             PROVE  IInv'
  OBVIOUS
<1> DEFINE result == IF padding = 0 THEN eMBRTUReceive(frame)
                     ELSE modbusParseResponseRTU(request, frame)
           response == SubSeq(frame, 2, Len(frame) - 2)
<1>1. /\ phase = "answered" /\ phase' = "done" /\ IsSequence(frame)
      /\ err' = result.err /\ data' = result.data
      /\ UNCHANGED <<request, padding, frame, asked>>
  BY DEF IInv, FrameInv, Receive
<1>2. /\ asked \in Requests /\ BuildError(asked) = OK
      /\ request = IF padding = 0 THEN Built(asked)
                   ELSE modbusPackRTU(Address, Built(asked))
  BY <1>1 DEF IInv, RequestInv
<1>3. RequestInv' /\ FrameInv'
  BY <1>1, <1>2 DEF RequestInv, FrameInv
<1>4. ASSUME result.data # <<>>
      PROVE  Len(frame) >= 4 /\ result = modbusParseResponsePDU(Built(asked), response)
  <2>1. CASE padding = 0
    <3>1. result = eMBRTUReceive(frame) /\ request = Built(asked)
      BY <1>2, <2>1
    <3>2. QED
      BY <1>4, <3>1 DEF eMBRTUReceive, MODBUS_RTU_ADU_MIN, Parsed
  <2>2. CASE padding # 0
    <3> DEFINE own == modbusUnpackRTU(request)
               answer == modbusUnpackRTU(frame)
    <3>1. result = modbusParseResponseRTU(request, frame)
      BY <2>2
    <3>2. /\ own.error = "ok" /\ answer.error = "ok"
          /\ result = modbusParseResponsePDU(own.pdu, answer.pdu)
      BY <1>4, <3>1 DEF modbusParseResponseRTU, Reject, Parsed
    <3>3. Len(frame) >= 4 /\ answer.pdu = response
      BY <3>2, Unpacked
    <3>4. own.pdu = Built(asked)
      <4>1. own.pdu = SubSeq(request, 2, Len(request) - 2)
        BY <3>2, Unpacked
      <4>2. IsFrameOf(request, Address, Built(asked))
        BY <1>2, <2>2, Packs
      <4>3. IsSequence(Built(asked))
        BY <1>2, IsBuilt DEF Opens
      <4>4. Holds(request, Built(asked))
        BY <4>2, <4>3, Framed, Zenon
      <4>5. QED
        BY <4>1, <4>4 DEF Holds
    <3>5. QED
      BY <3>2, <3>3, <3>4
  <2>3. QED
    BY <2>1, <2>2
<1>5. ASSUME Len(frame) >= 4
      PROVE  Len(response) \in Nat /\ Len(response) = Len(frame) - 3
  <2>1. Len(frame) \in Nat
    BY <1>1, Lengths
  <2>2. /\ 2 \in 1 .. Len(frame) + 1 /\ Len(frame) - 2 \in 2 - 1 .. Len(frame)
        /\ (Len(frame) - 2) - 2 + 1 = Len(frame) - 3
    BY <1>5, <2>1
  <2>3. Len(response) = Len(frame) - 3
    BY <1>1, <2>2, Part
  <2>4. QED
    BY <1>5, <2>1, <2>3
<1> HIDE DEF result, response
<1>6. ASSUME result.data # <<>>
      PROVE  /\ result.err = OK /\ asked.function \in 1 .. 4 /\ Len(result.data) = asked.count
             /\ \A k \in DOMAIN result.data :
                  /\ result.data[k].index = asked.index + k - 1
                  /\ result.data[k].at < Len(response)
  BY <1>2, <1>4, <1>5, <1>6, ParsedAsAsked
<1>7. DataIsTheReplys'
  BY <1>1, <1>4, <1>5, <1>6 DEF DataIsTheReplys, MODBUS_RTU_ADU_PADDING
<1>8. QED
  BY <1>1, <1>3, <1>7 DEF IInv, DataInv

LEMMA QuietInv == IInv /\ (Destroy \/ Return \/ UNCHANGED vars) => IInv'
<1> SUFFICES ASSUME IInv, Destroy \/ Return \/ UNCHANGED vars
             PROVE  IInv'
  OBVIOUS
<1>1. CASE Destroy
  BY <1>1 DEF IInv, RequestInv, FrameInv, DataInv, DataIsTheReplys, Destroy
<1>2. CASE Return
  BY <1>2 DEF IInv, RequestInv, FrameInv, DataInv, DataIsTheReplys, Return
<1>3. CASE UNCHANGED vars
  BY <1>3, SMTT(40) DEF IInv, RequestInv, FrameInv, DataInv, DataIsTheReplys, vars
<1>4. QED
  BY <1>1, <1>2, <1>3

-----------------------------------------------------------------------------
(* Other replies, and what the parser says of them *)

AreFitting(s) == s \in Seq(Byte) /\ Len(s) \in 2 .. 253

LEMMA OddBytes ==
    ASSUME NEW pdu \in Seq(Byte), Len(pdu) \in 3 .. 252, NEW odd \in OddReplies(pdu)
    PROVE  odd \in Seq(Byte) /\ Len(odd) \in 2 .. 253
<1> SUFFICES AreFitting(odd)
  BY DEF AreFitting
<1> DEFINE l == Len(pdu)
<1>1. \A k \in 1 .. l : pdu[k] \in Byte
  BY BytesAreSequence
<1>2. l \in 3 .. 252
  OBVIOUS
<1>3. \A x \in Byte : (x % 6) + 1 \in Byte /\ (x + 1) % 256 \in Byte
  BY DEF Byte
<1>4. pdu[1] \in Byte /\ pdu[2] \in Byte /\ pdu[3] \in Byte
  <2> HIDE DEF l
  <2>1. 1 \in 1 .. l /\ 2 \in 1 .. l /\ 3 \in 1 .. l
    BY <1>2
  <2>2. QED
    BY <1>1, <2>1
<1>5. CASE odd = SubSeq(pdu, 1, Len(pdu) - 1)
  <2>1. IsSequence(pdu)
    BY BytesAreSequence
  <2>2. 1 \in 1 .. l + 1 /\ l - 1 \in 1 - 1 .. l /\ (l - 1) - 1 + 1 = l - 1 /\ l - 1 \in 2 .. 253
    <3> HIDE DEF l
    <3>1. QED
      BY <1>2
  <2>3. /\ IsSequence(odd) /\ Len(odd) = l - 1
        /\ \A k \in 1 .. l - 1 : odd[k] = pdu[1 + k - 1]
    <3> DEFINE p == SubSeq(pdu, 1, l - 1)
    <3>1. /\ IsSequence(p) /\ Len(p) = (l - 1) - 1 + 1
          /\ \A k \in 1 .. (l - 1) - 1 + 1 : p[k] = pdu[1 + k - 1]
      BY <2>1, <2>2, Part, Zenon
    <3> HIDE DEF p
    <3>2. odd = p
      BY <1>5 DEF p
    <3>3. QED
      BY <2>2, <3>1, <3>2, Zenon
  <2> HIDE DEF l
  <2>4. \A k \in 1 .. l - 1 : k \in 1 .. l /\ 1 + k - 1 = k
    BY <1>2
  <2>5. \A k \in 1 .. Len(odd) : odd[k] \in Byte
    BY <1>1, <2>3, <2>4
  <2>6. QED
    BY <2>2, <2>3, <2>5, SequenceOfBytes DEF AreFitting
<1>6. CASE odd = Append(pdu, 0)
  <2>1. 0 \in Byte
    BY DEF Byte
  <2>2. odd \in Seq(Byte) /\ Len(odd) = l + 1
    BY <1>6, <2>1, AppendProperties
  <2> HIDE DEF l
  <2>3. l + 1 \in 2 .. 253
    BY <1>2
  <2>4. QED
    BY <2>2, <2>3 DEF AreFitting
<1>7. ASSUME NEW n, NEW x \in Byte, odd = [pdu EXCEPT ![n] = x]
      PROVE  AreFitting(odd)
  <2>1. IsSequence(pdu)
    BY BytesAreSequence
  <2>2. /\ pdu = [k \in 1 .. l |-> pdu[k]] /\ l \in Nat
    BY <2>1, Lengths, SMTT(40)
  <2>3. odd = [k \in 1 .. l |-> odd[k]] /\ \A k \in 1 .. l : odd[k] \in Byte
    BY <1>1, <1>7, <2>2, ZenonT(60)
  <2>4. odd \in Seq(Byte) /\ Len(odd) = l
    BY <2>2, <2>3, BytesIn
  <2> HIDE DEF l
  <2>5. l \in 2 .. 253
    BY <1>2, SMTT(40)
  <2>6. QED
    BY <2>4, <2>5 DEF AreFitting
<1>8. CASE odd = [pdu EXCEPT ![1] = (@ % 6) + 1]
  <2> DEFINE x == (pdu[1] % 6) + 1
  <2>1. x \in Byte
    BY <1>3, <1>4
  <2>2. odd = [pdu EXCEPT ![1] = x]
    BY <1>8
  <2> HIDE DEF x
  <2>3. QED
    BY <1>7, <2>1, <2>2, Zenon
<1>9. CASE odd = [pdu EXCEPT ![2] = (@ + 1) % 256]
  <2> DEFINE x == (pdu[2] + 1) % 256
  <2>1. x \in Byte
    BY <1>3, <1>4
  <2>2. odd = [pdu EXCEPT ![2] = x]
    BY <1>9
  <2> HIDE DEF x
  <2>3. QED
    BY <1>7, <2>1, <2>2, Zenon
<1>10. CASE odd = [pdu EXCEPT ![3] = (@ + 1) % 256]
  <2> DEFINE x == (pdu[3] + 1) % 256
  <2>1. x \in Byte
    BY <1>3, <1>4
  <2>2. odd = [pdu EXCEPT ![3] = x]
    BY <1>10
  <2> HIDE DEF x
  <2>3. QED
    BY <1>7, <2>1, <2>2, Zenon
<1>11. QED
  BY <1>5, <1>6, <1>8, <1>9, <1>10 DEF OddReplies

\* The parser of PDUs knows nothing of checksums.
IsSound(result) ==
    result.err \in [source : ErrorSource, error : ModbusError] /\ result.err.error # "crc"

LEMMA ParserIsSound ==
    ASSUME NEW asking, NEW given
    PROVE  IsSound(modbusParseResponsePDU(asking, given))
<1>1. \A s \in ErrorSource : \A code \in ModbusError \ {"crc"} : IsSound(Reject(s, code))
  BY DEF IsSound, Reject, Parsed, Error
<1>2. \A values : IsSound(Accept(values))
  BY DEF IsSound, Accept, Parsed, OK, Error, ErrorSource, ModbusError
<1>3. /\ {"general", "request", "response"} \subseteq ErrorSource
      /\ {"length", "function", "count", "index", "value", "range", "other"}
           \subseteq ModbusError \ {"crc"}
  BY DEF ErrorSource, ModbusError
<1>4. \A f : IsSound(ParseRead(f, asking, given))
  BY <1>1, <1>2, <1>3 DEF ParseRead
<1>5. IsSound(ParseWrite(asking, given))
  BY <1>1, <1>2, <1>3 DEF ParseWrite
<1>6. \A f : IsSound(ParseWriteMany(f, asking, given))
  BY <1>1, <1>2, <1>3 DEF ParseWriteMany
<1>7. IsSound(ParseMask(asking, given))
  BY <1>1, <1>2, <1>3 DEF ParseMask
<1>8. \A f : IsSound(ParseFunction(f, asking, given))
  BY <1>1, <1>3, <1>4, <1>5, <1>6, <1>7 DEF ParseFunction
<1>9. QED
  BY <1>1, <1>2, <1>3, <1>8 DEF modbusParseResponsePDU

-----------------------------------------------------------------------------
(* The bytes of the frames: the second part of the invariant *)

LEMMA Addresses == Address \in Byte /\ Address \in Nat /\ Address + 1 \in Byte /\ Address # 0
<1>1. Address \in 1 .. 254
  BY SlaveAssumption
<1>2. QED
  BY <1>1 DEF Byte

\* A frame with the request of PDU mode, or of RTU mode, is the same.
RequestBytes ==
    phase = "sent" => frame = modbusPackRTU(Address, Built(asked))

\* A frame on its way back is intact unless the line has damaged it.
AnswerBytes ==
    /\ phase \in {"answered", "done"} =>
         /\ frame \in Seq(Byte) /\ Len(frame) \in 5 .. 256
         /\ damaged <=> ~Intact(frame)
    /\ phase \notin {"answered", "done"} => ~damaged

\* An intact proper reply is the one the protocol asks for.
ProperBytes ==
    phase \in {"answered", "done"} /\ reply.kind = "proper" /\ ~damaged =>
      \E seed \in Seeds :
        /\ reply.values = SlaveValues(Built(asked), seed)
        /\ frame = modbusPackRTU(Address, ProperReply(Built(asked), reply.values))

ByteInv ==
    /\ RequestBytes /\ AnswerBytes /\ ProperBytes
    /\ ReplyIsUnderstood /\ DamageIsNoticed

\* The request is framed alike in both modes, and taken apart again.
LEMMA RequestFramed ==
    ASSUME NEW r \in Requests, BuildError(r) = OK
    PROVE  /\ IsIntactFrame(modbusPackRTU(Address, Built(r)), Address, Built(r))
           /\ eMBRTUSend(Address, Built(r)) = modbusPackRTU(Address, Built(r))
           /\ modbusUnpackRTU(modbusPackRTU(Address, Built(r)))
                = [error |-> "ok", address |-> Address, pdu |-> Built(r)]
<1> DEFINE pdu == Built(r)
           f == modbusPackRTU(Address, pdu)
<1>1. pdu \in Seq(Byte) /\ Len(pdu) \in 5 .. 252
  BY BuiltBytes
<1>2. IsIntactFrame(f, Address, pdu) /\ eMBRTUSend(Address, pdu) = f
  BY <1>1, Addresses, PackedFrame, SMTT(40)
<1>3. FrameLengthOk(Len(f))
  <2>1. \A n \in 5 .. 252 : FrameLengthOk(n + 3)
    BY DEF FrameLengthOk, MODBUS_RTU_ADU_MIN, MODBUS_RTU_ADU_MAX
  <2>2. Len(f) = Len(pdu) + 3
    BY <1>2 DEF IsIntactFrame
  <2>3. QED
    BY <1>1, <2>1, <2>2, Zenon
<1>4. /\ f \in Seq(Byte) /\ Intact(f) /\ f[1] = Address
      /\ SubSeq(f, 2, Len(f) - 2) = pdu
  BY <1>2 DEF IsIntactFrame
<1> HIDE DEF f
<1>5. modbusUnpackRTU(f) = [error |-> "ok", address |-> f[1], pdu |-> SubSeq(f, 2, Len(f) - 2)]
  BY <1>3, <1>4, UnpackIntact
<1>6. QED
  BY <1>2, <1>4, <1>5 DEF f

LEMMA SentAsMeant == IInv /\ ByteInv => RequestIsUnderstood
<1> SUFFICES ASSUME IInv, ByteInv, phase = "sent"
             PROVE  LET unpacked == modbusUnpackRTU(frame)
                    IN  /\ unpacked.error = "ok" /\ unpacked.address = Address
                        /\ Understood(unpacked.pdu) = Meant(asked)
  BY DEF RequestIsUnderstood
<1>1. asked \in Requests /\ BuildError(asked) = OK
  BY DEF IInv, RequestInv
<1>2. modbusUnpackRTU(frame) = [error |-> "ok", address |-> Address, pdu |-> Built(asked)]
  BY <1>1, RequestFramed DEF ByteInv, RequestBytes
<1>3. Understood(Built(asked)) = Meant(asked)
  BY <1>1, UnderstoodAsMeant
<1>4. QED
  BY <1>2, <1>3

LEMMA InitBytes == Init => ByteInv
BY DEF Init, ByteInv, RequestBytes, AnswerBytes, ProperBytes, ReplyIsUnderstood, DamageIsNoticed

LEMMA BuildBytes == ByteInv /\ (\E r \in Requests : Build(r)) => ByteInv'
BY DEF Build, ByteInv, RequestBytes, AnswerBytes, ProperBytes, ReplyIsUnderstood,
       DamageIsNoticed

LEMMA SendBytes == IInv /\ ByteInv /\ Send => ByteInv'
<1> SUFFICES ASSUME IInv, ByteInv, Send
             PROVE  ByteInv'
  OBVIOUS
<1>1. /\ phase = "built" /\ phase' = "sent" /\ UNCHANGED <<asked, damaged, reply>>
      /\ frame' = IF padding = 0 THEN eMBRTUSend(Address, request) ELSE request
  BY DEF Send
<1>2. /\ asked \in Requests /\ BuildError(asked) = OK
      /\ request = IF padding = 0 THEN Built(asked)
                   ELSE modbusPackRTU(Address, Built(asked))
  BY <1>1 DEF IInv, RequestInv
<1>3. frame' = modbusPackRTU(Address, Built(asked))
  BY <1>1, <1>2, RequestFramed
<1>4. ~damaged
  BY <1>1 DEF ByteInv, AnswerBytes
<1>5. QED
  BY <1>1, <1>3, <1>4
     DEF ByteInv, RequestBytes, AnswerBytes, ProperBytes, ReplyIsUnderstood, DamageIsNoticed

\* A reply of bytes is an intact frame.
LEMMA AnswersBytes ==
    ASSUME ByteInv, phase = "sent", NEW from \in Byte, NEW pdu \in Seq(Byte),
           Len(pdu) \in 2 .. 253, NEW kind, NEW given, Answers(from, pdu, kind, given),
           kind = "proper" =>
             \E seed \in Seeds : /\ given = SlaveValues(Built(asked), seed)
                                 /\ from = Address /\ pdu = ProperReply(Built(asked), given)
    PROVE  ByteInv'
<1>1. /\ phase' = "answered" /\ frame' = modbusPackRTU(from, pdu)
      /\ reply' = [kind |-> kind, values |-> given] /\ UNCHANGED <<asked, damaged>>
  BY DEF Answers
<1>2. ~damaged
  BY DEF ByteInv, AnswerBytes
<1>3. frame' \in Seq(Byte) /\ Len(frame') = Len(pdu) + 3 /\ Intact(frame')
  BY <1>1, PackedFrame DEF IsIntactFrame
<1>4. Len(frame') \in 5 .. 256
  <2>1. \A n \in 2 .. 253 : n + 3 \in 5 .. 256
    OBVIOUS
  <2> DEFINE n == Len(pdu)
  <2>2. n \in 2 .. 253 /\ Len(frame') = n + 3
    BY <1>3, SMTT(40)
  <2> HIDE DEF n
  <2>3. QED
    BY <2>1, <2>2
<1>5. AnswerBytes'
  <2>1. Intact(frame)' <=> Intact(frame')
    BY DEF Intact
  <2>2. QED
    BY <1>1, <1>2, <1>3, <1>4, <2>1 DEF AnswerBytes
<1>6. ProperBytes'
  BY <1>1 DEF ProperBytes
<1>7. RequestBytes' /\ ReplyIsUnderstood' /\ DamageIsNoticed'
  BY <1>1 DEF RequestBytes, ReplyIsUnderstood, DamageIsNoticed
<1>8. QED
  BY <1>5, <1>6, <1>7 DEF ByteInv

\* An exception, from whatever slave.
LEMMA RefusalBytes ==
    ASSUME IInv, phase = "sent"
    PROVE  <<Received[1] + 128, 2>> \in Seq(Byte) /\ Len(<<Received[1] + 128, 2>>) \in 2 .. 253
<1>1. Received[1] \in (1 .. 6) \cup {15, 16, 22}
  BY SlaveReceives, Functions, BuiltBytes
<1>2. Received[1] + 128 \in Byte /\ 2 \in Byte
  BY <1>1 DEF Byte
<1>3. QED
  BY <1>2, Pair

LEMMA SlaveBytes == IInv /\ ByteInv /\ SlaveAnswers => ByteInv'
<1> SUFFICES ASSUME IInv, ByteInv, SlaveAnswers
             PROVE  ByteInv'
  OBVIOUS
<1>1. phase = "sent"
  BY DEF SlaveAnswers
<1>2. /\ asked \in Requests /\ BuildError(asked) = OK
      /\ Received = Built(asked) /\ Address \in Byte
  BY <1>1, SlaveReceives, Addresses
<1>3. PICK seed \in Seeds :
        LET reading == SlaveValues(Built(asked), seed)
            proper == ProperReply(Built(asked), reading)
        IN  \/ Answers(Address, proper, "proper", reading)
            \/ \E pdu \in OddReplies(proper) : Answers(Address, pdu, "odd", <<>>)
            \/ Answers(Address, <<Received[1] + 128, 2>>, "exception", <<>>)
  BY <1>2, Zenon DEF SlaveAnswers
<1> DEFINE reading == SlaveValues(Built(asked), seed)
           proper == ProperReply(Built(asked), reading)
<1>4. proper \in Seq(Byte) /\ Len(proper) \in 3 .. 252
  <2>1. seed \in Nat
    BY SlaveAssumption
  <2>2. QED
    BY <1>2, <2>1, ProperAccepted, SMTT(40)
<1>5. CASE Answers(Address, proper, "proper", reading)
  <2>1. Len(proper) \in 2 .. 253
    <3> DEFINE l == Len(proper)
    <3>1. l \in 3 .. 252
      BY <1>4
    <3> HIDE DEF l
    <3>2. l \in 2 .. 253
      BY <3>1
    <3>3. QED
      BY <3>2 DEF l
  <2>2. \E s \in Seeds : /\ reading = SlaveValues(Built(asked), s)
                         /\ Address = Address /\ proper = ProperReply(Built(asked), reading)
    OBVIOUS
  <2> HIDE DEF proper, reading
  <2>3. QED
    BY <1>1, <1>2, <1>4, <1>5, <2>1, <2>2, AnswersBytes
<1> HIDE DEF proper, reading
<1>6. ASSUME NEW pdu \in OddReplies(proper), Answers(Address, pdu, "odd", <<>>)
      PROVE  ByteInv'
  <2>1. pdu \in Seq(Byte) /\ Len(pdu) \in 2 .. 253
    BY <1>4, <1>6, OddBytes
  <2>2. QED
    BY <1>1, <1>2, <1>6, <2>1, AnswersBytes, SMTT(40)
<1>7. CASE Answers(Address, <<Received[1] + 128, 2>>, "exception", <<>>)
  <2> DEFINE pdu == <<Received[1] + 128, 2>>
  <2>1. pdu \in Seq(Byte) /\ Len(pdu) \in 2 .. 253
    BY <1>1, RefusalBytes
  <2> HIDE DEF pdu
  <2>2. Answers(Address, pdu, "exception", <<>>)
    BY <1>7 DEF pdu
  <2>3. QED
    BY <1>1, <1>2, <2>1, <2>2, AnswersBytes
<1>8. QED
  BY <1>3, <1>5, <1>6, <1>7, Zenon DEF proper, reading

LEMMA StrangerBytes == IInv /\ ByteInv /\ StrangerAnswers => ByteInv'
<1> SUFFICES ASSUME IInv, ByteInv, StrangerAnswers
             PROVE  ByteInv'
  OBVIOUS
<1> DEFINE pdu == <<Received[1] + 128, 2>>
<1>1. phase = "sent" /\ Answers(Address + 1, pdu, "stranger", <<>>)
  BY DEF StrangerAnswers
<1>2. pdu \in Seq(Byte) /\ Len(pdu) \in 2 .. 253
  BY <1>1, RefusalBytes
<1> HIDE DEF pdu
<1>3. QED
  BY <1>1, <1>2, Addresses, AnswersBytes

\* What is added to a byte changes it.
Added(x, y) == (x + y) % 256

LEMMA AddedByte ==
    \A x \in Byte, y \in Byte : Added(x, y) \in Byte /\ (y # 0 => Added(x, y) # x)
<1> TAKE x \in Byte, y \in Byte
<1>1. x \in 0 .. 255 /\ y \in 0 .. 255
  BY DEF Byte
<1>2. (x + y) % 256 = IF x + y < 256 THEN x + y ELSE x + y - 256
  BY <1>1
<1>3. QED
  BY <1>1, <1>2 DEF Byte, Added

\* Damage is the only thing that makes a frame differ from an intact one.
LEMMA DamageBytes == IInv /\ ByteInv /\ Damage => ByteInv'
<1> SUFFICES ASSUME IInv, ByteInv, Damage
             PROVE  ByteInv'
  OBVIOUS
<1>1. /\ phase = "answered" /\ ~damaged /\ damaged' = TRUE
      /\ UNCHANGED <<phase, asked, reply>>
  BY DEF Damage
<1>2. frame \in Seq(Byte) /\ Len(frame) \in 5 .. 256 /\ Intact(frame)
  BY <1>1 DEF ByteInv, AnswerBytes
<1> DEFINE l == Len(frame)
<1>3. PICK n \in {1, 2, Len(frame) \div 2, Len(frame) - 1}, d \in Deltas, e \in Deltas \cup {0} :
        LET once == [frame EXCEPT ![n] = (@ + d) % 256]
        IN  frame' = [once EXCEPT ![n + 1] = (@ + e) % 256]
  BY Zenon DEF Damage
<1>4. n \in 1 .. l - 1 /\ n \in 1 .. l /\ n + 1 \in 1 .. l /\ n # n + 1
  <2>1. l \in 5 .. 256 /\ n \in {1, 2, l \div 2, l - 1}
    BY <1>2
  <2> HIDE DEF l
  <2>2. QED
    BY <2>1
<1>5. d \in 1 .. 255 /\ e \in 0 .. 255
  <2>1. Deltas \subseteq 1 .. 255
    BY SlaveAssumption
  <2>2. QED
    BY <2>1
<1>6. IsSequence(frame) /\ \A k \in 1 .. l : frame[k] \in Byte
  BY <1>2, BytesAreSequence
<1>7. frame = [k \in 1 .. l |-> frame[k]] /\ DOMAIN frame = 1 .. l /\ l \in Nat
  BY <1>6, Lengths
<1> HIDE DEF l
<1>8. frame[n] \in Byte /\ frame[n + 1] \in Byte
  BY <1>4, <1>6
<1> DEFINE p == Added(frame[n], d)
           q == Added(frame[n + 1], e)
<1>9. p \in Byte /\ p # frame[n] /\ q \in Byte
  <2>1. d \in Byte /\ d # 0 /\ e \in Byte
    BY <1>5 DEF Byte
  <2>2. QED
    BY <1>8, <2>1, AddedByte, Zenon
<1>10. /\ frame' = [k \in 1 .. l |-> frame'[k]]
       /\ frame'[n] = p /\ frame'[n + 1] = q
       /\ \A k \in 1 .. l : k \notin {n, n + 1} => frame'[k] = frame[k]
  <2> HIDE DEF p, q
  <2>1. frame' = [[frame EXCEPT ![n] = p] EXCEPT ![n + 1] = q]
    BY <1>3, <1>4, <1>7 DEF p, q, Added
  <2>2. QED
    BY <1>4, <1>7, <2>1
<1> HIDE DEF p, q
<1>11. ASSUME NEW k \in 1 .. l
       PROVE  frame'[k] \in Byte
  <2>1. CASE k = n
    BY <1>9, <1>10, <2>1, Zenon
  <2>2. CASE k = n + 1
    BY <1>9, <1>10, <2>2, Zenon
  <2>3. CASE k \notin {n, n + 1}
    BY <1>6, <1>10, <2>3, Zenon
  <2>4. QED
    BY <2>1, <2>2, <2>3
<1>12. frame' \in Seq(Byte) /\ Len(frame') = l
  BY <1>7, <1>10, <1>11, BytesIn
<1>13. ~Intact(frame')
  <2>1. frame # frame'
    BY <1>9, <1>10
  <2>2. ~(Intact(frame) /\ Intact(frame'))
    <3>1. /\ n \in 1 .. Len(frame) - 1 /\ Len(frame) = Len(frame')
          /\ \A k \in 1 .. Len(frame) : k \notin {n, n + 1} => frame[k] = frame'[k]
      BY <1>4, <1>10, <1>12, SMTT(40) DEF l
    <3>2. QED
      BY <1>2, <1>12, <2>1, <3>1, DamageShows, Zenon
  <2>3. QED
    BY <1>2, <2>2
<1>14. AnswerBytes'
  <2>1. Intact(frame)' <=> Intact(frame')
    BY DEF Intact
  <2>2. QED
    BY <1>1, <1>2, <1>12, <1>13, <2>1 DEF AnswerBytes, l
<1>15. QED
  BY <1>1, <1>14
     DEF ByteInv, RequestBytes, ProperBytes, ReplyIsUnderstood, DamageIsNoticed

\* What becomes of a frame.
Verdict(result, f, r) ==
    IF ~Intact(f) THEN result.err \in {MB_EIO, Error("response", "crc")} /\ result.data = <<>>
    ELSE \/ result = modbusParseResponsePDU(Built(r), SubSeq(f, 2, Len(f) - 2))
         \/ f[1] # Address /\ result = Reject("response", "address")

LEMMA FrameIsJudged ==
    ASSUME IInv, phase = "answered", NEW f \in Seq(Byte), Len(f) \in 5 .. 256, NEW result,
           result = IF padding = 0 THEN eMBRTUReceive(f) ELSE modbusParseResponseRTU(request, f)
    PROVE  Verdict(result, f, asked)
<1>1. /\ asked \in Requests /\ BuildError(asked) = OK
      /\ request = IF padding = 0 THEN Built(asked)
                   ELSE modbusPackRTU(Address, Built(asked))
  BY SMTT(40) DEF IInv, RequestInv
<1>2. Len(f) >= MODBUS_RTU_ADU_MIN /\ FrameLengthOk(Len(f))
  <2>1. \A n \in 5 .. 256 : n >= MODBUS_RTU_ADU_MIN /\ FrameLengthOk(n)
    BY DEF FrameLengthOk, MODBUS_RTU_ADU_MIN, MODBUS_RTU_ADU_MAX
  <2>2. QED
    BY <2>1
<1> DEFINE pdu == SubSeq(f, 2, Len(f) - 2)
<1>3. CASE padding = 0
  <2>1. result = IF Intact(f) THEN modbusParseResponsePDU(Built(asked), pdu)
                 ELSE Parsed(MB_EIO, <<>>)
    BY <1>1, <1>2, <1>3 DEF eMBRTUReceive, Intact
  <2> HIDE DEF pdu
  <2>2. QED
    BY <2>1 DEF Verdict, Parsed, pdu
<1>4. CASE padding # 0
  <2> DEFINE own == modbusUnpackRTU(request)
             answer == modbusUnpackRTU(f)
  <2>1. own = [error |-> "ok", address |-> Address, pdu |-> Built(asked)]
    BY <1>1, <1>4, RequestFramed
  <2>2. answer = IF Intact(f) THEN [error |-> "ok", address |-> f[1], pdu |-> pdu]
                 ELSE [error |-> "crc", address |-> f[1], pdu |-> <<>>]
    BY <1>2, UnpackIntact
  <2>3. result = modbusParseResponseRTU(request, f)
    BY <1>4
  <2> HIDE DEF own, answer, pdu
  <2>4. result = IF own.error # "ok" THEN Reject("request", own.error)
                 ELSE IF answer.error # "ok" THEN Reject("response", answer.error)
                 ELSE IF own.address = 0 \/ own.address # answer.address
                      THEN Reject("response", "address")
                 ELSE modbusParseResponsePDU(own.pdu, answer.pdu)
    BY <2>3, Zenon DEF modbusParseResponseRTU, own, answer
  <2>5. own.error = "ok" /\ own.address = Address /\ own.pdu = Built(asked) /\ Address # 0
    BY <2>1, Addresses
  <2>6. CASE Intact(f)
    <3>1. answer.error = "ok" /\ answer.address = f[1] /\ answer.pdu = pdu
      BY <2>2, <2>6
    <3>2. QED
      BY <2>4, <2>5, <2>6, <3>1 DEF Verdict, pdu
  <2>7. CASE ~Intact(f)
    <3>1. answer.error = "crc"
      BY <2>2, <2>7
    <3>2. result = Reject("response", "crc")
      BY <2>4, <2>5, <3>1, SMTT(40)
    <3>3. QED
      BY <2>7, <3>2 DEF Verdict, Reject, Parsed
  <2>8. QED
    BY <2>6, <2>7
<1>5. QED
  BY <1>3, <1>4

LEMMA ReceiveBytes == IInv /\ ByteInv /\ Receive => ByteInv'
<1> SUFFICES ASSUME IInv, ByteInv, Receive
             PROVE  ByteInv'
  OBVIOUS
<1> DEFINE result == IF padding = 0 THEN eMBRTUReceive(frame)
                     ELSE modbusParseResponseRTU(request, frame)
<1>1. /\ phase = "answered" /\ phase' = "done"
      /\ err' = result.err /\ data' = result.data
      /\ UNCHANGED <<request, padding, frame, asked, reply, damaged>>
  BY DEF Receive
<1>2. /\ frame \in Seq(Byte) /\ Len(frame) \in 5 .. 256
      /\ damaged <=> ~Intact(frame)
  BY <1>1 DEF ByteInv, AnswerBytes
<1>3. asked \in Requests /\ BuildError(asked) = OK
  BY <1>1 DEF IInv, RequestInv
<1>4. Verdict(result, frame, asked)
  BY <1>1, <1>2, FrameIsJudged
<1> HIDE DEF result
<1>5. DamageIsNoticed'
  <2>1. CASE ~Intact(frame)
    BY <1>1, <1>2, <1>4, <2>1 DEF Verdict, DamageIsNoticed
  <2>2. CASE Intact(frame)
    <3>1. result.err.error # "crc"
      <4>1. Reject("response", "address").err.error # "crc"
        BY DEF Reject, Parsed, Error
      <4>2. QED
        BY <1>4, <2>2, <4>1, ParserIsSound DEF Verdict, IsSound
    <3>2. MB_EIO.error = "crc" /\ Error("response", "crc").error = "crc"
      BY DEF MB_EIO, Error
    <3>3. QED
      BY <1>1, <1>2, <2>2, <3>1, <3>2 DEF DamageIsNoticed
  <2>3. QED
    BY <2>1, <2>2
<1>6. ReplyIsUnderstood'
  <2>1. SUFFICES ASSUME reply.kind = "proper", ~damaged
                 PROVE  HandsOver(result, asked, reply.values)
    BY <1>1 DEF ReplyIsUnderstood, HandsOver
  <2>2. PICK seed \in Seeds :
          /\ reply.values = SlaveValues(Built(asked), seed)
          /\ frame = modbusPackRTU(Address, ProperReply(Built(asked), reply.values))
    BY <1>1, <2>1 DEF ByteInv, ProperBytes
  <2> DEFINE given == ProperReply(Built(asked), reply.values)
  <2>3. seed \in Nat
    BY SlaveAssumption
  <2>4. /\ given \in Seq(Byte)
        /\ HandsOver(modbusParseResponsePDU(Built(asked), given), asked, reply.values)
    BY <1>3, <2>2, <2>3, ProperAccepted
  <2> HIDE DEF given
  <2>5. frame[1] = Address /\ SubSeq(frame, 2, Len(frame) - 2) = given
    BY <2>2, <2>4, Addresses, PackedFrame DEF given, IsIntactFrame
  <2>6. result = modbusParseResponsePDU(Built(asked), given)
    BY <1>2, <1>4, <2>1, <2>5 DEF Verdict
  <2>7. QED
    BY <2>4, <2>6
<1>7. RequestBytes' /\ AnswerBytes' /\ ProperBytes'
  <2>1. Intact(frame)' <=> Intact(frame)
    BY <1>1 DEF Intact
  <2>2. QED
    BY <1>1, <2>1 DEF ByteInv, RequestBytes, AnswerBytes, ProperBytes
<1>8. QED
  BY <1>5, <1>6, <1>7 DEF ByteInv

LEMMA QuietBytes == ByteInv /\ (Destroy \/ Return \/ UNCHANGED vars) => ByteInv'
<1> SUFFICES ASSUME ByteInv, Destroy \/ Return \/ UNCHANGED vars
             PROVE  ByteInv'
  OBVIOUS
<1>1. CASE Destroy
  BY <1>1 DEF Destroy, ByteInv, RequestBytes, AnswerBytes, ProperBytes,
              ReplyIsUnderstood, DamageIsNoticed
<1>2. CASE Return
  <2>1. phase' = "idle" /\ damaged' = FALSE
    BY <1>2 DEF Return
  <2>2. QED
    BY <2>1 DEF ByteInv, RequestBytes, AnswerBytes, ProperBytes, ReplyIsUnderstood,
                DamageIsNoticed
<1>3. CASE UNCHANGED vars
  <2>1. Intact(frame)' <=> Intact(frame)
    BY <1>3 DEF vars, Intact
  <2>2. QED
    BY <1>3, <2>1 DEF vars, ByteInv, RequestBytes, AnswerBytes, ProperBytes,
                      ReplyIsUnderstood, DamageIsNoticed
<1>4. QED
  BY <1>1, <1>2, <1>3

\* Together the two parts hold in every state.
LEMMA Inductive == Spec => [](IInv /\ ByteInv)
<1>1. Init => IInv /\ ByteInv
  BY InitInv, InitBytes
<1>2. IInv /\ [Next]_vars => IInv'
  BY BuildInv, SendInv, SlaveInv, StrangerInv, DamageInv, ReceiveInv, QuietInv, Zenon
     DEF Next
<1>3. IInv /\ ByteInv /\ [Next]_vars => ByteInv'
  BY BuildBytes, SendBytes, SlaveBytes, StrangerBytes, DamageBytes, ReceiveBytes, QuietBytes,
     Zenon DEF Next
<1>4. QED
  BY <1>1, <1>2, <1>3, PTL DEF Spec

-----------------------------------------------------------------------------
(* Types *)

\* The library's errors and the link layer's.
Errors == {MB_EIO} \cup [source : ErrorSource, error : ModbusError]

\* The types that do not depend on the rest of the invariant.
TypeInv ==
    /\ phase \in {"idle", "built", "sent", "answered", "done"}
    /\ padding \in {0, MODBUS_RTU_ADU_PADDING}
    /\ request \in Seq(Byte)
    /\ err \in Errors
    /\ asked \in Requests \cup {NoRequest}
    /\ phase \in {"idle", "built"} => frame = <<>>

LEMMA RefusalsTyped ==
    \A s \in {"general", "request", "response"}, code \in ModbusError :
      Reject(s, code).err \in Errors /\ Error(s, code) \in Errors
BY DEF Reject, Parsed, Error, Errors, ErrorSource

LEMMA ResultsTyped ==
    ASSUME NEW asking, NEW given
    PROVE  modbusParseResponsePDU(asking, given).err \in Errors
BY ParserIsSound DEF IsSound, Errors

LEMMA FrameResultsTyped ==
    ASSUME NEW given
    PROVE  /\ eMBRTUReceive(given).err \in Errors
           /\ modbusParseResponseRTU(request, given).err \in Errors
<1>1. Parsed(MB_EIO, <<>>).err \in Errors
  BY DEF Parsed, Errors
<1>2. \A f : modbusUnpackRTU(f).error \in {"ok", "length", "crc"}
  BY DEF modbusUnpackRTU
<1>3. {"ok", "length", "crc", "address"} \subseteq ModbusError
  BY DEF ModbusError
<1>4. QED
  BY <1>1, <1>2, <1>3, RefusalsTyped, ResultsTyped, Zenon
     DEF eMBRTUReceive, modbusParseResponseRTU

LEMMA BuildTyped == TypeInv /\ (\E r \in Requests : Build(r)) => TypeInv'
<1> SUFFICES ASSUME TypeInv, NEW r \in Requests, Build(r)
             PROVE  TypeInv'
  OBVIOUS
<1>1. BuildError(r) \in Errors /\ Error("general", "alloc") \in Errors /\ OK \in Errors
  <2>1. /\ {"ok", "alloc", "count", "range", "function"} \subseteq ModbusError
        /\ "general" \in {"general", "request", "response"}
    BY DEF ModbusError
  <2>2. \A code \in {"ok", "alloc", "count", "range", "function"} :
          Error("general", code) \in Errors
    BY <2>1, RefusalsTyped
  <2>3. CountError(r) \in Errors /\ OK \in Errors
    BY <2>2 DEF CountError, OK
  <2>4. QED
    BY <2>2, <2>3 DEF BuildError
<1>2. BuildError(r) = OK =>
        Built(r) \in Seq(Byte) /\ modbusPackRTU(Address, Built(r)) \in Seq(Byte)
  BY BuiltBytes, RequestFramed DEF IsIntactFrame
<1>3. request' \in Seq(Byte)
  <2>1. \/ request' = request \/ request' = <<>>
        \/ /\ BuildError(r) = OK
           /\ request' \in {Built(r), modbusPackRTU(Address, Built(r))}
    BY DEF Build
  <2>2. request \in Seq(Byte) /\ <<>> \in Seq(Byte)
    BY DEF TypeInv
  <2>3. QED
    BY <1>2, <2>1, <2>2
<1>4. /\ phase' \in {"idle", "built"} /\ frame' = frame /\ phase = "idle"
      /\ padding' \in {0, MODBUS_RTU_ADU_PADDING}
      /\ asked' \in Requests \cup {NoRequest}
      /\ err' \in {BuildError(r), Error("general", "alloc"), OK}
  BY DEF Build, TypeInv
<1>5. QED
  BY <1>1, <1>3, <1>4 DEF TypeInv

LEMMA TypeKept == TypeInv /\ [Next]_vars => TypeInv'
<1> SUFFICES ASSUME TypeInv, [Next]_vars
             PROVE  TypeInv'
  OBVIOUS
<1>1. CASE \E r \in Requests : Build(r)
  BY <1>1, BuildTyped
<1>2. CASE Destroy
  BY <1>2 DEF Destroy, TypeInv
<1>3. CASE Send
  BY <1>3 DEF Send, TypeInv
<1>4. CASE Receive
  BY <1>4, FrameResultsTyped DEF Receive, TypeInv
<1>5. CASE Return
  BY <1>5 DEF Return, TypeInv
<1>6. CASE SlaveAnswers \/ StrangerAnswers
  BY <1>6 DEF SlaveAnswers, StrangerAnswers, Answers, TypeInv
<1>7. CASE Damage
  BY <1>7 DEF Damage, TypeInv
<1>8. CASE UNCHANGED vars
  BY <1>8 DEF vars, TypeInv
<1>9. QED
  BY <1>1, <1>2, <1>3, <1>4, <1>5, <1>6, <1>7, <1>8 DEF Next

-----------------------------------------------------------------------------
(* The theorems *)

\* Buffers and frames are bytes, a request fits a PDU, and errors are the library's or
\* the link layer's (base.h:46-205, master.impl.h:93-140).
THEOREM TypeCorrect == Spec => []TypeOK
<1>1. IInv /\ ByteInv /\ TypeInv => TypeOK
  <2> SUFFICES ASSUME IInv, ByteInv, TypeInv
               PROVE  TypeOK
    OBVIOUS
  <2>1. /\ frame \in Seq(Byte)
        /\ phase # "idle" => Len(request) - padding \in 1 .. MODBUS_PDU_MAX
    <3>1. CASE phase = "idle"
      BY <3>1 DEF TypeInv
    <3>2. CASE phase # "idle"
      <4>1. asked \in Requests /\ BuildError(asked) = OK
        BY <3>2 DEF IInv, RequestInv
      <4>2. /\ Built(asked) \in Seq(Byte) /\ Len(Built(asked)) \in 5 .. 252
            /\ modbusPackRTU(Address, Built(asked)) \in Seq(Byte)
            /\ Len(modbusPackRTU(Address, Built(asked))) = Len(Built(asked)) + 3
        BY <4>1, BuiltBytes, RequestFramed DEF IsIntactFrame
      <4>3. Len(request) - padding = Len(Built(asked))
        BY <3>2, <4>2 DEF IInv, RequestInv, TypeInv, MODBUS_RTU_ADU_PADDING
      <4>4. ASSUME phase = "built" PROVE frame \in Seq(Byte)
        BY <4>4 DEF TypeInv
      <4>5. ASSUME phase = "sent" PROVE frame \in Seq(Byte)
        BY <4>2, <4>5 DEF ByteInv, RequestBytes
      <4>6. ASSUME phase \in {"answered", "done"} PROVE frame \in Seq(Byte)
        BY <4>6 DEF ByteInv, AnswerBytes
      <4>7. frame \in Seq(Byte)
        <5>1. phase \in {"built", "sent", "answered", "done"}
          BY <3>2 DEF TypeInv
        <5>2. QED
          BY <4>4, <4>5, <4>6, <5>1
      <4>8. Len(request) - padding \in 1 .. MODBUS_PDU_MAX
        <5> DEFINE n == Len(Built(asked))
        <5>1. n \in 5 .. 252
          BY <4>2
        <5> HIDE DEF n
        <5>2. n \in 1 .. MODBUS_PDU_MAX
          BY <5>1 DEF MODBUS_PDU_MAX
        <5>3. QED
          BY <4>3, <5>2 DEF n
      <4>9. QED
        BY <4>7, <4>8
    <3>3. QED
      BY <3>1, <3>2
  <2>2. QED
    BY <2>1 DEF TypeInv, TypeOK, Errors
<1>2. Init => TypeInv
  <2>1. OK \in Errors
    BY RefusalsTyped DEF OK, ModbusError
  <2>2. QED
    BY <2>1 DEF Init, TypeInv
<1>3. QED
  BY <1>1, <1>2, Inductive, TypeKept, PTL DEF Spec

\* Whatever arrives in place of a reply: the data callback gets the values asked for,
\* each under its index and read inside the reply, or nothing at all
\* (master_func.impl.h:70-113, mbrtu.c:131-165).
THEOREM DataIsAsAsked == Spec => []DataIsTheReplys
<1>1. IInv => DataIsTheReplys
  BY DEF IInv, DataInv
<1>2. QED
  BY Inductive, <1>1, PTL

\* The slave finds every request intact, whether the link layer or the library framed
\* it, and takes it for the request the builder was asked: the function, the index and
\* each of the values, at every size the builder accepts (master_func.impl.h:261-453,
\* mbrtu.c:168-207, base.h:494-510).
THEOREM RequestsAreUnderstood == Spec => []RequestIsUnderstood
BY Inductive, SentAsMeant, PTL

\* A proper reply that arrives as it was sent is accepted, and the data callback gets
\* every value of the slave's under its index (master_func.impl.h:28-247).
THEOREM RepliesAreUnderstood == Spec => []ReplyIsUnderstood
<1>1. ByteInv => ReplyIsUnderstood
  BY DEF ByteInv
<1>2. QED
  BY Inductive, <1>1, PTL

\* A frame that the line changed in one byte, or in two that follow each other, is
\* refused for its checksum, in both modes and wherever in the frame that is; a frame
\* that it left alone never is (mbrtu.c:145, base.h:477).
THEOREM DamageIsFound == Spec => []DamageIsNoticed
<1>1. ByteInv => DamageIsNoticed
  BY DEF ByteInv
<1>2. QED
  BY Inductive, <1>1, PTL
=============================================================================
