---------------------------- MODULE CodecProofs ----------------------------
(***************************************************************************)
(* Theorems about the bytes: for any items that can be written, any number *)
(* of them, any buffer and any cut, and a byte of any size above 11.  What *)
(* recursive functions compute is proved by induction over their argument. *)
(***************************************************************************)
EXTENDS Codec, SequenceTheorems, WellFoundedInduction, TLAPS

\* Division with a remainder is unique.
LEMMA DivModOf ==
    ASSUME NEW n \in Nat \ {0}, NEW a \in 0 .. n - 1, NEW b \in Nat
    PROVE  (a + n * b) % n = a /\ (a + n * b) \div n = b
  <1> DEFINE v == a + n * b
             q == v \div n
             r == v % n
  <1>1. n * b \in Nat /\ v \in Nat
    OBVIOUS
  <1>2. q \in Nat /\ r \in 0 .. n - 1 /\ v = n * q + r
    BY <1>1
  <1> HIDE DEF q, r
  <1>3. q = b
    <2>1. CASE q < b
      <3>1. n * q + n <= n * b
        BY <1>2, <2>1
      <3> QED
        BY <1>1, <1>2, <3>1
    <2>2. CASE b < q
      <3>1. n * b + n <= n * q
        BY <1>2, <2>2
      <3> QED
        BY <1>1, <1>2, <3>1
    <2> QED
      BY <1>2, <2>1, <2>2
  <1>4. r = a
    BY <1>1, <1>2, <1>3
  <1> QED
    BY <1>3, <1>4 DEF q, r

\* A number is its remainder and its quotient put together.
LEMMA DivModOfNumber ==
    ASSUME NEW n \in Nat \ {0}, NEW m \in Nat, NEW v \in 0 .. n * m - 1
    PROVE  /\ v % n \in 0 .. n - 1
           /\ v \div n \in 0 .. m - 1
           /\ v = (v % n) + n * (v \div n)
  <1> DEFINE q == v \div n
             r == v % n
  <1>1. n * m \in Nat /\ v \in Nat
    OBVIOUS
  <1>2. q \in Nat /\ r \in 0 .. n - 1 /\ v = n * q + r
    BY <1>1
  <1> HIDE DEF q, r
  <1>3. q < m
    <2> SUFFICES ASSUME m <= q PROVE FALSE
      BY <1>2
    <2>1. n * m <= n * q
      BY <1>2
    <2> QED
      BY <1>1, <1>2, <2>1
  <1> QED
    BY <1>2, <1>3 DEF q, r

\* Two digits put together are below the square of their base.
LEMMA Composed ==
    ASSUME NEW n \in Nat \ {0}, NEW a \in 0 .. n - 1, NEW b \in 0 .. n - 1
    PROVE  a + n * b \in 0 .. n * n - 1
  <1>1. n * b + n <= n * n /\ n * b \in Nat /\ n * n \in Nat
    OBVIOUS
  <1> QED
    BY <1>1

\* Each size is the square of the one before it.
LEMMA Sizes ==
    /\ Base \in Nat \ {0} /\ Base > 11
    /\ Size16 \in Nat \ {0} /\ Size16 = Base * Base /\ Size16 > Base
    /\ Size32 \in Nat \ {0} /\ Size32 = Size16 * Size16 /\ Size32 > Size16
    /\ Size64 \in Nat \ {0} /\ Size64 = Size32 * Size32 /\ Size64 > Size32
  <1>1. \A n \in Nat : n > 11 => n * n \in Nat /\ n * n > n
    OBVIOUS
  <1> QED
    BY <1>1, BaseAssumption DEF Size16, Size32, Size64

\* The concatenation of two buffers, byte by byte.
LEMMA Concat ==
    ASSUME NEW s \in Seq(Byte), NEW t \in Seq(Byte)
    PROVE  /\ s \o t \in Seq(Byte)
           /\ Len(s) \in Nat /\ Len(t) \in Nat /\ Len(s \o t) = Len(s) + Len(t)
           /\ \A i \in 1 .. Len(s) : (s \o t)[i] = s[i]
           /\ \A i \in 1 .. Len(t) : (s \o t)[Len(s) + i] = t[i]
  <1>1. Len(s) \in Nat /\ Len(t) \in Nat
    BY LenProperties
  <1>2. /\ s \o t \in Seq(Byte)
        /\ Len(s \o t) = Len(s) + Len(t)
        /\ \A i \in 1 .. Len(s) + Len(t) :
              (s \o t)[i] = IF i <= Len(s) THEN s[i] ELSE t[i - Len(s)]
    BY ConcatProperties
  <1>3. ASSUME NEW i \in 1 .. Len(s) PROVE (s \o t)[i] = s[i]
    BY <1>1, <1>2
  <1>4. ASSUME NEW i \in 1 .. Len(t) PROVE (s \o t)[Len(s) + i] = t[i]
    <2>1. Len(s) + i \in 1 .. Len(s) + Len(t) /\ ~(Len(s) + i <= Len(s))
          /\ (Len(s) + i) - Len(s) = i
      BY <1>1
    <2> QED
      BY <1>2, <2>1
  <1> QED
    BY <1>1, <1>2, <1>3, <1>4

\* Two halves of the same length, element by element.
LEMMA ConcatOfTwo ==
    ASSUME NEW s \in Seq(Byte), NEW t \in Seq(Byte), NEW k \in Nat, Len(s) = k, Len(t) = k
    PROVE  /\ s \o t \in Seq(Byte) /\ Len(s \o t) = k + k
           /\ \A i \in 1 .. k : (s \o t)[i] = s[i] /\ (s \o t)[k + i] = t[i]
  <1>1. /\ s \o t \in Seq(Byte) /\ Len(s \o t) = Len(s) + Len(t)
        /\ \A i \in 1 .. Len(s) : (s \o t)[i] = s[i]
        /\ \A i \in 1 .. Len(t) : (s \o t)[Len(s) + i] = t[i]
    BY Concat
  <1>2. /\ s \o t \in Seq(Byte) /\ Len(s \o t) = k + k
        /\ \A i \in 1 .. k : (s \o t)[i] = s[i]
        /\ \A i \in 1 .. k : (s \o t)[k + i] = t[i]
    BY <1>1, Zenon
  <1> QED
    BY <1>2

\* The bytes of a uint16, and the number they are read as.
LEMMA Put16 ==
    ASSUME NEW v \in 0 .. Size16 - 1
    PROVE  /\ PutUint16(v) \in Seq(Byte) /\ Len(PutUint16(v)) = 2
           /\ \A b : b[1] = PutUint16(v)[1] /\ b[2] = PutUint16(v)[2] => Number16(b) = v
  <1>1. /\ v % Base \in Byte
        /\ v \div Base \in Byte
        /\ v = (v % Base) + Base * (v \div Base)
    BY Sizes, DivModOfNumber DEF Byte
  <1> QED
    BY <1>1 DEF PutUint16, Number16

\* Any two bytes are the uint16 that is read from them.
LEMMA Get16 ==
    ASSUME NEW b, b[1] \in Byte, b[2] \in Byte
    PROVE  /\ Number16(b) \in 0 .. Size16 - 1
           /\ PutUint16(Number16(b)) \in Seq(Byte) /\ Len(PutUint16(Number16(b))) = 2
           /\ \A i \in 1 .. 2 : PutUint16(Number16(b))[i] = b[i]
  <1>1. Number16(b) % Base = b[1] /\ Number16(b) \div Base = b[2]
    <2>1. Base \in Nat \ {0} /\ b[1] \in 0 .. Base - 1 /\ b[2] \in Nat
      BY Sizes DEF Byte
    <2> QED
      BY <2>1, DivModOf DEF Number16
  <1>2. \A c \in Byte, d \in Byte : c + Base * d \in 0 .. Base * Base - 1
    <2> SUFFICES ASSUME NEW c \in Byte, NEW d \in Byte
                 PROVE  c + Base * d \in 0 .. Base * Base - 1
      OBVIOUS
    <2>1. Base * d + Base <= Base * Base /\ Base * d \in Nat /\ Base * Base \in Nat
      BY Sizes DEF Byte
    <2> QED
      BY <2>1, Sizes DEF Byte
  <1> QED
    BY <1>1, <1>2, Sizes DEF Number16, PutUint16

\* The bytes of a uint32 are those of its halves, the low one first.
LEMMA Put32 ==
    ASSUME NEW v \in 0 .. Size32 - 1
    PROVE  /\ PutUint32(v) \in Seq(Byte) /\ Len(PutUint32(v)) = 4
           /\ \A b : (\A i \in 1 .. 4 : b[i] = PutUint32(v)[i]) => Number32(b) = v
  <1> DEFINE low == v % Size16
             high == v \div Size16
  <1>1. low \in 0 .. Size16 - 1 /\ high \in 0 .. Size16 - 1 /\ v = low + Size16 * high
    <2>1. Size16 \in Nat \ {0} /\ v \in 0 .. Size16 * Size16 - 1
      BY Sizes
    <2> QED
      BY <2>1, DivModOfNumber
  <1>2. PutUint32(v) = PutUint16(low) \o PutUint16(high)
    BY DEF PutUint32
  <1> HIDE DEF low, high
  <1>3. /\ PutUint16(low) \in Seq(Byte) /\ Len(PutUint16(low)) = 2
        /\ PutUint16(high) \in Seq(Byte) /\ Len(PutUint16(high)) = 2
    BY <1>1, Put16
  <1>4. /\ PutUint32(v) \in Seq(Byte)
        /\ Len(PutUint32(v)) = 4
        /\ PutUint32(v)[1] = PutUint16(low)[1] /\ PutUint32(v)[2] = PutUint16(low)[2]
        /\ PutUint32(v)[3] = PutUint16(high)[1] /\ PutUint32(v)[4] = PutUint16(high)[2]
    <2>1. /\ PutUint32(v) \in Seq(Byte) /\ Len(PutUint32(v)) = 2 + 2
          /\ \A i \in 1 .. 2 : /\ PutUint32(v)[i] = PutUint16(low)[i]
                               /\ PutUint32(v)[2 + i] = PutUint16(high)[i]
      <3>1. PICK s \in Seq(Byte), t \in Seq(Byte) : s = PutUint16(low) /\ t = PutUint16(high)
        BY <1>3
      <3>2. Len(s) = 2 /\ Len(t) = 2 /\ PutUint32(v) = s \o t
        BY <1>2, <1>3, <3>1
      <3>3. /\ s \o t \in Seq(Byte) /\ Len(s \o t) = 2 + 2
            /\ \A i \in 1 .. 2 : (s \o t)[i] = s[i] /\ (s \o t)[2 + i] = t[i]
        BY <3>2, 2 \in Nat, ConcatOfTwo, Zenon
      <3> QED
        BY <3>1, <3>2, <3>3, Zenon
    <2> QED
      BY <2>1
  <1>5. ASSUME NEW b, \A i \in 1 .. 4 : b[i] = PutUint32(v)[i] PROVE Number32(b) = v
    <2>1. Number16(b) = low
      BY <1>1, <1>4, <1>5, Put16
    <2>2. Number16(<<b[3], b[4]>>) = high
      BY <1>1, <1>4, <1>5, Put16
    <2> QED
      BY <1>1, <2>1, <2>2 DEF Number32
  <1> QED
    BY <1>4, <1>5

\* Any four bytes are the uint32 that is read from them.
LEMMA Get32 ==
    ASSUME NEW b, b[1] \in Byte, b[2] \in Byte, b[3] \in Byte, b[4] \in Byte
    PROVE  /\ Number32(b) \in 0 .. Size32 - 1
           /\ PutUint32(Number32(b)) \in Seq(Byte) /\ Len(PutUint32(Number32(b))) = 4
           /\ \A i \in 1 .. 4 : PutUint32(Number32(b))[i] = b[i]
  <1> DEFINE low == Number16(b)
             high == Number16(<<b[3], b[4]>>)
  <1>1. /\ low \in 0 .. Size16 - 1
        /\ PutUint16(low) \in Seq(Byte) /\ Len(PutUint16(low)) = 2
        /\ \A i \in 1 .. 2 : PutUint16(low)[i] = b[i]
    BY Get16
  <1>6. /\ high \in 0 .. Size16 - 1
        /\ PutUint16(high) \in Seq(Byte) /\ Len(PutUint16(high)) = 2
        /\ \A i \in 1 .. 2 : PutUint16(high)[i] = b[2 + i]
    <2> DEFINE c == <<b[3], b[4]>>
    <2>1. \A i \in 1 .. 2 : c[i] = b[2 + i] /\ c[i] \in Byte
      OBVIOUS
    <2> HIDE DEF c
    <2>2. /\ Number16(c) \in 0 .. Size16 - 1
          /\ PutUint16(Number16(c)) \in Seq(Byte) /\ Len(PutUint16(Number16(c))) = 2
          /\ \A i \in 1 .. 2 : PutUint16(Number16(c))[i] = c[i]
      BY <2>1, Get16
    <2> QED
      BY <2>1, <2>2 DEF c
  <1>2. Number32(b) = low + Size16 * high
    BY DEF Number32
  <1> HIDE DEF low, high
  <1>3. Number32(b) % Size16 = low /\ Number32(b) \div Size16 = high
    <2>1. Size16 \in Nat \ {0} /\ high \in Nat
      BY <1>1, <1>6, Sizes
    <2> QED
      BY <1>1, <1>2, <1>6, <2>1, DivModOf
  <1>4. Number32(b) \in 0 .. Size32 - 1
    <2>1. Size16 \in Nat \ {0} /\ Size32 = Size16 * Size16
      BY Sizes
    <2>2. low + Size16 * high \in 0 .. Size16 * Size16 - 1
      BY <1>1, <1>6, <2>1, Composed
    <2> QED
      BY <1>2, <2>1, <2>2
  <1>5. PutUint32(Number32(b)) = PutUint16(low) \o PutUint16(high)
    BY <1>3 DEF PutUint32
  <1>7. ASSUME NEW s \in Seq(Byte), NEW t \in Seq(Byte), Len(s) = 2, Len(t) = 2,
               \A i \in 1 .. 2 : s[i] = b[i] /\ t[i] = b[2 + i]
        PROVE  /\ s \o t \in Seq(Byte) /\ Len(s \o t) = 4
               /\ \A i \in 1 .. 4 : (s \o t)[i] = b[i]
    <2>1. /\ s \o t \in Seq(Byte) /\ Len(s \o t) = 4
          /\ \A i \in 1 .. 2 : (s \o t)[i] = b[i] /\ (s \o t)[2 + i] = b[2 + i]
      BY <1>7, Concat
    <2>2. \A i \in 1 .. 4 : i \in 1 .. 2 \/ (i - 2 \in 1 .. 2 /\ 2 + (i - 2) = i)
      OBVIOUS
    <2>3. ASSUME NEW i \in 1 .. 4 PROVE (s \o t)[i] = b[i]
      <3>1. CASE i \in 1 .. 2
        BY <2>1, <3>1
      <3>2. CASE i - 2 \in 1 .. 2 /\ 2 + (i - 2) = i
        BY <2>1, <3>2
      <3> QED
        BY <2>2, <3>1, <3>2
    <2> QED
      BY <2>1, <2>3
  <1> QED
    BY <1>1, <1>4, <1>5, <1>6, <1>7

\* The bytes of a uint64 are those of its halves, the low one first.
LEMMA Put64 ==
    ASSUME NEW v \in 0 .. Size64 - 1
    PROVE  /\ PutUint64(v) \in Seq(Byte) /\ Len(PutUint64(v)) = 8
           /\ \A b : (\A i \in 1 .. 8 : b[i] = PutUint64(v)[i]) => Number64(b) = v
  <1> DEFINE low == v % Size32
             high == v \div Size32
  <1>1. low \in 0 .. Size32 - 1 /\ high \in 0 .. Size32 - 1 /\ v = low + Size32 * high
    <2>1. Size32 \in Nat \ {0} /\ v \in 0 .. Size32 * Size32 - 1
      BY Sizes
    <2> QED
      BY <2>1, DivModOfNumber
  <1>2. PutUint64(v) = PutUint32(low) \o PutUint32(high)
    BY DEF PutUint64
  <1> HIDE DEF low, high
  <1>3. /\ PutUint32(low) \in Seq(Byte) /\ Len(PutUint32(low)) = 4
        /\ PutUint32(high) \in Seq(Byte) /\ Len(PutUint32(high)) = 4
    BY <1>1, Put32
  <1>4. /\ PutUint64(v) \in Seq(Byte)
        /\ Len(PutUint64(v)) = 8
        /\ \A i \in 1 .. 4 : PutUint64(v)[i] = PutUint32(low)[i]
        /\ PutUint64(v)[5] = PutUint32(high)[1] /\ PutUint64(v)[6] = PutUint32(high)[2]
        /\ PutUint64(v)[7] = PutUint32(high)[3] /\ PutUint64(v)[8] = PutUint32(high)[4]
    <2>1. /\ PutUint64(v) \in Seq(Byte) /\ Len(PutUint64(v)) = 4 + 4
          /\ \A i \in 1 .. 4 : /\ PutUint64(v)[i] = PutUint32(low)[i]
                               /\ PutUint64(v)[4 + i] = PutUint32(high)[i]
      <3>1. PICK s \in Seq(Byte), t \in Seq(Byte) : s = PutUint32(low) /\ t = PutUint32(high)
        BY <1>3
      <3>2. Len(s) = 4 /\ Len(t) = 4 /\ PutUint64(v) = s \o t
        BY <1>2, <1>3, <3>1
      <3>3. /\ s \o t \in Seq(Byte) /\ Len(s \o t) = 4 + 4
            /\ \A i \in 1 .. 4 : (s \o t)[i] = s[i] /\ (s \o t)[4 + i] = t[i]
        BY <3>2, 4 \in Nat, ConcatOfTwo, Zenon
      <3> QED
        BY <3>1, <3>2, <3>3, Zenon
    <2> QED
      BY <2>1
  <1>5. ASSUME NEW b, \A i \in 1 .. 8 : b[i] = PutUint64(v)[i] PROVE Number64(b) = v
    <2>1. Number32(b) = low
      BY <1>1, <1>4, <1>5, Put32
    <2>2. Number32(<<b[5], b[6], b[7], b[8]>>) = high
      <3>1. \A i \in 1 .. 4 : <<b[5], b[6], b[7], b[8]>>[i] = PutUint32(high)[i]
        BY <1>4, <1>5
      <3> QED
        BY <1>1, <3>1, Put32
    <2> QED
      BY <1>1, <2>1, <2>2 DEF Number64
  <1> QED
    BY <1>4, <1>5

\* Any eight bytes are the uint64 that is read from them.
LEMMA Get64 ==
    ASSUME NEW b, \A i \in 1 .. 8 : b[i] \in Byte
    PROVE  /\ Number64(b) \in 0 .. Size64 - 1
           /\ PutUint64(Number64(b)) \in Seq(Byte) /\ Len(PutUint64(Number64(b))) = 8
           /\ \A i \in 1 .. 8 : PutUint64(Number64(b))[i] = b[i]
  <1> DEFINE low == Number32(b)
             high == Number32(<<b[5], b[6], b[7], b[8]>>)
  <1>1. /\ low \in 0 .. Size32 - 1
        /\ PutUint32(low) \in Seq(Byte) /\ Len(PutUint32(low)) = 4
        /\ \A i \in 1 .. 4 : PutUint32(low)[i] = b[i]
    BY Get32
  <1>6. /\ high \in 0 .. Size32 - 1
        /\ PutUint32(high) \in Seq(Byte) /\ Len(PutUint32(high)) = 4
        /\ \A i \in 1 .. 4 : PutUint32(high)[i] = b[4 + i]
    <2> DEFINE c == <<b[5], b[6], b[7], b[8]>>
    <2>1. \A i \in 1 .. 4 : c[i] = b[4 + i] /\ c[i] \in Byte
      OBVIOUS
    <2> HIDE DEF c
    <2>2. /\ Number32(c) \in 0 .. Size32 - 1
          /\ PutUint32(Number32(c)) \in Seq(Byte) /\ Len(PutUint32(Number32(c))) = 4
          /\ \A i \in 1 .. 4 : PutUint32(Number32(c))[i] = c[i]
      BY <2>1, Get32
    <2> QED
      BY <2>1, <2>2 DEF c
  <1>2. Number64(b) = low + Size32 * high
    BY DEF Number64
  <1> HIDE DEF low, high
  <1>3. Number64(b) % Size32 = low /\ Number64(b) \div Size32 = high
    <2>1. Size32 \in Nat \ {0} /\ high \in Nat
      BY <1>1, <1>6, Sizes
    <2> QED
      BY <1>1, <1>2, <1>6, <2>1, DivModOf
  <1>4. Number64(b) \in 0 .. Size64 - 1
    <2>1. Size32 \in Nat \ {0} /\ Size64 = Size32 * Size32
      BY Sizes
    <2>2. low + Size32 * high \in 0 .. Size32 * Size32 - 1
      BY <1>1, <1>6, <2>1, Composed
    <2> QED
      BY <1>2, <2>1, <2>2
  <1>5. PutUint64(Number64(b)) = PutUint32(low) \o PutUint32(high)
    BY <1>3 DEF PutUint64
  <1>7. ASSUME NEW s \in Seq(Byte), NEW t \in Seq(Byte), Len(s) = 4, Len(t) = 4,
               \A i \in 1 .. 4 : s[i] = b[i] /\ t[i] = b[4 + i]
        PROVE  /\ s \o t \in Seq(Byte) /\ Len(s \o t) = 8
               /\ \A i \in 1 .. 8 : (s \o t)[i] = b[i]
    <2>1. /\ s \o t \in Seq(Byte) /\ Len(s \o t) = 8
          /\ \A i \in 1 .. 4 : (s \o t)[i] = b[i] /\ (s \o t)[4 + i] = b[4 + i]
      <3>1. /\ s \o t \in Seq(Byte) /\ Len(s \o t) = 4 + 4
            /\ \A i \in 1 .. 4 : (s \o t)[i] = s[i] /\ (s \o t)[4 + i] = t[i]
        BY <1>7, 4 \in Nat, ConcatOfTwo, Zenon
      <3> QED
        BY <1>7, <3>1
    <2>2. \A i \in 1 .. 8 : i \in 1 .. 4 \/ (i - 4 \in 1 .. 4 /\ 4 + (i - 4) = i)
      OBVIOUS
    <2>3. ASSUME NEW i \in 1 .. 8 PROVE (s \o t)[i] = b[i]
      <3>1. CASE i \in 1 .. 4
        BY <2>1, <3>1
      <3>2. CASE i - 4 \in 1 .. 4 /\ 4 + (i - 4) = i
        BY <2>1, <3>2
      <3> QED
        BY <2>2, <3>1, <3>2
    <2> QED
      BY <2>1, <2>3
  <1>8. LET both == PutUint32(low) \o PutUint32(high)
        IN /\ both \in Seq(Byte) /\ Len(both) = 8
           /\ \A i \in 1 .. 8 : both[i] = b[i]
    <2>1. \A i \in 1 .. 4 : PutUint32(low)[i] = b[i] /\ PutUint32(high)[i] = b[4 + i]
      BY <1>1, <1>6
    <2> QED
      BY <1>1, <1>6, <1>7, <2>1
  <1> QED
    BY <1>4, <1>5, <1>8

-----------------------------------------------------------------------------
(* Reading what was written.                                               *)

\* What is left of a buffer.
LEMMA AfterConcat ==
    ASSUME NEW s \in Seq(Byte), NEW t \in Seq(Byte), NEW n, n = Len(s)
    PROVE  After(n, s \o t) = t
  <1> DEFINE r == SubSeq(s \o t, n + 1, Len(s \o t))
  <1>1. /\ s \o t \in Seq(Byte)
        /\ n \in Nat /\ Len(t) \in Nat /\ Len(s \o t) = n + Len(t)
        /\ \A i \in 1 .. Len(t) : (s \o t)[n + i] = t[i]
    BY Concat
  <1>2. \A i \in n + 1 .. Len(s \o t) : (s \o t)[i] \in Byte
    <2>1. \A i \in 1 .. Len(s \o t) : (s \o t)[i] \in Byte
      BY <1>1, ElementOfSeq
    <2> QED
      BY <1>1, <2>1
  <1>3. /\ r \in Seq(Byte)
        /\ Len(r) = IF n + 1 <= Len(s \o t) THEN Len(s \o t) - (n + 1) + 1 ELSE 0
        /\ \A i \in 1 .. Len(s \o t) - (n + 1) + 1 : r[i] = (s \o t)[(n + 1) + i - 1]
    <2>1. n + 1 \in Int /\ Len(s \o t) \in Int
      BY <1>1
    <2> QED
      BY <1>2, <2>1, SubSeqProperties
  <1> HIDE DEF r
  <1>4. Len(r) = Len(t)
    BY <1>1, <1>3
  <1>5. ASSUME NEW i \in 1 .. Len(r) PROVE r[i] = t[i]
    <2>1. i \in 1 .. Len(s \o t) - (n + 1) + 1 /\ (n + 1) + i - 1 = n + i
      BY <1>1, <1>4
    <2> QED
      BY <1>1, <1>3, <1>4, <2>1
  <1>6. r = t
    BY <1>3, <1>4, <1>5, SeqEqual
  <1> QED
    BY <1>6 DEF r, After

\* A buffer is its first n bytes and what is left after them.
LEMMA AfterSplits ==
    ASSUME NEW b \in Seq(Byte), NEW n \in 0 .. Len(b)
    PROVE  /\ SubSeq(b, 1, n) \in Seq(Byte) /\ Len(SubSeq(b, 1, n)) = n
           /\ \A i \in 1 .. n : SubSeq(b, 1, n)[i] = b[i]
           /\ After(n, b) \in Seq(Byte) /\ Len(After(n, b)) = Len(b) - n
           /\ b = SubSeq(b, 1, n) \o After(n, b)
  <1>1. Len(b) \in Nat /\ \A i \in 1 .. Len(b) : b[i] \in Byte
    BY LenProperties, ElementOfSeq
  <1>2. /\ SubSeq(b, 1, n) \in Seq(Byte) /\ Len(SubSeq(b, 1, n)) = n
        /\ \A i \in 1 .. n : SubSeq(b, 1, n)[i] = b[i]
    <2>1. \A i \in 1 .. n : b[i] \in Byte
      BY <1>1
    <2>2. /\ SubSeq(b, 1, n) \in Seq(Byte)
          /\ Len(SubSeq(b, 1, n)) = IF 1 <= n THEN n - 1 + 1 ELSE 0
          /\ \A i \in 1 .. n - 1 + 1 : SubSeq(b, 1, n)[i] = b[1 + i - 1]
      BY <1>1, <2>1, SubSeqProperties
    <2> QED
      BY <1>1, <2>2
  <1>3. After(n, b) \in Seq(Byte) /\ Len(After(n, b)) = Len(b) - n
    <2>1. \A i \in n + 1 .. Len(b) : b[i] \in Byte
      BY <1>1
    <2>2. /\ SubSeq(b, n + 1, Len(b)) \in Seq(Byte)
          /\ Len(SubSeq(b, n + 1, Len(b)))
               = IF n + 1 <= Len(b) THEN Len(b) - (n + 1) + 1 ELSE 0
      BY <1>1, <2>1, SubSeqProperties
    <2> QED
      BY <1>1, <2>2 DEF After
  <1>4. SubSeq(b, 1, n) \o SubSeq(b, n + 1, Len(b)) = SubSeq(b, 1, Len(b))
    <2>1. 1 \in 1 .. Len(b) + 1 /\ n \in 1 - 1 .. Len(b) /\ Len(b) \in n .. Len(b)
      BY <1>1
    <2> QED
      BY <2>1, ConcatAdjacentSubSeq
  <1> QED
    BY <1>2, <1>3, <1>4, SubSeqFull DEF After

\* What arrives of s and t, in this order, before z is lost: a part of s, or s and more.
CutWithin(p, z, s, t) ==
    \/ \E y \in Seq(Byte) : y # <<>> /\ p \o y = s
    \/ \E q \in Seq(Byte) : p = s \o q /\ q \o z = t

\* A buffer of two parts is cut within the first or not before its end.
LEMMA CutAnywhere ==
    ASSUME NEW p \in Seq(Byte), NEW z \in Seq(Byte), NEW s \in Seq(Byte), NEW t \in Seq(Byte),
           p \o z = s \o t
    PROVE  CutWithin(p, z, s, t)
  <1>1. /\ Len(p) \in Nat /\ Len(z) \in Nat /\ Len(s) \in Nat /\ Len(t) \in Nat
        /\ Len(p) + Len(z) = Len(s) + Len(t)
        /\ \A i \in 1 .. Len(p) : (s \o t)[i] = p[i]
        /\ \A i \in 1 .. Len(s) : (s \o t)[i] = s[i]
    BY Concat
  <1>2. CASE Len(p) < Len(s)
    <2> DEFINE h == SubSeq(s, 1, Len(p))
               y == After(Len(p), s)
    <2>1. /\ h \in Seq(Byte) /\ Len(h) = Len(p) /\ \A i \in 1 .. Len(p) : h[i] = s[i]
          /\ y \in Seq(Byte) /\ Len(y) = Len(s) - Len(p)
          /\ s = h \o y
      BY <1>1, <1>2, AfterSplits
    <2> HIDE DEF h, y
    <2>2. \A i \in 1 .. Len(p) : p[i] = h[i]
      BY <1>1, <1>2, <2>1
    <2>3. p = h
      BY <2>1, <2>2, SeqEqual
    <2>4. y # <<>>
      BY <1>1, <1>2, <2>1, EmptySeq
    <2> QED
      BY <2>1, <2>3, <2>4 DEF CutWithin
  <1>3. CASE Len(s) <= Len(p)
    <2> DEFINE h == SubSeq(p, 1, Len(s))
               q == After(Len(s), p)
    <2>1. /\ h \in Seq(Byte) /\ Len(h) = Len(s) /\ \A i \in 1 .. Len(s) : h[i] = p[i]
          /\ q \in Seq(Byte) /\ p = h \o q
      BY <1>1, <1>3, AfterSplits
    <2> HIDE DEF h, q
    <2>2. \A i \in 1 .. Len(s) : h[i] = s[i]
      BY <1>1, <1>3, <2>1
    <2>3. h = s
      BY <2>1, <2>2, SeqEqual
    <2>4. (s \o q) \o z = s \o (q \o z)
      BY <2>1, ConcatAssociative
    <2>5. q \o z \in Seq(Byte)
      BY <2>1, Concat
    <2>6. p = s \o q
      BY <2>1, <2>3
    <2>7. s \o (q \o z) = s \o t
      BY <2>4, <2>6
    <2>8. q \o z = t
      <3>1. After(Len(s), s \o (q \o z)) = q \o z /\ After(Len(s), s \o t) = t
        BY <2>5, AfterConcat
      <3> QED
        BY <2>7, <3>1
    <2> QED
      BY <2>1, <2>6, <2>8 DEF CutWithin
  <1>4. Len(p) < Len(s) \/ Len(s) <= Len(p)
    BY <1>1
  <1> QED
    BY <1>2, <1>3, <1>4

\* What is cut is shorter.
LEMMA CutIsShorter ==
    ASSUME NEW p \in Seq(Byte), NEW z \in Seq(Byte), z # <<>>
    PROVE  Len(p) \in Nat /\ Len(p) < Len(p \o z)
  BY Concat, EmptySeq

\* A byte is read as it was written, whatever follows.
LEMMA ReadUint8 ==
    ASSUME NEW v \in Byte, NEW r \in Seq(Byte)
    PROVE  /\ <<v>> \in Seq(Byte) /\ Len(<<v>>) = 1
           /\ Uint8(<<v>> \o r) = Success(v, r)
  <1>1. <<v>> \in Seq(Byte) /\ Len(<<v>>) = 1 /\ <<v>>[1] = v
    OBVIOUS
  <1> DEFINE b == <<v>>
  <1> HIDE DEF b
  <1>2. b \in Seq(Byte) /\ Len(b) = 1 /\ b[1] = v
    BY <1>1 DEF b
  <1>3. /\ Len(b \o r) = 1 + Len(r) /\ Len(r) \in Nat
        /\ (b \o r)[1] = v
    BY <1>2, Concat
  <1>4. After(1, b \o r) = r
    BY <1>2, AfterConcat
  <1>5. Uint8(b \o r) = Success(v, r)
    BY <1>3, <1>4 DEF Uint8
  <1> QED
    BY <1>1, <1>5 DEF b

\* A uint16 is read as it was written, and not at all where it is cut.
LEMMA ReadUint16 ==
    ASSUME NEW v \in 0 .. Size16 - 1
    PROVE  /\ \A r \in Seq(Byte) : Uint16(PutUint16(v) \o r) = Success(v, r)
           /\ \A p, z \in Seq(Byte) : p \o z = PutUint16(v) /\ z # <<>> => Uint16(p) = Failure
  <1> DEFINE e == PutUint16(v)
  <1>1. /\ e \in Seq(Byte) /\ Len(e) = 2
        /\ \A b : (\A i \in 1 .. 2 : b[i] = e[i]) => Number16(b) = v
    BY Put16
  <1> HIDE DEF e
  <1>2. ASSUME NEW r \in Seq(Byte) PROVE Uint16(e \o r) = Success(v, r)
    <2>1. /\ Len(e \o r) = 2 + Len(r) /\ Len(r) \in Nat
          /\ \A i \in 1 .. 2 : (e \o r)[i] = e[i]
      BY <1>1, Concat
    <2>2. Number16(e \o r) = v
      BY <1>1, <2>1
    <2>3. After(2, e \o r) = r
      BY <1>1, AfterConcat
    <2> QED
      BY <2>1, <2>2, <2>3 DEF Uint16
  <1>3. ASSUME NEW p \in Seq(Byte), NEW z \in Seq(Byte), p \o z = e, z # <<>>
        PROVE  Uint16(p) = Failure
    BY <1>1, <1>3, CutIsShorter DEF Uint16
  <1> QED
    BY <1>2, <1>3 DEF e

\* A uint32 is read as it was written, and not at all where it is cut.
LEMMA ReadUint32 ==
    ASSUME NEW v \in 0 .. Size32 - 1
    PROVE  /\ \A r \in Seq(Byte) : Uint32(PutUint32(v) \o r) = Success(v, r)
           /\ \A p, z \in Seq(Byte) : p \o z = PutUint32(v) /\ z # <<>> => Uint32(p) = Failure
  <1> DEFINE e == PutUint32(v)
  <1>1. /\ e \in Seq(Byte) /\ Len(e) = 4
        /\ \A b : (\A i \in 1 .. 4 : b[i] = e[i]) => Number32(b) = v
    BY Put32
  <1> HIDE DEF e
  <1>2. ASSUME NEW r \in Seq(Byte) PROVE Uint32(e \o r) = Success(v, r)
    <2>1. /\ Len(e \o r) = 4 + Len(r) /\ Len(r) \in Nat
          /\ \A i \in 1 .. 4 : (e \o r)[i] = e[i]
      BY <1>1, Concat
    <2>2. Number32(e \o r) = v
      BY <1>1, <2>1
    <2>3. After(4, e \o r) = r
      BY <1>1, AfterConcat
    <2> QED
      BY <2>1, <2>2, <2>3 DEF Uint32
  <1>3. ASSUME NEW p \in Seq(Byte), NEW z \in Seq(Byte), p \o z = e, z # <<>>
        PROVE  Uint32(p) = Failure
    BY <1>1, <1>3, CutIsShorter DEF Uint32
  <1> QED
    BY <1>2, <1>3 DEF e

\* A uint64 is read as it was written, and not at all where it is cut.
LEMMA ReadUint64 ==
    ASSUME NEW v \in 0 .. Size64 - 1
    PROVE  /\ \A r \in Seq(Byte) : Uint64(PutUint64(v) \o r) = Success(v, r)
           /\ \A p, z \in Seq(Byte) : p \o z = PutUint64(v) /\ z # <<>> => Uint64(p) = Failure
  <1> DEFINE e == PutUint64(v)
  <1>1. /\ e \in Seq(Byte) /\ Len(e) = 8
        /\ \A b : (\A i \in 1 .. 8 : b[i] = e[i]) => Number64(b) = v
    BY Put64
  <1> HIDE DEF e
  <1>2. ASSUME NEW r \in Seq(Byte) PROVE Uint64(e \o r) = Success(v, r)
    <2>1. /\ Len(e \o r) = 8 + Len(r) /\ Len(r) \in Nat
          /\ \A i \in 1 .. 8 : (e \o r)[i] = e[i]
      <3>1. /\ Len(e \o r) = Len(e) + Len(r) /\ Len(r) \in Nat
            /\ \A i \in 1 .. Len(e) : (e \o r)[i] = e[i]
        BY <1>1, Concat
      <3> QED
        BY <1>1, <3>1, Zenon
    <2>2. Number64(e \o r) = v
      BY <1>1, <2>1
    <2>3. After(8, e \o r) = r
      BY <1>1, AfterConcat
    <2> QED
      BY <2>1, <2>2, <2>3 DEF Uint64
  <1>3. ASSUME NEW p \in Seq(Byte), NEW z \in Seq(Byte), p \o z = e, z # <<>>
        PROVE  Uint64(p) = Failure
    BY <1>1, <1>3, CutIsShorter DEF Uint64
  <1> QED
    BY <1>2, <1>3 DEF e

\* A buffer that is read as a number of variable length, and not read where it is cut.
IsVarInt(e, v) ==
    /\ e \in Seq(Byte) /\ Len(e) \in Nat \ {0}
    /\ \A r \in Seq(Byte) : ReadVarInt(e \o r) = Success(v, r)
    /\ \A p, z \in Seq(Byte) : p \o z = e /\ z # <<>> => ReadVarInt(p) = Failure

\* What the two results of a read hold.
LEMMA ReadResults ==
    /\ Failure.ok = FALSE
    /\ \A value, rest : /\ Success(value, rest).ok
                        /\ Success(value, rest).value = value
                        /\ Success(value, rest).rest = rest
  BY DEF Success, Failure

\* Nothing is read from an empty buffer.
LEMMA NothingToRead ==
    ASSUME NEW p, Len(p) \in Nat, Len(p) < 1
    PROVE  Uint8(p) = Failure /\ ReadVarInt(p) = Failure
  <1>1. Uint8(p) = Failure
    BY DEF Uint8
  <1> QED
    BY <1>1, ReadResults DEF ReadVarInt

\* The three longer forms: a byte that announces the number, and the number.
LEMMA AnnouncedVarInt ==
    ASSUME NEW d \in Byte, NEW n \in Seq(Byte), NEW v,
           \A r \in Seq(Byte) : ReadVarInt(<<d>> \o (n \o r)) = Success(v, r),
           \A p, z \in Seq(Byte) : p \o z = n /\ z # <<>> => ReadVarInt(<<d>> \o p) = Failure
    PROVE  IsVarInt(<<d>> \o n, v) /\ Len(<<d>> \o n) = 1 + Len(n)
  <1> DEFINE first == <<d>>
             e == first \o n
  <1>1. first \in Seq(Byte) /\ Len(first) = 1
    BY ReadUint8, EmptySeq
  <1>2. /\ \A r \in Seq(Byte) : ReadVarInt(first \o (n \o r)) = Success(v, r)
        /\ \A p, z \in Seq(Byte) : p \o z = n /\ z # <<>> => ReadVarInt(first \o p) = Failure
    OBVIOUS
  <1> HIDE DEF first
  <1>3. e \in Seq(Byte) /\ Len(e) = 1 + Len(n) /\ Len(n) \in Nat
    BY <1>1, Concat
  <1>4. ASSUME NEW r \in Seq(Byte) PROVE ReadVarInt(e \o r) = Success(v, r)
    <2>1. e \o r = first \o (n \o r)
      BY <1>1, ConcatAssociative
    <2> QED
      BY <1>2, <2>1
  <1>5. ASSUME NEW p \in Seq(Byte), NEW z \in Seq(Byte), p \o z = e, z # <<>>
        PROVE  ReadVarInt(p) = Failure
    <2>1. CASE \E y \in Seq(Byte) : y # <<>> /\ p \o y = first
      BY <1>1, <2>1, CutIsShorter, NothingToRead
    <2>2. CASE \E q \in Seq(Byte) : p = first \o q /\ q \o z = n
      BY <1>2, <1>5, <2>2
    <2>3. p \o z = first \o n
      BY <1>5
    <2>4. first \in Seq(Byte) /\ n \in Seq(Byte) /\ p \in Seq(Byte) /\ z \in Seq(Byte)
      BY <1>1, <1>5
    <2>5. CutWithin(p, z, first, n)
      BY <2>3, <2>4, CutAnywhere
    <2> QED
      BY <2>1, <2>2, <2>5 DEF CutWithin
  <1> HIDE DEF e
  <1>6. IsVarInt(e, v)
    <2>1. e \in Seq(Byte) /\ Len(e) \in Nat \ {0}
      BY <1>3
    <2>2. \A p, z \in Seq(Byte) : p \o z = e /\ z # <<>> => ReadVarInt(p) = Failure
      BY <1>5
    <2> QED
      BY <2>1, <2>2, <1>4, Zenon DEF IsVarInt
  <1> QED
    BY <1>3, <1>6 DEF e, first

\* The form of a number of variable length is that of its first byte.
LEMMA AnyByteAnnounces ==
    ASSUME NEW d \in Byte, NEW rest \in Seq(Byte)
    PROVE  /\ d = Base - 1 => ReadVarInt(<<d>> \o rest) = AtLeast(Uint64(rest), Size32)
           /\ d = Base - 2 => ReadVarInt(<<d>> \o rest) = AtLeast(Uint32(rest), Size16)
           /\ d = Base - 3 => ReadVarInt(<<d>> \o rest) = AtLeast(Uint16(rest), Base - 3)
           /\ d < Base - 3 => ReadVarInt(<<d>> \o rest) = Success(d, rest)
  <1>1. Uint8(<<d>> \o rest) = Success(d, rest)
    BY ReadUint8
  <1>2. d \in Nat /\ Base \in Nat
    BY Sizes DEF Byte
  <1> QED
    BY <1>1, <1>2, ReadResults DEF ReadVarInt

\* A number that a shorter form could hold is refused.
LEMMA AtLeastResults ==
    /\ \A least : AtLeast(Failure, least) = Failure
    /\ \A v, least \in Nat : \A rest :
          /\ least <= v => AtLeast(Success(v, rest), least) = Success(v, rest)
          /\ v < least => AtLeast(Success(v, rest), least) = Failure
  BY ReadResults DEF AtLeast

\* A number of variable length is as long as announced, is read as written, and is
\* not read at all where it is cut.
LEMMA ReadOwnVarInt ==
    ASSUME NEW v \in 0 .. Size64 - 1
    PROVE  /\ IsVarInt(WriteVarInt(v), v)
           /\ Len(WriteVarInt(v)) = VarIntSerializeSize(v)
  <1>1. v \in Nat /\ Base - 3 < Size16 /\ Size16 < Size32 /\ Size32 < Size64
        /\ Base \in Nat /\ Size16 \in Nat /\ Size32 \in Nat /\ Base - 3 \in Nat
    BY Sizes
  <1>2. Base - 3 \in Byte /\ Base - 2 \in Byte /\ Base - 1 \in Byte
    BY Sizes DEF Byte
  <1>5. CASE v < Base - 3
    <2>1. v \in Byte /\ WriteVarInt(v) = <<v>> /\ VarIntSerializeSize(v) = 1
      BY <1>1, <1>5 DEF Byte, WriteVarInt, PutUint8, VarIntSerializeSize
    <2> DEFINE e == <<v>>
    <2>2. e \in Seq(Byte) /\ Len(e) = 1
      BY <2>1, ReadUint8, EmptySeq
    <2>3. \A r \in Seq(Byte) : ReadVarInt(e \o r) = Success(v, r)
      BY <1>5, <2>1, AnyByteAnnounces
    <2> HIDE DEF e
    <2>4. ASSUME NEW p \in Seq(Byte), NEW z \in Seq(Byte), p \o z = e, z # <<>>
          PROVE  ReadVarInt(p) = Failure
      BY <2>2, <2>4, CutIsShorter, NothingToRead
    <2>5. IsVarInt(e, v)
      <3>1. e \in Seq(Byte) /\ Len(e) \in Nat \ {0}
        BY <2>2
      <3>2. \A p, z \in Seq(Byte) : p \o z = e /\ z # <<>> => ReadVarInt(p) = Failure
        BY <2>4
      <3> QED
        BY <2>3, <3>1, <3>2, Zenon DEF IsVarInt
    <2> QED
      BY <2>1, <2>2, <2>5 DEF e
  <1>7. CASE Base - 3 <= v /\ v < Size16
    <2>1. v \in 0 .. Size16 - 1 /\ VarIntSerializeSize(v) = 1 + 2
          /\ WriteVarInt(v) = <<Base - 3>> \o PutUint16(v)
      BY <1>1, <1>7 DEF WriteVarInt, PutUint8, VarIntSerializeSize
    <2> DEFINE n == PutUint16(v)
    <2>2. /\ n \in Seq(Byte) /\ Len(n) = 2
          /\ \A r \in Seq(Byte) : Uint16(n \o r) = Success(v, r)
          /\ \A p, z \in Seq(Byte) : p \o z = n /\ z # <<>> => Uint16(p) = Failure
      BY <2>1, Put16, ReadUint16
    <2> HIDE DEF n
    <2>3. PICK d \in Byte : d = Base - 3
      BY <1>2
    <2>4. \A rest \in Seq(Byte) : ReadVarInt(<<d>> \o rest) = AtLeast(Uint16(rest), Base - 3)
      BY <2>3, AnyByteAnnounces
    <2>5. ASSUME NEW r \in Seq(Byte) PROVE ReadVarInt(<<d>> \o (n \o r)) = Success(v, r)
      <3>1. n \o r \in Seq(Byte)
        BY <2>2, Concat
      <3>2. ReadVarInt(<<d>> \o (n \o r)) = AtLeast(Success(v, r), Base - 3)
        BY <2>2, <2>4, <3>1
      <3> QED
        BY <1>1, <1>7, <3>2, AtLeastResults
    <2>6. ASSUME NEW p \in Seq(Byte), NEW z \in Seq(Byte), p \o z = n, z # <<>>
          PROVE  ReadVarInt(<<d>> \o p) = Failure
      BY <2>2, <2>4, <2>6, AtLeastResults
    <2>7. IsVarInt(<<d>> \o n, v) /\ Len(<<d>> \o n) = 1 + Len(n)
      BY <2>2, <2>5, <2>6, AnnouncedVarInt
    <2>8. WriteVarInt(v) = <<d>> \o n
      BY <2>1, <2>3 DEF n
    <2> QED
      BY <2>1, <2>2, <2>7, <2>8
  <1>8. CASE Size16 <= v /\ v < Size32
    <2>1. v \in 0 .. Size32 - 1 /\ VarIntSerializeSize(v) = 1 + 4
          /\ WriteVarInt(v) = <<Base - 2>> \o PutUint32(v)
      BY <1>1, <1>8 DEF WriteVarInt, PutUint8, VarIntSerializeSize
    <2> DEFINE n == PutUint32(v)
    <2>2. /\ n \in Seq(Byte) /\ Len(n) = 4
          /\ \A r \in Seq(Byte) : Uint32(n \o r) = Success(v, r)
          /\ \A p, z \in Seq(Byte) : p \o z = n /\ z # <<>> => Uint32(p) = Failure
      BY <2>1, Put32, ReadUint32
    <2> HIDE DEF n
    <2>3. PICK d \in Byte : d = Base - 2
      BY <1>2
    <2>4. \A rest \in Seq(Byte) : ReadVarInt(<<d>> \o rest) = AtLeast(Uint32(rest), Size16)
      BY <2>3, AnyByteAnnounces
    <2>5. ASSUME NEW r \in Seq(Byte) PROVE ReadVarInt(<<d>> \o (n \o r)) = Success(v, r)
      <3>1. n \o r \in Seq(Byte)
        BY <2>2, Concat
      <3>2. ReadVarInt(<<d>> \o (n \o r)) = AtLeast(Success(v, r), Size16)
        BY <2>2, <2>4, <3>1
      <3> QED
        BY <1>1, <1>8, <3>2, AtLeastResults
    <2>6. ASSUME NEW p \in Seq(Byte), NEW z \in Seq(Byte), p \o z = n, z # <<>>
          PROVE  ReadVarInt(<<d>> \o p) = Failure
      BY <2>2, <2>4, <2>6, AtLeastResults
    <2>7. IsVarInt(<<d>> \o n, v) /\ Len(<<d>> \o n) = 1 + Len(n)
      BY <2>2, <2>5, <2>6, AnnouncedVarInt
    <2>8. WriteVarInt(v) = <<d>> \o n
      BY <2>1, <2>3 DEF n
    <2> QED
      BY <2>1, <2>2, <2>7, <2>8
  <1>9. CASE Size32 <= v
    <2>1. v \in 0 .. Size64 - 1 /\ VarIntSerializeSize(v) = 1 + 8
          /\ WriteVarInt(v) = <<Base - 1>> \o PutUint64(v)
      BY <1>1, <1>9 DEF WriteVarInt, PutUint8, VarIntSerializeSize
    <2> DEFINE n == PutUint64(v)
    <2>2. /\ n \in Seq(Byte) /\ Len(n) = 8
          /\ \A r \in Seq(Byte) : Uint64(n \o r) = Success(v, r)
          /\ \A p, z \in Seq(Byte) : p \o z = n /\ z # <<>> => Uint64(p) = Failure
      BY <2>1, Put64, ReadUint64
    <2> HIDE DEF n
    <2>3. PICK d \in Byte : d = Base - 1
      BY <1>2
    <2>4. \A rest \in Seq(Byte) : ReadVarInt(<<d>> \o rest) = AtLeast(Uint64(rest), Size32)
      BY <2>3, AnyByteAnnounces
    <2>5. ASSUME NEW r \in Seq(Byte) PROVE ReadVarInt(<<d>> \o (n \o r)) = Success(v, r)
      <3>1. n \o r \in Seq(Byte)
        BY <2>2, Concat
      <3>2. ReadVarInt(<<d>> \o (n \o r)) = AtLeast(Success(v, r), Size32)
        BY <2>2, <2>4, <3>1
      <3> QED
        BY <1>1, <1>9, <3>2, AtLeastResults
    <2>6. ASSUME NEW p \in Seq(Byte), NEW z \in Seq(Byte), p \o z = n, z # <<>>
          PROVE  ReadVarInt(<<d>> \o p) = Failure
      BY <2>2, <2>4, <2>6, AtLeastResults
    <2>7. IsVarInt(<<d>> \o n, v) /\ Len(<<d>> \o n) = 1 + Len(n)
      BY <2>2, <2>5, <2>6, AnnouncedVarInt
    <2>8. WriteVarInt(v) = <<d>> \o n
      BY <2>1, <2>3 DEF n
    <2> QED
      BY <2>1, <2>2, <2>7, <2>8
  <1> QED
    BY <1>1, <1>5, <1>7, <1>8, <1>9

-----------------------------------------------------------------------------
(* Recursive functions.                                                    *)

\* Induction over the naturals: the least number that is missing does not exist.
LEMMA NaturalsByInduction ==
    ASSUME NEW Holds, 0 \in Holds, \A n \in Nat : n \in Holds => n + 1 \in Holds
    PROVE  Nat \subseteq Holds
  <1> DEFINE less == OpToRel(<, Nat)
             T == Nat \ Holds
  <1>1. IsWellFoundedOn(less, Nat)
    BY NatLessThanWellFounded
  <1>2. \A m, n \in Nat : m < n => <<m, n>> \in less
    BY DEF OpToRel
  <1> HIDE DEF less
  <1> SUFFICES ASSUME T # {} PROVE FALSE
    OBVIOUS
  <1>3. PICK n \in T : \A m \in T : <<m, n>> \notin less
    BY <1>1, WFMin
  <1>4. n \in Nat /\ n # 0
    OBVIOUS
  <1>5. n - 1 \in Nat /\ n - 1 < n /\ (n - 1) + 1 = n
    BY <1>4
  <1>6. n - 1 \notin T
    BY <1>2, <1>3, <1>4, <1>5
  <1> QED
    BY <1>4, <1>5, <1>6

\* What FlattenSeq defines, for the first n of the buffers.
IsFlattening(f, s, n) ==
    f = [i \in 1 .. n |-> IF i = 1 THEN s[i] ELSE f[i - 1] \o s[i]]

\* The recursion of FlattenSeq, at one index.
LEMMA FlatteningStep ==
    ASSUME NEW f, NEW s, NEW n \in Nat, IsFlattening(f, s, n), NEW i \in 1 .. n
    PROVE  f[i] = IF i = 1 THEN s[i] ELSE f[i - 1] \o s[i]
  <1> DEFINE step(k) == IF k = 1 THEN s[k] ELSE f[k - 1] \o s[k]
             g == [k \in 1 .. n |-> step(k)]
  <1>1. f = g
    BY DEF IsFlattening
  <1>2. g[i] = step(i)
    OBVIOUS
  <1> HIDE DEF g
  <1>3. f[i] = step(i)
    BY <1>1, <1>2
  <1> QED
    BY <1>3

\* There is a function that satisfies the recursion of FlattenSeq.
LEMMA FlatteningExists ==
    ASSUME NEW s, NEW n \in Nat
    PROVE  \E f : IsFlattening(f, s, n)
  <1> DEFINE Holds == {m \in Nat : \E f : IsFlattening(f, s, m)}
  <1>1. 0 \in Holds
    <2> DEFINE f == [i \in 1 .. 0 |-> s[i]]
    <2>1. IsFlattening(f, s, 0)
      BY DEF IsFlattening
    <2> QED
      BY <2>1
  <1>2. ASSUME NEW m \in Nat, m \in Holds PROVE m + 1 \in Holds
    <2>1. PICK f : IsFlattening(f, s, m)
      BY <1>2
    <2> DEFINE g == [i \in 1 .. m + 1 |-> IF i = 1 THEN s[i] ELSE f[i - 1] \o s[i]]
    <2>2. \A i \in 1 .. m : g[i] = f[i]
      <3>1. \A i \in 1 .. m : i \in 1 .. m + 1
        OBVIOUS
      <3> QED
        BY <2>1, <3>1, FlatteningStep
    <2>3. \A i \in 1 .. m + 1 : i # 1 => i - 1 \in 1 .. m
      OBVIOUS
    <2>4. \A i \in 1 .. m + 1 : g[i] = IF i = 1 THEN s[i] ELSE g[i - 1] \o s[i]
      BY <2>2, <2>3
    <2>5. IsFlattening(g, s, m + 1)
      BY <2>4 DEF IsFlattening
    <2> QED
      BY <2>5
  <1>3. n \in Holds
    <2> HIDE DEF Holds
    <2> QED
      BY <1>1, <1>2, NaturalsByInduction
  <1> QED
    BY <1>3

\* What is left of a buffer after each of the n parts that make it up.
LeftAfter(left, parts, n) ==
    /\ left \in [0 .. n -> Seq(Byte)]
    /\ left[n] = <<>>
    /\ \A i \in 1 .. n : parts[i] \in Seq(Byte) /\ left[i - 1] = parts[i] \o left[i]

\* One part more at the end is what is left after each part before it, too.
LEMMA OnePartMore ==
    ASSUME NEW n \in Nat, NEW left, NEW parts, NEW more,
           LeftAfter(left, parts, n), \A i \in 1 .. n : more[i] = parts[i],
           more[n + 1] \in Seq(Byte)
    PROVE  \E after : LeftAfter(after, more, n + 1) /\ after[0] = left[0] \o more[n + 1]
  <1> DEFINE e == more[n + 1]
             after == [i \in 0 .. n + 1 |-> IF i <= n THEN left[i] \o e ELSE <<>>]
  <1>1. e \in Seq(Byte) /\ <<>> \in Seq(Byte)
    BY EmptySeq
  <1> HIDE DEF e
  <1>2. /\ left \in [0 .. n -> Seq(Byte)] /\ left[n] = <<>>
        /\ \A i \in 1 .. n : more[i] \in Seq(Byte) /\ left[i - 1] = more[i] \o left[i]
    BY DEF LeftAfter
  <1>3. after \in [0 .. n + 1 -> Seq(Byte)]
    <2>1. \A i \in 0 .. n : left[i] \o e \in Seq(Byte)
      BY <1>1, <1>2, Concat
    <2> QED
      BY <1>1, <2>1
  <1>4. after[n + 1] = <<>> /\ after[0] = left[0] \o e
    OBVIOUS
  <1>5. ASSUME NEW i \in 1 .. n + 1
        PROVE  more[i] \in Seq(Byte) /\ after[i - 1] = more[i] \o after[i]
    <2>1. CASE i \in 1 .. n
      <3>1. left[i - 1] = more[i] \o left[i] /\ more[i] \in Seq(Byte) /\ left[i] \in Seq(Byte)
        <4>1. i \in 0 .. n
          BY <2>1
        <4> QED
          BY <1>2, <2>1, <4>1
      <3>2. (more[i] \o left[i]) \o e = more[i] \o (left[i] \o e)
        <4>1. \A a, b, c \in Seq(Byte) : (a \o b) \o c = a \o (b \o c)
          BY ConcatAssociative
        <4> QED
          BY <1>1, <3>1, <4>1, Zenon
      <3>3. after[i - 1] = left[i - 1] \o e /\ after[i] = left[i] \o e
        BY <2>1
      <3> QED
        BY <3>1, <3>2, <3>3
    <2>2. CASE i = n + 1
      <3>1. after[i - 1] = <<>> \o e /\ after[i] = <<>> /\ more[i] = e
        BY <1>2, <2>2 DEF e
      <3> QED
        BY <1>1, <3>1, ConcatEmptySeq
    <2>3. i \in 1 .. n \/ i = n + 1
      OBVIOUS
    <2> QED
      BY <2>1, <2>2, <2>3, Zenon
  <1>6. LeftAfter(after, more, n + 1)
    BY <1>3, <1>4, <1>5 DEF LeftAfter
  <1> QED
    BY <1>4, <1>6 DEF e

\* Nothing is left of nothing.
LEMMA NoPart ==
    ASSUME NEW parts
    PROVE  LeftAfter([i \in 0 .. 0 |-> <<>>], parts, 0)
  BY EmptySeq DEF LeftAfter

\* What FlattenSeq gives can be taken apart again, from its front.
LEMMA Flattened ==
    ASSUME NEW s \in Seq(Seq(Byte))
    PROVE  \E left : LeftAfter(left, s, Len(s)) /\ left[0] = FlattenSeq(s)
  <1>1. Len(s) \in Nat /\ \A i \in 1 .. Len(s) : s[i] \in Seq(Byte)
    BY LenProperties, ElementOfSeq
  <1>2. CASE Len(s) = 0
    <2>1. FlattenSeq(s) = <<>>
      BY <1>2, EmptySeq DEF FlattenSeq
    <2> DEFINE left == [i \in 0 .. 0 |-> <<>>]
    <2>2. LeftAfter(left, s, Len(s)) /\ left[0] = <<>>
      BY <1>2, NoPart
    <2> QED
      BY <2>1, <2>2
  <1>3. CASE Len(s) # 0
    <2> DEFINE f == CHOOSE g : IsFlattening(g, s, Len(s))
    <2>1. IsFlattening(f, s, Len(s))
      BY <1>1, FlatteningExists
    <2>2. FlattenSeq(s) = f[Len(s)]
      BY <1>3 DEF FlattenSeq, IsFlattening
    <2> HIDE DEF f
    <2> DEFINE good(n) == \E left : /\ LeftAfter(left, s, n)
                                    /\ left[0] = IF n = 0 THEN <<>> ELSE f[n]
               Holds == {n \in Nat : n <= Len(s) => good(n)}
    <2>3. 0 \in Holds
      BY NoPart
    <2>4. ASSUME NEW n \in Nat, n \in Holds PROVE n + 1 \in Holds
      <3> SUFFICES ASSUME n + 1 <= Len(s) PROVE good(n + 1)
        OBVIOUS
      <3>1. n <= Len(s) /\ n + 1 \in 1 .. Len(s)
        BY <1>1
      <3>2. PICK left : LeftAfter(left, s, n) /\ left[0] = IF n = 0 THEN <<>> ELSE f[n]
        BY <2>4, <3>1
      <3>3. s[n + 1] \in Seq(Byte)
        BY <1>1, <3>1
      <3>4. PICK after : LeftAfter(after, s, n + 1) /\ after[0] = left[0] \o s[n + 1]
        BY <3>2, <3>3, OnePartMore
      <3>5. f[n + 1] = IF n = 0 THEN s[n + 1] ELSE f[n] \o s[n + 1]
        <4>1. f[n + 1] = IF n + 1 = 1 THEN s[n + 1] ELSE f[(n + 1) - 1] \o s[n + 1]
          BY <1>1, <2>1, <3>1, FlatteningStep
        <4>2. (n + 1) - 1 = n /\ (n + 1 = 1 <=> n = 0)
          OBVIOUS
        <4> QED
          BY <4>1, <4>2
      <3>6. after[0] = f[n + 1]
        BY <3>2, <3>3, <3>4, <3>5, ConcatEmptySeq
      <3> QED
        BY <3>4, <3>6
    <2>5. Len(s) \in Holds
      <3> HIDE DEF Holds
      <3> QED
        BY <1>1, <2>3, <2>4, NaturalsByInduction
    <2> QED
      BY <1>1, <1>3, <2>2, <2>5
  <1> QED
    BY <1>2, <1>3

-----------------------------------------------------------------------------
(* Slices and vectors are read as they were written.                       *)

\* Where a buffer was cut: an error, or nothing is left.
Ends(read) == ~read.ok \/ read.rest = <<>>

\* An error is an end of the reading.
LEMMA FailureEnds == Ends(Failure)
  BY ReadResults DEF Ends

\* A slice is read as it was written; cut, it is an error or takes all there is.
LEMMA ReadOwnSlice ==
    ASSUME NEW s \in Seq(Byte)
    PROVE  /\ \A r \in Seq(Byte) : ReadSlice(Len(s), s \o r) = Success(s, r)
           /\ \A p, z \in Seq(Byte) : p \o z = s /\ z # <<>> => Ends(ReadSlice(Len(s), p))
  <1> DEFINE n == Len(s)
  <1>1. n \in Nat
    BY LenProperties
  <1>2. ASSUME NEW r \in Seq(Byte) PROVE ReadSlice(n, s \o r) = Success(s, r)
    <2> DEFINE b == s \o r
    <2>1. /\ Len(b) = n + Len(r) /\ Len(r) \in Nat
          /\ \A i \in 1 .. n : b[i] = s[i]
          /\ After(n, b) = r
      BY Concat, AfterConcat
    <2>2. b = <<>> => n = 0
      <3>1. Len(<<>>) = 0
        BY EmptySeq
      <3> QED
        BY <1>1, <2>1, <3>1
    <2> DEFINE v == [i \in 1 .. n |-> IF i <= Len(b) THEN b[i] ELSE 0]
    <2>3. v = s
      <3>1. \A i \in 1 .. n : v[i] = s[i]
        BY <1>1, <2>1
      <3>2. s = [i \in 1 .. n |-> s[i]]
        BY LenProperties
      <3> QED
        BY <3>1, <3>2
    <2>4. ReadSlice(n, b) = Success(v, After(n, b))
      BY <1>1, <2>2 DEF ReadSlice
    <2> QED
      BY <2>1, <2>3, <2>4
  <1>3. ASSUME NEW p \in Seq(Byte), NEW z \in Seq(Byte), p \o z = s, z # <<>>
        PROVE  Ends(ReadSlice(n, p))
    <2>1. Len(p) \in Nat /\ Len(p) < n
      BY <1>3, CutIsShorter
    <2>2. After(n, p) = <<>>
      <3>1. Len(p) \in Int /\ n + 1 \in Int /\ Len(p) < n + 1
        BY <1>1, <2>1
      <3> QED
        BY <3>1, SubSeqEmpty DEF After
    <2>3. \E v : ReadSlice(n, p) \in {Failure, Success(v, <<>>)}
      BY <2>2 DEF ReadSlice
    <2> QED
      BY <2>3, ReadResults DEF Ends
  <1> QED
    BY <1>2, <1>3

\* A slice that says its length is as long as announced, and is read as written.
LEMMA ReadOwnVarSlice ==
    ASSUME NEW s \in Slices
    PROVE  /\ WriteVarSlice(s) \in Seq(Byte)
           /\ Len(WriteVarSlice(s)) = VarSliceSerializeSize(s)
           /\ \A r \in Seq(Byte) : ReadVarSlice(WriteVarSlice(s) \o r) = Success(s, r)
           /\ \A p, z \in Seq(Byte) :
                 p \o z = WriteVarSlice(s) /\ z # <<>> => Ends(ReadVarSlice(p))
  <1>1. s \in Seq(Byte) /\ Len(s) \in 0 .. Size64 - 1
    BY LenProperties, Sizes DEF Slices
  <1> DEFINE w == WriteVarInt(Len(s))
  <1>2. IsVarInt(w, Len(s)) /\ Len(w) = VarIntSerializeSize(Len(s))
    BY <1>1, ReadOwnVarInt
  <1> HIDE DEF w
  <1>3. w \in Seq(Byte)
    BY <1>2 DEF IsVarInt
  <1>4. /\ w \o s \in Seq(Byte)
        /\ Len(w \o s) = VarIntSerializeSize(Len(s)) + Len(s)
    BY <1>1, <1>2, <1>3, Concat
  <1>5. ASSUME NEW q \in Seq(Byte)
        PROVE  ReadVarSlice(w \o q) = ReadSlice(Len(s), q)
    <2>1. ReadVarInt(w \o q) = Success(Len(s), q)
      BY <1>2 DEF IsVarInt
    <2> QED
      BY <2>1, ReadResults DEF ReadVarSlice
  <1>6. ASSUME NEW r \in Seq(Byte) PROVE ReadVarSlice((w \o s) \o r) = Success(s, r)
    <2>1. (w \o s) \o r = w \o (s \o r)
      BY <1>1, <1>3, ConcatAssociative
    <2>2. s \o r \in Seq(Byte)
      BY <1>1, Concat
    <2> QED
      BY <1>1, <1>5, <2>1, <2>2, ReadOwnSlice
  <1>7. ASSUME NEW p \in Seq(Byte), NEW z \in Seq(Byte), p \o z = w \o s, z # <<>>
        PROVE  Ends(ReadVarSlice(p))
    <2>1. CutWithin(p, z, w, s)
      BY <1>1, <1>3, <1>7, CutAnywhere
    <2>2. CASE \E y \in Seq(Byte) : y # <<>> /\ p \o y = w
      <3>1. ReadVarInt(p) = Failure
        BY <1>2, <2>2 DEF IsVarInt
      <3>2. ReadVarSlice(p) = Failure
        BY <3>1, ReadResults DEF ReadVarSlice
      <3> QED
        BY <3>2, FailureEnds
    <2>3. CASE \E q \in Seq(Byte) : p = w \o q /\ q \o z = s
      <3>1. PICK q \in Seq(Byte) : p = w \o q /\ q \o z = s
        BY <2>3
      <3>2. Ends(ReadSlice(Len(s), q))
        BY <1>1, <1>7, <3>1, ReadOwnSlice
      <3> QED
        BY <1>5, <3>1, <3>2
    <2> QED
      BY <2>1, <2>2, <2>3 DEF CutWithin
  <1>8. WriteVarSlice(s) = w \o s
    BY DEF WriteVarSlice, w
  <1> QED
    BY <1>4, <1>6, <1>7, <1>8 DEF VarSliceSerializeSize

\* A slice without its length is an error.
LEMMA NoVarSlice == ReadVarSlice(<<>>) = Failure
  <1>1. ReadVarInt(<<>>) = Failure
    BY EmptySeq, NothingToRead
  <1> QED
    BY <1>1, ReadResults DEF ReadVarSlice

\* What ReadVector does after each of n slices, from what is left after their number.
NextSlice(read) ==
    LET slice == ReadVarSlice(read.rest)
    IN IF read.ok /\ slice.ok
       THEN Success(Append(read.value, slice.value), slice.rest)
       ELSE Failure

IsReading(f, buffer, n) ==
    f = [i \in 0 .. n |-> IF i = 0 THEN Success(<<>>, buffer) ELSE NextSlice(f[i - 1])]

\* The recursion of ReadVector, at one slice.
LEMMA ReadingStep ==
    ASSUME NEW f, NEW buffer, NEW n \in Nat, IsReading(f, buffer, n), NEW i \in 0 .. n
    PROVE  f[i] = IF i = 0 THEN Success(<<>>, buffer) ELSE NextSlice(f[i - 1])
  <1> DEFINE step(k) == IF k = 0 THEN Success(<<>>, buffer) ELSE NextSlice(f[k - 1])
             g == [k \in 0 .. n |-> step(k)]
  <1>1. f = g
    BY DEF IsReading
  <1>2. g[i] = step(i)
    OBVIOUS
  <1> HIDE DEF g
  <1>3. f[i] = step(i)
    BY <1>1, <1>2
  <1> QED
    BY <1>3

\* There is a function that satisfies the recursion of ReadVector.
LEMMA ReadingExists ==
    ASSUME NEW buffer, NEW n \in Nat
    PROVE  \E f : IsReading(f, buffer, n)
  <1> DEFINE Holds == {m \in Nat : \E f : IsReading(f, buffer, m)}
  <1>1. 0 \in Holds
    <2> DEFINE f == [i \in 0 .. 0 |-> Success(<<>>, buffer)]
    <2>1. \A i \in 0 .. 0 :
             f[i] = IF i = 0 THEN Success(<<>>, buffer) ELSE NextSlice(f[i - 1])
      OBVIOUS
    <2>2. IsReading(f, buffer, 0)
      BY <2>1 DEF IsReading
    <2> QED
      BY <2>2
  <1>2. ASSUME NEW m \in Nat, m \in Holds PROVE m + 1 \in Holds
    <2>1. PICK f : IsReading(f, buffer, m)
      BY <1>2
    <2> DEFINE step(i) == IF i = 0 THEN Success(<<>>, buffer) ELSE NextSlice(f[i - 1])
               g == [i \in 0 .. m + 1 |-> step(i)]
    <2>2. \A i \in 0 .. m : g[i] = f[i]
      <3>1. \A i \in 0 .. m : i \in 0 .. m + 1
        OBVIOUS
      <3> QED
        BY <2>1, <3>1, ReadingStep
    <2>3. \A i \in 0 .. m + 1 : i # 0 => i - 1 \in 0 .. m
      OBVIOUS
    <2>4. \A i \in 0 .. m + 1 :
             g[i] = IF i = 0 THEN Success(<<>>, buffer) ELSE NextSlice(g[i - 1])
      BY <2>2, <2>3
    <2>5. IsReading(g, buffer, m + 1)
      BY <2>4 DEF IsReading
    <2> QED
      BY <2>5
  <1>3. n \in Holds
    <2> HIDE DEF Holds
    <2> QED
      BY <1>1, <1>2, NaturalsByInduction
  <1> QED
    BY <1>3

\* ReadVector gives what that function does.
LEMMA ReadVectorOf ==
    ASSUME NEW buffer, NEW n \in Nat, NEW rest, ReadVarInt(buffer) = Success(n, rest)
    PROVE  \E f : IsReading(f, rest, n) /\ ReadVector(buffer) = f[n]
  <1> DEFINE f == CHOOSE g : IsReading(g, rest, n)
  <1>1. IsReading(f, rest, n)
    BY ReadingExists
  <1>2. ReadVector(buffer) = f[n]
    <2> DEFINE first == ReadVarInt(buffer)
    <2>1. first.ok /\ first.value = n /\ first.rest = rest
      BY ReadResults
    <2>2. ReadVector(buffer) = IF first.ok
                               THEN (CHOOSE g : IsReading(g, first.rest, first.value))[first.value]
                               ELSE Failure
      BY DEF ReadVector, IsReading, NextSlice
    <2> QED
      BY <2>1, <2>2
  <1> QED
    BY <1>1, <1>2

\* A slice more.
LEMMA FirstOnes ==
    ASSUME NEW Elements, NEW s \in Seq(Elements), NEW i \in Nat, i + 1 <= Len(s)
    PROVE  Append(SubSeq(s, 1, i), s[i + 1]) = SubSeq(s, 1, i + 1)
  <1>1. Len(s) \in Nat /\ \A k \in 1 .. Len(s) : s[k] \in Elements
    BY LenProperties, ElementOfSeq
  <1> DEFINE a == SubSeq(s, 1, i)
             b == SubSeq(s, 1, i + 1)
  <1>2. a \in Seq(Elements) /\ Len(a) = i /\ \A k \in 1 .. i : a[k] = s[k]
    <2>1. \A k \in 1 .. i : s[k] \in Elements
      BY <1>1
    <2>2. /\ a \in Seq(Elements)
          /\ Len(a) = IF 1 <= i THEN i - 1 + 1 ELSE 0
          /\ \A k \in 1 .. i - 1 + 1 : a[k] = s[1 + k - 1]
      BY <2>1, SubSeqProperties
    <2> QED
      BY <2>2
  <1>3. b \in Seq(Elements) /\ Len(b) = i + 1 /\ \A k \in 1 .. i + 1 : b[k] = s[k]
    <2>1. \A k \in 1 .. i + 1 : s[k] \in Elements
      BY <1>1
    <2>2. /\ b \in Seq(Elements)
          /\ Len(b) = IF 1 <= i + 1 THEN (i + 1) - 1 + 1 ELSE 0
          /\ \A k \in 1 .. (i + 1) - 1 + 1 : b[k] = s[1 + k - 1]
      BY <2>1, SubSeqProperties
    <2> QED
      BY <2>2
  <1> HIDE DEF a, b
  <1> DEFINE c == Append(a, s[i + 1])
  <1>4. /\ c \in Seq(Elements) /\ Len(c) = i + 1
        /\ \A k \in 1 .. i : c[k] = a[k]
        /\ c[i + 1] = s[i + 1]
    <2>1. s[i + 1] \in Elements
      BY <1>1
    <2> QED
      BY <1>2, <2>1, AppendProperties
  <1> HIDE DEF c
  <1>5. \A k \in 1 .. Len(c) : c[k] = b[k]
    BY <1>2, <1>3, <1>4
  <1>6. c = b
    BY <1>3, <1>4, <1>5, SeqEqual
  <1> QED
    BY <1>6 DEF a, b, c

\* A vector is read as it was written; cut, it is an error or takes all there is.
LEMMA ReadOwnVector ==
    ASSUME NEW s \in Seq(Slices), Len(s) < Size64
    PROVE  /\ WriteVector(s) \in Seq(Byte)
           /\ \A r \in Seq(Byte) : ReadVector(WriteVector(s) \o r) = Success(s, r)
           /\ \A p, z \in Seq(Byte) :
                 p \o z = WriteVector(s) /\ z # <<>> => Ends(ReadVector(p))
  <1> DEFINE n == Len(s)
             parts == [i \in DOMAIN s |-> WriteVarSlice(s[i])]
             w == WriteVarInt(n)
             e == FlattenSeq(parts)
  <1>1. n \in 0 .. Size64 - 1 /\ n \in Nat /\ DOMAIN s = 1 .. n
    BY LenProperties, Sizes
  <1>2. \A i \in 1 .. n : s[i] \in Slices
    BY ElementOfSeq
  <1>3. \A i \in 1 .. n :
           /\ parts[i] \in Seq(Byte)
           /\ \A r \in Seq(Byte) : ReadVarSlice(parts[i] \o r) = Success(s[i], r)
           /\ \A p, z \in Seq(Byte) : p \o z = parts[i] /\ z # <<>> => Ends(ReadVarSlice(p))
    BY <1>1, <1>2, ReadOwnVarSlice
  <1>4. parts \in Seq(Seq(Byte)) /\ Len(parts) = n
    BY <1>1, <1>3
  <1>5. IsVarInt(w, n)
    BY <1>1, ReadOwnVarInt
  <1>6. WriteVector(s) = w \o e
    BY DEF WriteVector
  <1> HIDE DEF parts, w, e, n
  <1>7. PICK left : LeftAfter(left, parts, n) /\ left[0] = e
    BY <1>4, Flattened DEF e
  <1>8. /\ left \in [0 .. n -> Seq(Byte)] /\ left[n] = <<>> /\ left[0] = e
        /\ \A i \in 1 .. n : left[i - 1] = parts[i] \o left[i]
    BY <1>7 DEF LeftAfter
  <1>9. w \in Seq(Byte) /\ e \in Seq(Byte)
    BY <1>1, <1>5, <1>8 DEF IsVarInt
  <1>10. ASSUME NEW q \in Seq(Byte)
         PROVE  \E f : IsReading(f, q, n) /\ ReadVector(w \o q) = f[n]
    <2>1. ReadVarInt(w \o q) = Success(n, q)
      BY <1>5 DEF IsVarInt
    <2> QED
      BY <1>1, <2>1, ReadVectorOf
  <1>11. ASSUME NEW r \in Seq(Byte) PROVE ReadVector((w \o e) \o r) = Success(s, r)
    <2>1. (w \o e) \o r = w \o (e \o r) /\ e \o r \in Seq(Byte)
      BY <1>9, ConcatAssociative, Concat
    <2>2. PICK f : IsReading(f, e \o r, n) /\ ReadVector(w \o (e \o r)) = f[n]
      BY <1>10, <2>1
    <2> DEFINE good(i) == f[i] = Success(SubSeq(s, 1, i), left[i] \o r)
               Holds == {i \in Nat : i <= n => good(i)}
    <2>3. 0 \in Holds
      <3>1. f[0] = Success(<<>>, e \o r)
        BY <1>1, <2>2, ReadingStep
      <3>2. SubSeq(s, 1, 0) = <<>>
        BY SubSeqEmpty
      <3> QED
        BY <1>8, <3>1, <3>2
    <2>4. ASSUME NEW i \in Nat, i \in Holds PROVE i + 1 \in Holds
      <3> SUFFICES ASSUME i + 1 <= n PROVE good(i + 1)
        OBVIOUS
      <3>1. i \in 0 .. n /\ i + 1 \in 1 .. n /\ i + 1 \in 0 .. n /\ (i + 1) - 1 = i
        BY <1>1
      <3>2. f[i] = Success(SubSeq(s, 1, i), left[i] \o r)
        BY <2>4, <3>1
      <3>3. f[i + 1] = NextSlice(f[i])
        <4>1. f[i + 1] = IF i + 1 = 0 THEN Success(<<>>, e \o r) ELSE NextSlice(f[(i + 1) - 1])
          BY <1>1, <2>2, <3>1, ReadingStep
        <4> QED
          BY <3>1, <4>1
      <3>4. left[i] = parts[i + 1] \o left[i + 1] /\ left[i + 1] \in Seq(Byte)
        BY <1>8, <3>1
      <3>5. left[i] \o r = parts[i + 1] \o (left[i + 1] \o r) /\ left[i + 1] \o r \in Seq(Byte)
        <4>1. PICK a \in Seq(Byte), b \in Seq(Byte) : a = parts[i + 1] /\ b = left[i + 1]
          BY <1>3, <3>1, <3>4
        <4>2. (a \o b) \o r = a \o (b \o r)
          BY ConcatAssociative
        <4>3. b \o r \in Seq(Byte)
          BY Concat
        <4> QED
          BY <3>4, <4>1, <4>2, <4>3
      <3>6. ReadVarSlice(left[i] \o r) = Success(s[i + 1], left[i + 1] \o r)
        BY <1>3, <3>1, <3>5
      <3>7. f[i + 1] = Success(Append(SubSeq(s, 1, i), s[i + 1]), left[i + 1] \o r)
        BY <3>2, <3>3, <3>6, ReadResults DEF NextSlice
      <3>8. Append(SubSeq(s, 1, i), s[i + 1]) = SubSeq(s, 1, i + 1)
        BY <3>1, FirstOnes DEF n
      <3> QED
        BY <3>7, <3>8
    <2>5. n \in Holds
      <3> HIDE DEF Holds
      <3> QED
        BY <1>1, <2>3, <2>4, NaturalsByInduction
    <2>6. f[n] = Success(SubSeq(s, 1, n), left[n] \o r)
      BY <1>1, <2>5
    <2>7. SubSeq(s, 1, n) = s /\ <<>> \o r = r
      BY SubSeqFull, ConcatEmptySeq DEF n
    <2> QED
      BY <1>8, <2>1, <2>2, <2>6, <2>7
  <1>12. ASSUME NEW p \in Seq(Byte), NEW z \in Seq(Byte), p \o z = w \o e, z # <<>>
         PROVE  Ends(ReadVector(p))
    <2>1. CutWithin(p, z, w, e)
      BY <1>9, <1>12, CutAnywhere
    <2>2. CASE \E y \in Seq(Byte) : y # <<>> /\ p \o y = w
      <3>1. ReadVarInt(p) = Failure
        BY <1>5, <2>2 DEF IsVarInt
      <3>2. ReadVector(p) = Failure
        BY <3>1, ReadResults DEF ReadVector
      <3> QED
        BY <3>2, FailureEnds
    <2>3. CASE \E q \in Seq(Byte) : p = w \o q /\ q \o z = e
      <3>1. PICK q \in Seq(Byte) : p = w \o q /\ q \o z = e
        BY <2>3
      <3>2. PICK f : IsReading(f, q, n) /\ ReadVector(w \o q) = f[n]
        BY <1>10, <3>1
      <3> DEFINE cut(i) == f[i].rest \in Seq(Byte) /\ f[i].rest \o z = left[i]
                 good(i) == Ends(f[i]) \/ cut(i)
                 Holds == {i \in Nat : i <= n => good(i)}
      <3>3. 0 \in Holds
        <4>1. f[0] = Success(<<>>, q)
          BY <1>1, <3>2, ReadingStep
        <4>2. f[0].rest = q
          BY <4>1, ReadResults
        <4>3. cut(0)
          BY <1>8, <3>1, <4>2
        <4> QED
          BY <4>3
      <3>4. ASSUME NEW i \in Nat, i \in Holds PROVE i + 1 \in Holds
        <4> SUFFICES ASSUME i + 1 <= n PROVE good(i + 1)
          OBVIOUS
        <4>1. i \in 0 .. n /\ i + 1 \in 1 .. n /\ i + 1 \in 0 .. n /\ (i + 1) - 1 = i
          BY <1>1
        <4>2. good(i)
          BY <3>4, <4>1
        <4>3. f[i + 1] = NextSlice(f[i])
          <5>1. f[i + 1] = IF i + 1 = 0 THEN Success(<<>>, q) ELSE NextSlice(f[(i + 1) - 1])
            BY <1>1, <3>2, <4>1, ReadingStep
          <5> QED
            BY <4>1, <5>1
        <4> DEFINE next == ReadVarSlice(f[i].rest)
        <4>4. \/ f[i + 1] = Failure
              \/ \E v : f[i + 1] = Success(v, next.rest) /\ next.ok
          BY <4>3 DEF NextSlice
        <4>5. CASE ~f[i].ok
          <5>1. f[i + 1] = Failure
            BY <4>3, <4>5 DEF NextSlice
          <5> QED
            BY <5>1, FailureEnds
        <4>6. CASE f[i].ok /\ f[i].rest = <<>>
          <5>1. f[i + 1] = Failure
            BY <4>3, <4>6, NoVarSlice, ReadResults DEF NextSlice
          <5> QED
            BY <5>1, FailureEnds
        <4>7. CASE cut(i)
          <5>1. left[i] = parts[i + 1] \o left[i + 1] /\ left[i + 1] \in Seq(Byte)
            BY <1>8, <4>1
          <5>2. PICK b \in Seq(Byte), x \in Seq(Byte), y \in Seq(Byte) :
                   b = f[i].rest /\ x = parts[i + 1] /\ y = left[i + 1]
            BY <1>3, <4>1, <4>7, <5>1
          <5>3. b \o z = x \o y
            BY <4>7, <5>1, <5>2
          <5>4. CutWithin(b, z, x, y)
            BY <5>3, CutAnywhere
          <5>5. CASE \E c \in Seq(Byte) : c # <<>> /\ b \o c = x
            <6>1. Ends(next)
              BY <1>3, <4>1, <5>2, <5>5
            <6>2. Ends(f[i + 1])
              BY <4>4, <6>1, FailureEnds, ReadResults DEF Ends
            <6> QED
              BY <6>2
          <5>6. CASE \E c \in Seq(Byte) : b = x \o c /\ c \o z = y
            <6>1. PICK c \in Seq(Byte) : b = x \o c /\ c \o z = y
              BY <5>6
            <6>2. next = Success(s[i + 1], c)
              BY <1>3, <4>1, <5>2, <6>1
            <6>3. f[i + 1] = Failure \/ f[i + 1].rest = c
              BY <4>4, <6>2, ReadResults
            <6> QED
              BY <5>2, <6>1, <6>3, FailureEnds
          <5> QED
            BY <5>4, <5>5, <5>6 DEF CutWithin
        <4> QED
          BY <4>2, <4>5, <4>6, <4>7 DEF Ends
      <3>5. n \in Holds
        <4> HIDE DEF Holds
        <4> QED
          BY <1>1, <3>3, <3>4, NaturalsByInduction
      <3>6. Ends(f[n]) \/ cut(n)
        BY <1>1, <3>5
      <3>7. ~cut(n)
        <4>1. ASSUME NEW b \in Seq(Byte) PROVE b \o z # <<>>
          <5>1. Len(b \o z) = Len(b) + Len(z) /\ Len(b) \in Nat /\ Len(z) \in Nat \ {0}
            BY <1>12, Concat, EmptySeq
          <5>2. Len(<<>>) = 0
            BY EmptySeq
          <5> QED
            BY <5>1, <5>2
        <4> QED
          BY <1>8, <4>1
      <3> QED
        BY <3>1, <3>2, <3>6, <3>7
    <2> QED
      BY <2>1, <2>2, <2>3 DEF CutWithin
  <1>13. w \o e \in Seq(Byte)
    BY <1>9, Concat
  <1> QED
    BY <1>6, <1>11, <1>12, <1>13

-----------------------------------------------------------------------------
(* What is read, whoever wrote it, could only be written as it is.         *)

\* The first k bytes of a buffer, found elsewhere.
LEMMA BeginsWith ==
    ASSUME NEW b \in Seq(Byte), NEW e \in Seq(Byte), Len(e) <= Len(b),
           \A i \in 1 .. Len(e) : e[i] = b[i]
    PROVE  b = e \o After(Len(e), b) /\ After(Len(e), b) \in Seq(Byte)
  <1> DEFINE k == Len(e)
             h == SubSeq(b, 1, k)
  <1>1. k \in 0 .. Len(b)
    BY LenProperties
  <1>2. /\ h \in Seq(Byte) /\ Len(h) = k
        /\ \A i \in 1 .. k : h[i] = b[i]
        /\ After(k, b) \in Seq(Byte)
        /\ b = h \o After(k, b)
    BY <1>1, AfterSplits
  <1> HIDE DEF h
  <1>3. h = e
    BY <1>2, SeqEqual
  <1> QED
    BY <1>2, <1>3

\* Two bytes that were read would be written again.
LEMMA AnyUint16 ==
    ASSUME NEW b \in Seq(Byte), Uint16(b).ok
    PROVE  /\ Uint16(b).value \in 0 .. Size16 - 1
           /\ Uint16(b).rest \in Seq(Byte)
           /\ b = PutUint16(Uint16(b).value) \o Uint16(b).rest
  <1> DEFINE v == Number16(b)
             e == PutUint16(v)
  <1>1. /\ 2 <= Len(b) /\ Len(b) \in Nat
        /\ Uint16(b) = Success(v, After(2, b))
    BY LenProperties, ReadResults DEF Uint16
  <1>2. b[1] \in Byte /\ b[2] \in Byte
    BY <1>1, ElementOfSeq
  <1>3. /\ v \in 0 .. Size16 - 1
        /\ e \in Seq(Byte) /\ Len(e) = 2
        /\ \A i \in 1 .. 2 : e[i] = b[i]
    BY <1>2, Get16
  <1> HIDE DEF e, v
  <1>4. Len(e) <= Len(b) /\ \A i \in 1 .. Len(e) : e[i] = b[i]
    BY <1>1, <1>3
  <1>5. b = e \o After(2, b) /\ After(2, b) \in Seq(Byte)
    <2>1. b = e \o After(Len(e), b) /\ After(Len(e), b) \in Seq(Byte)
      BY <1>3, <1>4, BeginsWith
    <2> QED
      BY <1>3, <2>1, Zenon
  <1>6. Uint16(b).value = v /\ Uint16(b).rest = After(2, b)
    BY <1>1, ReadResults
  <1> QED
    BY <1>3, <1>5, <1>6 DEF e

\* Four bytes that were read would be written again.
LEMMA AnyUint32 ==
    ASSUME NEW b \in Seq(Byte), Uint32(b).ok
    PROVE  /\ Uint32(b).value \in 0 .. Size32 - 1
           /\ Uint32(b).rest \in Seq(Byte)
           /\ b = PutUint32(Uint32(b).value) \o Uint32(b).rest
  <1> DEFINE v == Number32(b)
             e == PutUint32(v)
  <1>1. /\ 4 <= Len(b) /\ Len(b) \in Nat
        /\ Uint32(b) = Success(v, After(4, b))
    BY LenProperties, ReadResults DEF Uint32
  <1>2. /\ b[1] \in Byte /\ b[2] \in Byte /\ b[3] \in Byte /\ b[4] \in Byte
    BY <1>1, ElementOfSeq
  <1>3. /\ v \in 0 .. Size32 - 1
        /\ e \in Seq(Byte) /\ Len(e) = 4
        /\ \A i \in 1 .. 4 : e[i] = b[i]
    BY <1>2, Get32
  <1> HIDE DEF e, v
  <1>4. Len(e) <= Len(b) /\ \A i \in 1 .. Len(e) : e[i] = b[i]
    BY <1>1, <1>3
  <1>5. b = e \o After(4, b) /\ After(4, b) \in Seq(Byte)
    <2>1. b = e \o After(Len(e), b) /\ After(Len(e), b) \in Seq(Byte)
      BY <1>3, <1>4, BeginsWith
    <2> QED
      BY <1>3, <2>1, Zenon
  <1>6. Uint32(b).value = v /\ Uint32(b).rest = After(4, b)
    BY <1>1, ReadResults
  <1> QED
    BY <1>3, <1>5, <1>6 DEF e

\* Eight bytes that were read would be written again.
LEMMA AnyUint64 ==
    ASSUME NEW b \in Seq(Byte), Uint64(b).ok
    PROVE  /\ Uint64(b).value \in 0 .. Size64 - 1
           /\ Uint64(b).rest \in Seq(Byte)
           /\ b = PutUint64(Uint64(b).value) \o Uint64(b).rest
  <1> DEFINE v == Number64(b)
             e == PutUint64(v)
  <1>1. /\ 8 <= Len(b) /\ Len(b) \in Nat
        /\ Uint64(b) = Success(v, After(8, b))
    BY LenProperties, ReadResults DEF Uint64
  <1>2. \A i \in 1 .. 8 : b[i] \in Byte
    BY <1>1, ElementOfSeq
  <1>3. /\ v \in 0 .. Size64 - 1
        /\ e \in Seq(Byte) /\ Len(e) = 8
        /\ \A i \in 1 .. 8 : e[i] = b[i]
    BY <1>2, Get64
  <1> HIDE DEF e, v
  <1>4. Len(e) <= Len(b) /\ \A i \in 1 .. Len(e) : e[i] = b[i]
    BY <1>1, <1>3
  <1>5. b = e \o After(8, b) /\ After(8, b) \in Seq(Byte)
    <2>1. b = e \o After(Len(e), b) /\ After(Len(e), b) \in Seq(Byte)
      BY <1>3, <1>4, BeginsWith
    <2> QED
      BY <1>3, <2>1, Zenon
  <1>6. Uint64(b).value = v /\ Uint64(b).rest = After(8, b)
    BY <1>1, ReadResults
  <1> QED
    BY <1>3, <1>5, <1>6 DEF e

\* A number that was not refused is not one a shorter form could hold.
LEMMA AtLeastOf ==
    ASSUME NEW read, NEW least, AtLeast(read, least).ok
    PROVE  read.ok /\ ~(read.value < least) /\ AtLeast(read, least) = read
  BY ReadResults DEF AtLeast

\* A number of variable length that was read would be written with the same bytes.
LEMMA AnyVarInt ==
    ASSUME NEW b \in Seq(Byte), ReadVarInt(b).ok
    PROVE  b = WriteVarInt(ReadVarInt(b).value) \o ReadVarInt(b).rest
  <1>1. Len(b) \in Nat /\ 1 <= Len(b)
    BY LenProperties, NothingToRead, ReadResults
  <1>2. PICK d \in Byte : d = b[1]
    BY <1>1, ElementOfSeq
  <1> DEFINE first == <<d>>
             q == After(1, b)
  <1>3. first \in Seq(Byte) /\ Len(first) = 1 /\ first[1] = d
    BY ReadUint8
  <1>4. b = <<d>> \o q /\ q \in Seq(Byte)
    <2> HIDE DEF first
    <2>1. Len(first) <= Len(b) /\ \A i \in 1 .. Len(first) : first[i] = b[i]
      BY <1>1, <1>2, <1>3
    <2>2. b = first \o After(Len(first), b) /\ After(Len(first), b) \in Seq(Byte)
      BY <1>3, <2>1, BeginsWith
    <2>3. b = first \o After(1, b) /\ After(1, b) \in Seq(Byte)
      BY <1>3, <2>2, Zenon
    <2> QED
      BY <2>3 DEF first
  <1> HIDE DEF q
  <1>5. Base \in Nat /\ Base > 11 /\ Size16 \in Nat /\ Size32 \in Nat /\ Size64 \in Nat
        /\ Base < Size16 /\ Size16 < Size32 /\ Size32 < Size64 /\ d \in 0 .. Base - 1
    BY Sizes DEF Byte
  <1>6. CASE d = Base - 3
    <2> DEFINE read == Uint16(q)
    <2>1. ReadVarInt(b) = AtLeast(read, Base - 3)
      BY <1>4, <1>6, AnyByteAnnounces
    <2>2. read.ok /\ ~(read.value < Base - 3) /\ ReadVarInt(b) = read
      BY <2>1, AtLeastOf
    <2>3. /\ read.value \in 0 .. Size16 - 1 /\ read.rest \in Seq(Byte)
          /\ q = PutUint16(read.value) \o read.rest
      BY <1>4, <2>2, AnyUint16
    <2> HIDE DEF read
    <2>4. PICK v \in 0 .. Size16 - 1 : v = read.value
      BY <2>3
    <2>5. WriteVarInt(v) = <<d>> \o PutUint16(v)
      <3>1. v \in Nat /\ ~(v < Base - 3) /\ v >= Base - 3 /\ v < Size16
            /\ ~(v >= Size16) /\ ~(v >= Size32)
        BY <1>5, <2>2, <2>4
      <3>2. WriteVarInt(v) = PutUint8(Base - 3) \o PutUint16(v)
        BY <3>1 DEF WriteVarInt
      <3> QED
        BY <1>6, <3>2 DEF PutUint8
    <2>6. PutUint16(v) \in Seq(Byte)
      BY Put16
    <2>7. (<<d>> \o PutUint16(v)) \o read.rest = <<d>> \o (PutUint16(v) \o read.rest)
      <3>1. \A x, y, z \in Seq(Byte) : (x \o y) \o z = x \o (y \o z)
        BY ConcatAssociative
      <3> QED
        BY <1>3, <2>3, <2>6, <3>1, Zenon
    <2> QED
      BY <1>4, <2>2, <2>3, <2>4, <2>5, <2>7
  <1>7. CASE d = Base - 2
    <2> DEFINE read == Uint32(q)
    <2>1. ReadVarInt(b) = AtLeast(read, Size16)
      BY <1>4, <1>7, AnyByteAnnounces
    <2>2. read.ok /\ ~(read.value < Size16) /\ ReadVarInt(b) = read
      BY <2>1, AtLeastOf
    <2>3. /\ read.value \in 0 .. Size32 - 1 /\ read.rest \in Seq(Byte)
          /\ q = PutUint32(read.value) \o read.rest
      BY <1>4, <2>2, AnyUint32
    <2> HIDE DEF read
    <2>4. PICK v \in 0 .. Size32 - 1 : v = read.value
      BY <2>3
    <2>5. WriteVarInt(v) = <<d>> \o PutUint32(v)
      BY <1>5, <1>7, <2>2, <2>4 DEF WriteVarInt, PutUint8
    <2>6. PutUint32(v) \in Seq(Byte)
      BY Put32
    <2>7. (<<d>> \o PutUint32(v)) \o read.rest = <<d>> \o (PutUint32(v) \o read.rest)
      <3>1. \A x, y, z \in Seq(Byte) : (x \o y) \o z = x \o (y \o z)
        BY ConcatAssociative
      <3> QED
        BY <1>3, <2>3, <2>6, <3>1, Zenon
    <2> QED
      BY <1>4, <2>2, <2>3, <2>4, <2>5, <2>7
  <1>8. CASE d = Base - 1
    <2> DEFINE read == Uint64(q)
    <2>1. ReadVarInt(b) = AtLeast(read, Size32)
      BY <1>4, <1>8, AnyByteAnnounces
    <2>2. read.ok /\ ~(read.value < Size32) /\ ReadVarInt(b) = read
      BY <2>1, AtLeastOf
    <2>3. /\ read.value \in 0 .. Size64 - 1 /\ read.rest \in Seq(Byte)
          /\ q = PutUint64(read.value) \o read.rest
      BY <1>4, <2>2, AnyUint64
    <2> HIDE DEF read
    <2>4. PICK v \in 0 .. Size64 - 1 : v = read.value
      BY <2>3
    <2>5. WriteVarInt(v) = <<d>> \o PutUint64(v)
      BY <1>5, <1>8, <2>2, <2>4 DEF WriteVarInt, PutUint8
    <2>6. PutUint64(v) \in Seq(Byte)
      BY Put64
    <2>7. (<<d>> \o PutUint64(v)) \o read.rest = <<d>> \o (PutUint64(v) \o read.rest)
      <3>1. \A x, y, z \in Seq(Byte) : (x \o y) \o z = x \o (y \o z)
        BY ConcatAssociative
      <3> QED
        BY <1>3, <2>3, <2>6, <3>1, Zenon
    <2> QED
      BY <1>4, <2>2, <2>3, <2>4, <2>5, <2>7
  <1>9. CASE d < Base - 3
    <2>1. ReadVarInt(b) = Success(d, q)
      BY <1>4, <1>9, AnyByteAnnounces
    <2>2. ReadVarInt(b).value = d /\ ReadVarInt(b).rest = q
      BY <2>1, ReadResults
    <2>3. WriteVarInt(d) = <<d>>
      BY <1>5, <1>9 DEF WriteVarInt, PutUint8
    <2> QED
      BY <1>4, <2>2, <2>3
  <1>10. d = Base - 3 \/ d = Base - 2 \/ d = Base - 1 \/ d < Base - 3
    BY <1>5
  <1> QED
    BY <1>6, <1>7, <1>8, <1>9, <1>10

-----------------------------------------------------------------------------
(* Items of every type.                                                    *)

\* What is read is what was written, from all of it, whatever follows; where it was
\* cut there is an error, or nothing is left and it was not a number.
IsFramed(item) ==
    /\ Encode(item) \in Seq(Byte)
    /\ \A r \in Seq(Byte) :
          /\ Decode(item, Encode(item) \o r).ok
          /\ ItemOf(item, Decode(item, Encode(item) \o r).value) = item
          /\ Decode(item, Encode(item) \o r).rest = r
    /\ \A p, z \in Seq(Byte) :
          p \o z = Encode(item) /\ z # <<>> =>
             /\ Ends(Decode(item, p))
             /\ Decode(item, p).ok => "number" \notin DOMAIN item

\* A number is framed when it is read as written and a part of it is not read.
LEMMA FramedNumber ==
    ASSUME NEW item, Encode(item) \in Seq(Byte),
           ItemOf(item, item.number) = item,
           \A r \in Seq(Byte) : Decode(item, Encode(item) \o r) = Success(item.number, r),
           \A p, z \in Seq(Byte) :
              p \o z = Encode(item) /\ z # <<>> => Decode(item, p) = Failure
    PROVE  IsFramed(item)
  <1>1. ASSUME NEW r \in Seq(Byte)
        PROVE  /\ Decode(item, Encode(item) \o r).ok
               /\ ItemOf(item, Decode(item, Encode(item) \o r).value) = item
               /\ Decode(item, Encode(item) \o r).rest = r
    BY ReadResults
  <1>2. ASSUME NEW p \in Seq(Byte), NEW z \in Seq(Byte), p \o z = Encode(item), z # <<>>
        PROVE  /\ Ends(Decode(item, p))
               /\ Decode(item, p).ok => "number" \notin DOMAIN item
    BY <1>2, FailureEnds, ReadResults
  <1>3. \A p, z \in Seq(Byte) :
          p \o z = Encode(item) /\ z # <<>> =>
             /\ Ends(Decode(item, p))
             /\ Decode(item, p).ok => "number" \notin DOMAIN item
    BY <1>2
  <1> QED
    BY <1>1, <1>3, Zenon DEF IsFramed

\* Bytes are framed when they are read as written and a part of them ends the reading.
LEMMA FramedBytes ==
    ASSUME NEW item, NEW value, Encode(item) \in Seq(Byte),
           ItemOf(item, value) = item, "number" \notin DOMAIN item,
           \A r \in Seq(Byte) : Decode(item, Encode(item) \o r) = Success(value, r),
           \A p, z \in Seq(Byte) :
              p \o z = Encode(item) /\ z # <<>> => Ends(Decode(item, p))
    PROVE  IsFramed(item)
  <1>1. ASSUME NEW r \in Seq(Byte)
        PROVE  /\ Decode(item, Encode(item) \o r).ok
               /\ ItemOf(item, Decode(item, Encode(item) \o r).value) = item
               /\ Decode(item, Encode(item) \o r).rest = r
    BY ReadResults
  <1> QED
    BY <1>1, Zenon DEF IsFramed

\* The items, one type after the other.
LEMMA FramedUint8 ==
    ASSUME NEW item \in [type : {"uint8"}, number : Byte]
    PROVE  IsFramed(item)
  <1> DEFINE v == item.number
  <1>1. /\ v \in Byte
        /\ Encode(item) = PutUint8(v)
        /\ \A b : Decode(item, b) = Uint8(b)
        /\ ItemOf(item, v) = item
    BY DEF Encode, Decode, ItemOf, NumberItem
  <1> HIDE DEF v
  <1> DEFINE e == <<v>>
  <1>2. /\ e \in Seq(Byte) /\ Len(e) = 1
        /\ \A r \in Seq(Byte) : Uint8(e \o r) = Success(v, r)
    BY <1>1, ReadUint8
  <1> HIDE DEF e
  <1>3. ASSUME NEW p \in Seq(Byte), NEW z \in Seq(Byte), p \o z = e, z # <<>>
        PROVE  Uint8(p) = Failure
    BY <1>2, <1>3, CutIsShorter, NothingToRead
  <1>4. Encode(item) = e
    BY <1>1 DEF PutUint8, e
  <1> QED
    BY <1>1, <1>2, <1>3, <1>4, FramedNumber DEF v

LEMMA FramedUint16 ==
    ASSUME NEW item \in [type : {"uint16"}, number : 0 .. Size16 - 1]
    PROVE  IsFramed(item)
  <1> DEFINE v == item.number
  <1>1. /\ v \in 0 .. Size16 - 1
        /\ Encode(item) = PutUint16(v)
        /\ \A b : Decode(item, b) = Uint16(b)
        /\ ItemOf(item, v) = item
    BY DEF Encode, Decode, ItemOf, NumberItem
  <1> HIDE DEF v
  <1>2. /\ PutUint16(v) \in Seq(Byte)
        /\ \A r \in Seq(Byte) : Uint16(PutUint16(v) \o r) = Success(v, r)
        /\ \A p, z \in Seq(Byte) : p \o z = PutUint16(v) /\ z # <<>> => Uint16(p) = Failure
    BY <1>1, Put16, ReadUint16
  <1> QED
    BY <1>1, <1>2, FramedNumber DEF v

LEMMA FramedUint32 ==
    ASSUME NEW item \in [type : {"uint32"}, number : 0 .. Size32 - 1]
    PROVE  IsFramed(item)
  <1> DEFINE v == item.number
  <1>1. /\ v \in 0 .. Size32 - 1
        /\ Encode(item) = PutUint32(v)
        /\ \A b : Decode(item, b) = Uint32(b)
        /\ ItemOf(item, v) = item
    BY DEF Encode, Decode, ItemOf, NumberItem
  <1> HIDE DEF v
  <1>2. /\ PutUint32(v) \in Seq(Byte)
        /\ \A r \in Seq(Byte) : Uint32(PutUint32(v) \o r) = Success(v, r)
        /\ \A p, z \in Seq(Byte) : p \o z = PutUint32(v) /\ z # <<>> => Uint32(p) = Failure
    BY <1>1, Put32, ReadUint32
  <1> QED
    BY <1>1, <1>2, FramedNumber DEF v

LEMMA FramedUint64 ==
    ASSUME NEW item \in [type : {"uint64"}, number : 0 .. Size64 - 1]
    PROVE  IsFramed(item)
  <1> DEFINE v == item.number
  <1>1. /\ v \in 0 .. Size64 - 1
        /\ Encode(item) = PutUint64(v)
        /\ \A b : Decode(item, b) = Uint64(b)
        /\ ItemOf(item, v) = item
    BY DEF Encode, Decode, ItemOf, NumberItem
  <1> HIDE DEF v
  <1>2. /\ PutUint64(v) \in Seq(Byte)
        /\ \A r \in Seq(Byte) : Uint64(PutUint64(v) \o r) = Success(v, r)
        /\ \A p, z \in Seq(Byte) : p \o z = PutUint64(v) /\ z # <<>> => Uint64(p) = Failure
    BY <1>1, Put64, ReadUint64
  <1> QED
    BY <1>1, <1>2, FramedNumber DEF v

LEMMA FramedVarInt ==
    ASSUME NEW item \in [type : {"varint"}, number : 0 .. Size64 - 1]
    PROVE  IsFramed(item)
  <1> DEFINE v == item.number
  <1>1. /\ v \in 0 .. Size64 - 1
        /\ Encode(item) = WriteVarInt(v)
        /\ \A b : Decode(item, b) = ReadVarInt(b)
        /\ ItemOf(item, v) = item
    BY DEF Encode, Decode, ItemOf, NumberItem
  <1> HIDE DEF v
  <1>2. IsVarInt(WriteVarInt(v), v)
    BY <1>1, ReadOwnVarInt
  <1>3. /\ WriteVarInt(v) \in Seq(Byte)
        /\ \A r \in Seq(Byte) : ReadVarInt(WriteVarInt(v) \o r) = Success(v, r)
        /\ \A p, z \in Seq(Byte) : p \o z = WriteVarInt(v) /\ z # <<>> => ReadVarInt(p) = Failure
    BY <1>2 DEF IsVarInt
  <1> QED
    BY <1>1, <1>3, FramedNumber DEF v

LEMMA FramedSlice ==
    ASSUME NEW item \in [type : {"slice"}, slice : Slices]
    PROVE  IsFramed(item)
  <1> DEFINE s == item.slice
  <1>1. /\ s \in Seq(Byte)
        /\ Encode(item) = s
        /\ \A b : Decode(item, b) = ReadSlice(Len(s), b)
        /\ ItemOf(item, s) = item
        /\ "number" \notin DOMAIN item
    BY DEF Encode, Decode, ItemOf, BytesItem, Slices
  <1> HIDE DEF s
  <1>2. /\ s \in Seq(Byte)
        /\ \A r \in Seq(Byte) : ReadSlice(Len(s), s \o r) = Success(s, r)
        /\ \A p, z \in Seq(Byte) : p \o z = s /\ z # <<>> => Ends(ReadSlice(Len(s), p))
    BY <1>1, ReadOwnSlice
  <1> QED
    BY <1>1, <1>2, FramedBytes

LEMMA FramedVarSlice ==
    ASSUME NEW item \in [type : {"varslice"}, slice : Slices]
    PROVE  IsFramed(item)
  <1> DEFINE s == item.slice
  <1>1. /\ s \in Slices
        /\ Encode(item) = WriteVarSlice(s)
        /\ \A b : Decode(item, b) = ReadVarSlice(b)
        /\ ItemOf(item, s) = item
        /\ "number" \notin DOMAIN item
    BY DEF Encode, Decode, ItemOf, BytesItem
  <1> HIDE DEF s
  <1>2. /\ WriteVarSlice(s) \in Seq(Byte)
        /\ \A r \in Seq(Byte) : ReadVarSlice(WriteVarSlice(s) \o r) = Success(s, r)
        /\ \A p, z \in Seq(Byte) : p \o z = WriteVarSlice(s) /\ z # <<>> => Ends(ReadVarSlice(p))
    BY <1>1, ReadOwnVarSlice
  <1> QED
    BY <1>1, <1>2, FramedBytes

LEMMA FramedVector ==
    ASSUME NEW item \in [type : {"vector"}, slices : Seq(Slices)], Len(item.slices) < Size64
    PROVE  IsFramed(item)
  <1> DEFINE s == item.slices
  <1>1. /\ s \in Seq(Slices) /\ Len(s) < Size64
        /\ Encode(item) = WriteVector(s)
        /\ \A b : Decode(item, b) = ReadVector(b)
        /\ ItemOf(item, s) = item
        /\ "number" \notin DOMAIN item
    BY DEF Encode, Decode, ItemOf, VectorItem
  <1> HIDE DEF s
  <1>2. /\ WriteVector(s) \in Seq(Byte)
        /\ \A r \in Seq(Byte) : ReadVector(WriteVector(s) \o r) = Success(s, r)
        /\ \A p, z \in Seq(Byte) : p \o z = WriteVector(s) /\ z # <<>> => Ends(ReadVector(p))
    BY <1>1, ReadOwnVector
  <1> QED
    BY <1>1, <1>2, FramedBytes

\* A field is its prefix and as many bytes as the prefix announces.
LEMMA FramedField ==
    ASSUME NEW item \in [type : {"value", "asset", "nonce"}, slice : Slices],
           item.slice # <<>>,
           \/ item.type = "value" /\ item.slice[1] \in {0, 1, 8, 9}
           \/ item.type = "asset" /\ item.slice[1] \in {1, 10, 11}
           \/ item.type = "nonce" /\ item.slice[1] \in 0 .. 3,
           Len(item.slice) = 1 + AfterPrefix(item.type, item.slice[1])
    PROVE  IsFramed(item)
  <1> DEFINE s == item.slice
             v == item.slice[1]
             n == AfterPrefix(item.type, item.slice[1])
             first == <<v>>
             body == After(1, s)
  <1>1. /\ s \in Seq(Byte) /\ s # <<>> /\ Encode(item) = s /\ ItemOf(item, s) = item
        /\ "number" \notin DOMAIN item /\ Len(s) = 1 + n
    BY DEF Encode, ItemOf, BytesItem, Slices
  <1>2. n \in Nat /\ Len(s) \in Nat /\ 1 <= Len(s)
    BY <1>1, LenProperties, EmptySeq DEF AfterPrefix
  <1>3. v \in Byte
    BY <1>1, <1>2, ElementOfSeq
  <1>4. ASSUME NEW b, Uint8(b).ok, Uint8(b).value = v
        PROVE  Decode(item, b) = IF n = 0 THEN PrefixAlone(Uint8(b)) ELSE ReadPrefixed(Uint8(b), n)
    <2>1. CASE item.type = "value"
      BY <1>4, <2>1
         DEF Decode, ReadElementsValue, AfterPrefix
    <2>2. CASE item.type = "asset"
      BY <1>4, <2>2
         DEF Decode, ReadElementsAsset, AfterPrefix
    <2>3. CASE item.type = "nonce"
      BY <1>4, <2>3
         DEF Decode, ReadElementsNonce, AfterPrefix
    <2> QED
      BY <2>1, <2>2, <2>3
  <1>5. ASSUME NEW b, Uint8(b) = Failure PROVE Decode(item, b) = Failure
    <2>1. ~Uint8(b).ok
      BY <1>5, ReadResults
    <2> QED
      BY <2>1 DEF Decode, ReadElementsValue, ReadElementsAsset, ReadElementsNonce
  <1> HIDE DEF s, v, n, body
  <1>6. /\ body \in Seq(Byte) /\ Len(body) = n
        /\ s = <<v>> \o body
    <2>1. first \in Seq(Byte) /\ Len(first) = 1 /\ first[1] = v
      BY <1>3, ReadUint8
    <2> HIDE DEF first
    <2>2. Len(first) <= Len(s) /\ \A i \in 1 .. Len(first) : first[i] = s[i]
      BY <1>2, <2>1 DEF v, s
    <2>3. s = first \o After(Len(first), s) /\ After(Len(first), s) \in Seq(Byte)
      BY <1>1, <2>1, <2>2, BeginsWith
    <2>4. s = first \o body /\ body \in Seq(Byte)
      BY <2>1, <2>3, Zenon DEF body
    <2>5. Len(s) = 1 + Len(body) /\ Len(body) \in Nat
      <3>1. Len(first \o body) = Len(first) + Len(body) /\ Len(body) \in Nat
        BY <2>1, <2>4, Concat
      <3> QED
        BY <2>1, <2>4, <3>1
    <2> QED
      BY <1>1, <1>2, <2>4, <2>5 DEF first
  <1>7. ASSUME NEW q \in Seq(Byte)
        PROVE  Decode(item, <<v>> \o q) =
                  IF n = 0 THEN Success(<<v>>, q) ELSE ReadPrefixed(Success(v, q), n)
    <2>1. Uint8(<<v>> \o q) = Success(v, q)
      BY <1>3, ReadUint8
    <2> QED
      BY <1>4, <2>1, ReadResults DEF PrefixAlone
  <1>8. <<v>> \in Seq(Byte) /\ Len(<<v>>) = 1
    BY <1>3, ReadUint8
  <1> HIDE DEF first
  <1>9. first = <<v>> /\ first \in Seq(Byte) /\ Len(first) = 1
    BY <1>8 DEF first
  <1>10. ASSUME NEW r \in Seq(Byte) PROVE Decode(item, s \o r) = Success(s, r)
    <2>1. s \o r = first \o (body \o r)
      <3>1. \A x, y, z \in Seq(Byte) : (x \o y) \o z = x \o (y \o z)
        BY ConcatAssociative
      <3> QED
        BY <1>6, <1>9, <3>1
    <2>2. body \o r \in Seq(Byte)
      BY <1>6, Concat
    <2>3. CASE n = 0
      <3>1. body = <<>>
        BY <1>6, <2>3, EmptySeq
      <3>2. body \o r = r /\ s = first
        BY <1>6, <1>9, <3>1, ConcatEmptySeq
      <3> QED
        BY <1>7, <1>9, <2>1, <2>3, <3>2
    <2>4. CASE n # 0
      <3>1. Decode(item, s \o r) = ReadPrefixed(Success(v, body \o r), n)
        BY <1>7, <1>9, <2>1, <2>2, <2>4
      <3>2. ReadSlice(n, body \o r) = Success(body, r)
        BY <1>6, ReadOwnSlice
      <3> QED
        BY <1>6, <3>1, <3>2, ReadResults DEF ReadPrefixed
    <2> QED
      BY <2>3, <2>4
  <1>11. ASSUME NEW p \in Seq(Byte), NEW z \in Seq(Byte), p \o z = s, z # <<>>
         PROVE  Ends(Decode(item, p))
    <2>1. CutWithin(p, z, first, body)
      BY <1>6, <1>9, <1>11, CutAnywhere
    <2>2. CASE \E y \in Seq(Byte) : y # <<>> /\ p \o y = first
      BY <1>5, <1>9, <2>2, CutIsShorter, NothingToRead, FailureEnds
    <2>3. CASE \E q \in Seq(Byte) : p = first \o q /\ q \o z = body
      <3>1. PICK q \in Seq(Byte) : p = first \o q /\ q \o z = body
        BY <2>3
      <3>2. Ends(ReadSlice(n, q))
        BY <1>6, <1>11, <3>1, ReadOwnSlice
      <3>3. Ends(ReadPrefixed(Success(v, q), n))
        BY <3>2, ReadResults DEF ReadPrefixed, Ends
      <3>4. n # 0
        <4>1. Len(q) \in Nat /\ Len(q) < Len(q \o z)
          BY <1>11, CutIsShorter
        <4> QED
          BY <1>2, <1>6, <3>1, <4>1
      <3> QED
        BY <1>7, <1>9, <3>1, <3>3, <3>4
    <2> QED
      BY <2>1, <2>2, <2>3 DEF CutWithin
  <1> QED
    BY <1>1, <1>10, <1>11, FramedBytes

\* Every item that can be written is framed.
LEMMA ItemsAreFramed ==
    ASSUME NEW item, IsItem(item)
    PROVE  IsFramed(item)
  BY FramedUint8, FramedUint16, FramedUint32, FramedUint64, FramedVarInt, FramedSlice,
     FramedVarSlice, FramedVector, FramedField DEF IsItem

\* From a buffer of which nothing is left, only a slice of no byte is read.
LEMMA NothingLeft ==
    ASSUME NEW item, IsItem(item), Decode(item, <<>>).ok
    PROVE  /\ item = BytesItem("slice", <<>>)
           /\ ItemOf(item, Decode(item, <<>>).value) = item
           /\ Decode(item, <<>>).rest = <<>>
  <1>1. Len(<<>>) = 0
    BY EmptySeq
  <1>2. /\ Uint8(<<>>) = Failure /\ Uint16(<<>>) = Failure
        /\ Uint32(<<>>) = Failure /\ Uint64(<<>>) = Failure
    BY <1>1 DEF Uint8, Uint16, Uint32, Uint64
  <1>3. ReadVarInt(<<>>) = Failure /\ ReadVarSlice(<<>>) = Failure /\ ReadVector(<<>>) = Failure
    <2>1. ReadVarInt(<<>>) = Failure
      BY <1>1, NothingToRead
    <2>2. ReadVector(<<>>) = Failure
      BY <2>1, ReadResults DEF ReadVector
    <2> QED
      BY <2>1, <2>2, NoVarSlice
  <1>4. /\ ReadElementsValue(<<>>) = Failure
        /\ ReadElementsAsset(<<>>) = Failure
        /\ ReadElementsNonce(<<>>) = Failure
    BY <1>2, ReadResults DEF ReadElementsValue, ReadElementsAsset, ReadElementsNonce
  <1>5. item \in [type : {"slice"}, slice : Slices]
    <2>1. item.type = "slice" \/ Decode(item, <<>>) = Failure
      BY <1>2, <1>3, <1>4 DEF IsItem, Decode
    <2> QED
      BY <2>1, ReadResults DEF IsItem
  <1> DEFINE n == Len(item.slice)
  <1>6. Decode(item, <<>>) = ReadSlice(n, <<>>) /\ n \in Nat
    BY <1>5, LenProperties DEF Decode, Slices
  <1> HIDE DEF n
  <1>7. n = 0
    BY <1>6, ReadResults DEF ReadSlice
  <1>8. ReadSlice(0, <<>>) = Success([i \in 1 .. 0 |-> IF i <= Len(<<>>) THEN <<>>[i] ELSE 0],
                                     After(0, <<>>))
    BY DEF ReadSlice
  <1>9. [i \in 1 .. 0 |-> IF i <= Len(<<>>) THEN <<>>[i] ELSE 0] = <<>>
    OBVIOUS
  <1>10. After(0, <<>>) = <<>>
    BY <1>1, SubSeqEmpty DEF After
  <1>11. Decode(item, <<>>) = Success(<<>>, <<>>)
    BY <1>6, <1>7, <1>8, <1>9, <1>10
  <1>12. item = BytesItem("slice", <<>>)
    <2>1. item.slice = <<>>
      BY <1>5, <1>7, EmptySeq DEF Slices, n
    <2> QED
      BY <1>5, <2>1 DEF BytesItem
  <1> QED
    BY <1>5, <1>11, <1>12, ReadResults DEF ItemOf, BytesItem

-----------------------------------------------------------------------------
(* The numbers of scripts.                                                 *)

\* What the loop of Bytes takes off a number leaves a smaller one.
LEMMA DivisionIsLess ==
    ASSUME NEW r \in Nat \ {0}
    PROVE  /\ r % Base \in Byte /\ r \div Base \in Nat /\ r \div Base < r
           /\ r = (r % Base) + Base * (r \div Base)
  <1> DEFINE q == r \div Base
             d == r % Base
  <1>1. Base \in Nat \ {0} /\ Base > 11
    BY Sizes
  <1>2. q \in Nat /\ d \in 0 .. Base - 1 /\ r = Base * q + d
    BY <1>1
  <1> HIDE DEF q, d
  <1>3. 2 * q <= Base * q /\ Base * q \in Nat
    BY <1>1, <1>2
  <1>4. q < r
    BY <1>2, <1>3
  <1> QED
    BY <1>1, <1>2, <1>3, <1>4 DEF q, d, Byte

IsDigits(f, m) ==
    f = [r \in 0 .. m |-> IF r = 0 THEN <<>> ELSE <<r % Base>> \o f[r \div Base]]

\* The recursion of Digits, at one number.
LEMMA DigitsStep ==
    ASSUME NEW f, NEW m \in Nat, IsDigits(f, m), NEW r \in 0 .. m
    PROVE  f[r] = IF r = 0 THEN <<>> ELSE <<r % Base>> \o f[r \div Base]
  <1> DEFINE step(k) == IF k = 0 THEN <<>> ELSE <<k % Base>> \o f[k \div Base]
             g == [k \in 0 .. m |-> step(k)]
  <1>1. f = g
    BY DEF IsDigits
  <1>2. g[r] = step(r)
    OBVIOUS
  <1> HIDE DEF g
  <1>3. f[r] = step(r)
    BY <1>1, <1>2
  <1> QED
    BY <1>3

\* There is a function that satisfies the recursion of Digits.
LEMMA DigitsExist ==
    ASSUME NEW n \in Nat
    PROVE  \E f : IsDigits(f, n)
  <1> DEFINE Holds == {m \in Nat : \E f : IsDigits(f, m)}
  <1>1. 0 \in Holds
    <2> DEFINE f == [r \in 0 .. 0 |-> <<>>]
    <2>1. \A r \in 0 .. 0 : f[r] = IF r = 0 THEN <<>> ELSE <<r % Base>> \o f[r \div Base]
      OBVIOUS
    <2>2. IsDigits(f, 0)
      BY <2>1 DEF IsDigits
    <2> QED
      BY <2>2
  <1>2. ASSUME NEW m \in Nat, m \in Holds PROVE m + 1 \in Holds
    <2>1. PICK f : IsDigits(f, m)
      BY <1>2
    <2> DEFINE step(r) == IF r = 0 THEN <<>> ELSE <<r % Base>> \o f[r \div Base]
               g == [r \in 0 .. m + 1 |-> step(r)]
    <2>2. \A r \in 0 .. m : g[r] = f[r]
      <3>1. \A r \in 0 .. m : r \in 0 .. m + 1
        OBVIOUS
      <3> QED
        BY <2>1, <3>1, DigitsStep
    <2>3. ASSUME NEW r \in 0 .. m + 1, r # 0 PROVE r \div Base \in 0 .. m
      <3>1. r \div Base \in Nat /\ r \div Base < r
        BY <2>3, DivisionIsLess
      <3> QED
        BY <3>1
    <2>4. \A r \in 0 .. m + 1 : g[r] = IF r = 0 THEN <<>> ELSE <<r % Base>> \o g[r \div Base]
      BY <2>2, <2>3
    <2>5. IsDigits(g, m + 1)
      BY <2>4 DEF IsDigits
    <2> QED
      BY <2>5
  <1>3. n \in Holds
    <2> HIDE DEF Holds
    <2> QED
      BY <1>1, <1>2, NaturalsByInduction
  <1> QED
    BY <1>3

\* q is what is left of a number before each digit, and at the end.
Adds(q, d, m) ==
    /\ q \in [1 .. Len(d) + 1 -> Nat]
    /\ q[1] = m
    /\ q[Len(d) + 1] = 0
    /\ \A i \in 1 .. Len(d) : q[i] = d[i] + Base * q[i + 1]

\* The digits of a number, the last of which is not 0.
IsMagnitude(d, m) ==
    /\ d \in Seq(Byte)
    /\ d # <<>> => d[Len(d)] # 0
    /\ \E q : Adds(q, d, m)

\* A digit put before those of a magnitude.
LEMMA OneDigitMore ==
    ASSUME NEW r \in Nat \ {0}, NEW d, IsMagnitude(d, r \div Base)
    PROVE  IsMagnitude(<<r % Base>> \o d, r)
  <1> DEFINE x == r % Base
             m == r \div Base
             first == <<x>>
             e == first \o d
  <1>1. x \in Byte /\ m \in Nat /\ r = x + Base * m
    BY DivisionIsLess
  <1>2. d \in Seq(Byte) /\ (d # <<>> => d[Len(d)] # 0) /\ \E q : Adds(q, d, m)
    BY DEF IsMagnitude
  <1> HIDE DEF x, m
  <1>3. first \in Seq(Byte) /\ Len(first) = 1 /\ first[1] = x
    BY <1>1, ReadUint8
  <1> HIDE DEF first
  <1>4. /\ e \in Seq(Byte) /\ Len(e) = 1 + Len(d) /\ Len(d) \in Nat
        /\ e[1] = x /\ \A i \in 1 .. Len(d) : e[1 + i] = d[i]
    <2>1. /\ e \in Seq(Byte) /\ Len(e) = Len(first) + Len(d) /\ Len(d) \in Nat
          /\ \A i \in 1 .. Len(first) : e[i] = first[i]
          /\ \A i \in 1 .. Len(d) : e[Len(first) + i] = d[i]
      BY <1>2, <1>3, Concat
    <2> QED
      BY <1>3, <2>1
  <1> HIDE DEF e
  <1>5. PICK q : Adds(q, d, m)
    BY <1>2
  <1>6. /\ q \in [1 .. Len(d) + 1 -> Nat] /\ q[1] = m /\ q[Len(d) + 1] = 0
        /\ \A i \in 1 .. Len(d) : q[i] = d[i] + Base * q[i + 1]
    BY <1>5 DEF Adds
  <1> DEFINE p == [i \in 1 .. Len(e) + 1 |-> IF i = 1 THEN r ELSE q[i - 1]]
  <1>7. p \in [1 .. Len(e) + 1 -> Nat] /\ p[1] = r /\ p[Len(e) + 1] = 0
    BY <1>4, <1>6
  <1>8. ASSUME NEW i \in 1 .. Len(e) PROVE p[i] = e[i] + Base * p[i + 1]
    <2>1. i + 1 \in 1 .. Len(e) + 1 /\ i + 1 # 1 /\ (i + 1) - 1 = i /\ i \in 1 .. Len(e) + 1
      BY <1>4
    <2>2. p[i + 1] = q[i]
      BY <2>1
    <2>3. CASE i = 1
      BY <1>1, <1>4, <1>6, <2>2, <2>3
    <2>4. CASE i # 1
      <3>1. i - 1 \in 1 .. Len(d) /\ 1 + (i - 1) = i /\ (i - 1) + 1 = i
        BY <1>4, <2>4
      <3>2. p[i] = q[i - 1] /\ e[i] = d[i - 1] /\ q[i - 1] = d[i - 1] + Base * q[(i - 1) + 1]
        BY <1>4, <1>6, <2>1, <2>4, <3>1
      <3> QED
        BY <2>2, <3>1, <3>2
    <2> QED
      BY <2>3, <2>4
  <1> HIDE DEF p
  <1>9. Adds(p, e, r)
    BY <1>7, <1>8 DEF Adds
  <1>10. e[Len(e)] # 0
    <2>1. CASE d = <<>>
      <3>1. Len(d) = 0
        BY <2>1, EmptySeq
      <3>2. m = 0
        BY <1>6, <3>1
      <3>3. x # 0
        BY <1>1, <3>2, Sizes
      <3> QED
        BY <1>4, <3>1, <3>3
    <2>2. CASE d # <<>>
      <3>1. Len(d) \in 1 .. Len(d)
        BY <1>2, <2>2, EmptySeq
      <3> QED
        BY <1>2, <1>4, <2>2, <3>1
    <2> QED
      BY <2>1, <2>2
  <1>11. IsMagnitude(e, r)
    BY <1>4, <1>9, <1>10 DEF IsMagnitude
  <1> QED
    BY <1>11 DEF e, first, x

\* The digits of a positive number add up to it, and the last is not zero.
LEMMA DigitsOfNumber ==
    ASSUME NEW m \in Nat \ {0}
    PROVE  IsMagnitude(S!Digits(m), m) /\ S!Digits(m) # <<>>
  <1> DEFINE f == CHOOSE g : IsDigits(g, m)
  <1>1. IsDigits(f, m)
    BY DigitsExist
  <1>2. S!Digits(m) = f[m]
    BY DEF S!Digits, IsDigits
  <1> HIDE DEF f
  <1> DEFINE Holds == {n \in Nat : \A r \in 0 .. n : r <= m => IsMagnitude(f[r], r)}
  <1>3. 0 \in Holds
    <2>1. f[0] = <<>>
      <3>1. 0 \in 0 .. m /\ m \in Nat
        OBVIOUS
      <3> QED
        BY <1>1, <3>1, DigitsStep
    <2> DEFINE q == [i \in 1 .. 0 + 1 |-> 0]
    <2>2. Adds(q, <<>>, 0)
      BY EmptySeq DEF Adds
    <2>3. IsMagnitude(<<>>, 0)
      BY <2>2, EmptySeq DEF IsMagnitude
    <2> QED
      BY <2>1, <2>3
  <1>4. ASSUME NEW n \in Nat, n \in Holds PROVE n + 1 \in Holds
    <2> SUFFICES ASSUME n + 1 <= m PROVE IsMagnitude(f[n + 1], n + 1)
      BY <1>4
    <2>1. PICK r \in 1 .. m : r = n + 1
      OBVIOUS
    <2>2. f[r] = <<r % Base>> \o f[r \div Base]
      <3>1. r \in 0 .. m /\ m \in Nat /\ r # 0
        OBVIOUS
      <3> QED
        BY <1>1, <3>1, DigitsStep
    <2>3. r \div Base \in 0 .. n /\ r \div Base <= m
      BY <2>1, DivisionIsLess
    <2>4. IsMagnitude(f[r \div Base], r \div Base)
      BY <1>4, <2>3
    <2>5. IsMagnitude(f[r], r)
      BY <2>1, <2>2, <2>4, OneDigitMore
    <2> QED
      BY <2>1, <2>5
  <1>5. m \in Holds
    <2> HIDE DEF Holds
    <2> QED
      BY <1>3, <1>4, NaturalsByInduction
  <1>6. IsMagnitude(f[m], m)
    BY <1>5
  <1>7. f[m] # <<>>
    <2> SUFFICES ASSUME f[m] = <<>> PROVE FALSE
      OBVIOUS
    <2>1. PICK q : Adds(q, <<>>, m)
      BY <1>6 DEF IsMagnitude
    <2> QED
      BY <2>1, EmptySeq DEF Adds
  <1> QED
    BY <1>2, <1>6, <1>7

\* The sign is half of what a byte can be.
LEMMA SignIsHalf ==
    /\ S!SignBit \in Nat \ {0} /\ Base = 2 * S!SignBit
    /\ Base % 2 = 0
  BY NumbersAssumption, Sizes DEF S!SignBit

\* What the network adds up, from the last byte to the first.
IsDecoding(f, b, last) ==
    f = [i \in 1 .. last + 1 |->
            IF i > last THEN 0
            ELSE (IF i = last THEN b[i] % S!SignBit ELSE b[i]) + Base * f[i + 1]]

\* The recursion of Decode, at one byte.
LEMMA DecodingStep ==
    ASSUME NEW f, NEW b, NEW last \in Nat, IsDecoding(f, b, last), NEW i \in 1 .. last + 1
    PROVE  f[i] = IF i > last THEN 0
                  ELSE (IF i = last THEN b[i] % S!SignBit ELSE b[i]) + Base * f[i + 1]
  <1> DEFINE step(k) == IF k > last THEN 0
                        ELSE (IF k = last THEN b[k] % S!SignBit ELSE b[k]) + Base * f[k + 1]
             g == [k \in 1 .. last + 1 |-> step(k)]
  <1>1. f = g
    BY DEF IsDecoding
  <1>2. g[i] = step(i)
    OBVIOUS
  <1> HIDE DEF g
  <1>3. f[i] = step(i)
    BY <1>1, <1>2
  <1> QED
    BY <1>3

\* The bytes of a number, its sign aside, are read as that number.
LEMMA DecodedNumber ==
    ASSUME NEW b \in Seq(Byte), NEW last \in Nat \ {0}, Len(b) = last,
           NEW m, NEW q \in [1 .. last + 1 -> Nat], q[1] = m, q[last + 1] = 0,
           \A i \in 1 .. last :
              q[i] = (IF i = last THEN b[i] % S!SignBit ELSE b[i]) + Base * q[i + 1]
    PROVE  /\ b[last] >= S!SignBit => S!Decode(b) = -m
           /\ b[last] < S!SignBit => S!Decode(b) = m
  <1> DEFINE step(i) == IF i > last THEN 0
                        ELSE (IF i = last THEN b[i] % S!SignBit ELSE b[i]) + Base * q[i + 1]
             f == CHOOSE g : IsDecoding(g, b, last)
  <1>1. \A i \in 1 .. last + 1 : q[i] = step(i)
    OBVIOUS
  <1>2. q = [i \in 1 .. last + 1 |-> step(i)]
    BY <1>1
  <1>3. IsDecoding(q, b, last)
    BY <1>2 DEF IsDecoding
  <1>4. IsDecoding(f, b, last)
    BY <1>3
  <1>5. /\ b[last] >= S!SignBit => S!Decode(b) = -f[1]
        /\ b[last] < S!SignBit => S!Decode(b) = f[1]
    <2> DEFINE g == CHOOSE h : IsDecoding(h, b, Len(b))
               half == S!SignBit
    <2>1. S!Decode(b) = CASE b = <<>> -> 0
                          [] b # <<>> /\ b[Len(b)] >= half -> -g[1]
                          [] b # <<>> /\ b[Len(b)] < half -> g[1]
      BY Zenon DEF S!Decode, IsDecoding
    <2>2. b # <<>> /\ b[last] \in Int /\ half \in Int /\ f = g
      BY EmptySeq, ElementOfSeq, SignIsHalf DEF Byte
    <2> HIDE DEF f, g, half
    <2>3. /\ b[last] >= half => S!Decode(b) = -f[1]
          /\ b[last] < half => S!Decode(b) = f[1]
      BY <2>1, <2>2
    <2> QED
      BY <2>3 DEF half
  <1> HIDE DEF f
  <1> DEFINE Holds == {j \in Nat : j <= last => f[last + 1 - j] = q[last + 1 - j]}
  <1>6. 0 \in Holds
    <2>1. last + 1 \in 1 .. last + 1 /\ last + 1 > last /\ last + 1 - 0 = last + 1
      OBVIOUS
    <2>2. f[last + 1] = 0
      BY <1>4, <2>1, DecodingStep
    <2> QED
      BY <2>1, <2>2
  <1>7. ASSUME NEW j \in Nat, j \in Holds PROVE j + 1 \in Holds
    <2> SUFFICES ASSUME j + 1 <= last
                 PROVE  f[last + 1 - (j + 1)] = q[last + 1 - (j + 1)]
      OBVIOUS
    <2>1. PICK i \in 1 .. last : i = last + 1 - (j + 1)
      OBVIOUS
    <2>2. i + 1 = last + 1 - j /\ j <= last /\ i \in 1 .. last + 1 /\ ~(i > last)
      BY <2>1
    <2>3. f[i + 1] = q[i + 1]
      BY <1>7, <2>2
    <2>4. f[i] = (IF i = last THEN b[i] % S!SignBit ELSE b[i]) + Base * f[i + 1]
      BY <1>4, <2>2, DecodingStep
    <2>5. q[i] = (IF i = last THEN b[i] % S!SignBit ELSE b[i]) + Base * q[i + 1]
      OBVIOUS
    <2> QED
      BY <2>1, <2>3, <2>4, <2>5
  <1>8. last \in Holds
    <2> HIDE DEF Holds
    <2> QED
      BY <1>6, <1>7, NaturalsByInduction
  <1>9. f[1] = m
    <2>1. last + 1 - last = 1
      OBVIOUS
    <2> QED
      BY <1>8, <2>1
  <1> QED
    BY <1>5, <1>9

\* Bytes, without the cases that are out of the question.
LEMMA BytesOfNumber ==
    ASSUME NEW n \in Int, NEW d, NEW sign, NEW last,
           d = S!Digits(IF n < 0 THEN S!Negate(n) ELSE n), last = d[Len(d)],
           last \in Int, sign = IF n < 0 THEN S!SignBit ELSE 0
    PROVE  /\ n = 0 => S!Bytes(n) = <<>>
           /\ n # 0 /\ d # <<>> /\ last >= S!SignBit => S!Bytes(n) = Append(d, sign)
           /\ n # 0 /\ d # <<>> /\ last < S!SignBit =>
                 S!Bytes(n) = [d EXCEPT ![Len(d)] = @ + sign]
  <1> DEFINE longer == Append(d, sign)
             signed == [d EXCEPT ![Len(d)] = @ + sign]
             half == S!SignBit
  <1>1. S!Bytes(n) = CASE n = 0 -> <<>>
                       [] n # 0 /\ d = <<>> -> Panic
                       [] d # <<>> /\ last >= half -> longer
                       [] d # <<>> /\ last < half -> signed
    BY Zenon DEF S!Bytes
  <1>2. half \in Int /\ (n = 0 => d = <<>>)
    <2>1. S!Digits(0) = <<>>
      <3>1. ~(0 > 0)
        OBVIOUS
      <3> QED
        BY <3>1, Zenon DEF S!Digits
    <2>2. n = 0 => (IF n < 0 THEN S!Negate(n) ELSE n) = 0
      OBVIOUS
    <2>3. half \in Int
      BY SignIsHalf
    <2> QED
      BY <2>1, <2>2, <2>3
  <1> HIDE DEF longer, signed, half
  <1>3. /\ n = 0 => S!Bytes(n) = <<>>
        /\ n # 0 /\ d # <<>> /\ last >= half => S!Bytes(n) = longer
        /\ n # 0 /\ d # <<>> /\ last < half => S!Bytes(n) = signed
    BY <1>1, <1>2
  <1> QED
    BY <1>3 DEF longer, signed, half

\* A script number is read as it was pushed, and in no more bytes than it needs.
LEMMA ReadOwnScriptNumber ==
    ASSUME NEW n \in Int, n # -S!Half(Width)
    PROVE  /\ S!Bytes(n) \in Seq(Byte)
           /\ S!Minimal(S!Bytes(n))
           /\ S!Decode(S!Bytes(n)) = n
  <1> DEFINE m == IF n < 0 THEN -n ELSE n
             d == S!Digits(m)
             k == Len(d)
             sign == IF n < 0 THEN S!SignBit ELSE 0
             half == S!SignBit
  <1>1. d = S!Digits(IF n < 0 THEN S!Negate(n) ELSE n)
    BY DEF S!Negate
  <1>2. half \in Nat \ {0} /\ Base = 2 * half
    BY SignIsHalf
  <1>3. CASE n = 0
    <2>1. d = <<>>
      BY <1>3 DEF S!Digits
    <2>2. S!Bytes(n) = <<>>
      BY <1>1, <1>2, <1>3, <2>1 DEF S!Bytes
    <2>3. S!Decode(<<>>) = 0
      BY DEF S!Decode
    <2> QED
      BY <1>3, <2>2, <2>3, EmptySeq DEF S!Minimal
  <1>4. CASE n # 0
    <2>1. m \in Nat \ {0}
      BY <1>4
    <2>2. IsMagnitude(d, m) /\ d # <<>>
      BY <2>1, DigitsOfNumber
    <2>3. d \in Seq(Byte) /\ d[k] # 0 /\ k \in Nat \ {0}
      BY <2>2, EmptySeq DEF IsMagnitude
    <2>4. \A i \in 1 .. k : d[i] \in Byte
      BY <2>3, ElementOfSeq
    <2>5. d[k] \in 1 .. Base - 1
      BY <2>3, <2>4 DEF Byte
    <2>6. /\ d[k] >= half => S!Bytes(n) = Append(d, sign)
          /\ d[k] < half => S!Bytes(n) = [d EXCEPT ![Len(d)] = @ + sign]
      <3>1. d[k] \in Int
        BY <2>5
      <3> QED
        BY <1>1, <1>4, <2>2, <3>1, BytesOfNumber
    <2>7. PICK q : Adds(q, d, m)
      BY <2>2 DEF IsMagnitude
    <2>8. sign \in Byte /\ (n < 0 => sign = half /\ -m = n) /\ (~(n < 0) => sign = 0 /\ m = n)
      BY <1>2 DEF Byte
    <2> HIDE DEF d, sign, half, m
    <2>9. /\ q \in [1 .. k + 1 -> Nat] /\ q[1] = m /\ q[k + 1] = 0
          /\ \A i \in 1 .. k : q[i] = d[i] + Base * q[i + 1]
      BY <2>7 DEF Adds
    <2>10. CASE d[k] >= half
      <3> DEFINE b == Append(d, sign)
      <3>1. /\ b \in Seq(Byte) /\ Len(b) = k + 1 /\ b[k + 1] = sign
            /\ \A i \in 1 .. k : b[i] = d[i]
        BY <2>3, <2>8, AppendProperties
      <3> HIDE DEF b
      <3> DEFINE p == [i \in 1 .. (k + 1) + 1 |-> IF i <= k THEN q[i] ELSE 0]
      <3>2. p \in [1 .. (k + 1) + 1 -> Nat] /\ p[1] = m /\ p[(k + 1) + 1] = 0
        BY <2>3, <2>9
      <3>3. sign % half = 0
        <4>1. 0 % half = 0 /\ half % half = 0
          BY <1>2
        <4> QED
          BY <2>8, <4>1
      <3>4. ASSUME NEW i \in 1 .. k + 1
            PROVE  p[i] = (IF i = k + 1 THEN b[i] % half ELSE b[i]) + Base * p[i + 1]
        <4>1. CASE i = k + 1
          <5>1. p[i] = 0 /\ p[i + 1] = 0 /\ b[i] % half = 0
            BY <2>3, <3>1, <3>3, <4>1
          <5> QED
            BY <4>1, <5>1, Sizes
        <4>2. CASE i \in 1 .. k
          <5>1. p[i + 1] = q[i + 1]
            BY <2>9, <4>2
          <5>2. p[i] = q[i] /\ i # k + 1 /\ b[i] = d[i]
            BY <3>1, <4>2
          <5> QED
            BY <2>9, <4>2, <5>1, <5>2
        <4> QED
          BY <4>1, <4>2
      <3> HIDE DEF p
      <3>5. /\ b[k + 1] >= half => S!Decode(b) = -m
            /\ b[k + 1] < half => S!Decode(b) = m
        <4>1. k + 1 \in Nat \ {0}
          BY <2>3
        <4> QED
          BY <3>1, <3>2, <3>4, <4>1, DecodedNumber DEF half
      <3>6. S!Decode(b) = n
        BY <1>2, <2>8, <3>1, <3>5
      <3>7. S!Minimal(b)
        <4>1. Len(b) > 1 /\ b[Len(b) - 1] >= half
          BY <2>3, <2>10, <3>1
        <4> QED
          BY <4>1 DEF S!Minimal, half
      <3> QED
        BY <2>6, <2>10, <3>1, <3>6, <3>7 DEF b
    <2>11. CASE d[k] < half
      <3> DEFINE top == d[k] + sign
                 b == [d EXCEPT ![Len(d)] = @ + sign]
      <3>1. top \in Byte /\ top % half = d[k] /\ (n < 0 <=> top >= half)
        <4>1. d[k] \in 0 .. half - 1
          BY <1>2, <2>5, <2>11
        <4>2. /\ (d[k] + half * 0) % half = d[k]
              /\ (d[k] + half * 1) % half = d[k]
          BY <1>2, <4>1, DivModOf
        <4>3. d[k] + half * 0 = d[k] /\ d[k] + half * 1 = d[k] + half
          BY <1>2, <4>1
        <4>4. CASE n < 0
          <5>1. top = d[k] + half
            BY <2>8, <4>4
          <5>2. top % half = d[k]
            BY <4>2, <4>3, <5>1
          <5>3. top \in 0 .. Base - 1 /\ top >= half
            BY <1>2, <4>1, <5>1
          <5> QED
            BY <4>4, <5>2, <5>3 DEF Byte
        <4>5. CASE ~(n < 0)
          <5>1. top = d[k]
            BY <2>8, <4>1, <4>5
          <5>2. top % half = d[k]
            BY <4>2, <4>3, <5>1
          <5>3. top \in 0 .. Base - 1 /\ ~(top >= half)
            BY <1>2, <4>1, <5>1
          <5> QED
            BY <4>5, <5>2, <5>3 DEF Byte
        <4> QED
          BY <4>4, <4>5
      <3>2. /\ b \in Seq(Byte) /\ Len(b) = k /\ b[k] = top
            /\ \A i \in 1 .. k : i # k => b[i] = d[i]
        <4>1. d \in [1 .. k -> Byte]
          BY <2>3, LenProperties
        <4>2. k \in 1 .. k
          BY <2>3
        <4>3. b = [i \in 1 .. k |-> IF i = k THEN top ELSE d[i]]
          BY <4>1, <4>2
        <4> HIDE DEF b, top
        <4>4. b \in [1 .. k -> Byte] /\ b[k] = top /\ \A i \in 1 .. k : i # k => b[i] = d[i]
          BY <3>1, <4>1, <4>2, <4>3
        <4>5. b \in Seq(Byte) /\ Len(b) = k
          <5>1. PICK l \in Nat : l = k
            BY <2>3
          <5> QED
            BY <4>4, <5>1
        <4> QED
          BY <4>4, <4>5
      <3> HIDE DEF b, top
      <3>3. ASSUME NEW i \in 1 .. k
            PROVE  q[i] = (IF i = k THEN b[i] % half ELSE b[i]) + Base * q[i + 1]
        <4>1. (IF i = k THEN b[i] % half ELSE b[i]) = d[i]
          BY <3>1, <3>2
        <4> QED
          BY <2>9, <4>1
      <3>4. /\ b[k] >= half => S!Decode(b) = -m
            /\ b[k] < half => S!Decode(b) = m
        BY <2>3, <2>9, <3>2, <3>3, DecodedNumber DEF half
      <3>5. S!Decode(b) = n
        <4>1. b[k] \in Int
          BY <3>1, <3>2 DEF Byte
        <4> QED
          BY <1>2, <2>8, <3>1, <3>2, <3>4, <4>1
      <3>6. S!Minimal(b)
        BY <2>3, <3>1, <3>2 DEF S!Minimal, half
      <3> QED
        BY <2>6, <2>11, <3>2, <3>5, <3>6 DEF b
    <2>12. d[k] >= half \/ d[k] < half
      BY <1>2, <2>5
    <2> QED
      BY <2>10, <2>11, <2>12
  <1> QED
    BY <1>3, <1>4

-----------------------------------------------------------------------------
(* A buffer from its first item to its last read.                          *)

PartsOf(items) == [i \in 1 .. Len(items) |-> Encode(items[i])]

\* What arrived, and z that did not, are the items that are due.
IsDue(items, buffer, n) ==
    \E left, z : /\ LeftAfter(left, PartsOf(items), Len(items))
                 /\ z \in Seq(Byte)
                 /\ buffer \o z = left[n]
                 /\ whole <=> z = <<>>

\* What holds while items are written.
Writing ==
    /\ whole
    /\ got = <<>>
    /\ written \in Seq(Items)
    /\ \E left : LeftAfter(left, PartsOf(written), Len(written)) /\ left[0] = bytes

\* What holds while items are read: the buffer holds what is due, or a slice took what
\* was left of it, or it is a number of a script.
Reading ==
    /\ Len(got) < Len(written)
    /\ \/ /\ written \in Seq(Items)
          /\ \A i \in DOMAIN got : got[i] = written[i]
          /\ IsDue(written, bytes, Len(got))
       \/ written \in Seq(Items) /\ ~whole /\ bytes = <<>>
       \/ /\ got = <<>> /\ whole
          /\ \E n \in ScriptNums : written = <<NumberItem("scriptnum", n)>> /\ bytes = S!Bytes(n)

CodecInv ==
    /\ phase \in {"write", "read", "failed", "done"}
    /\ bytes \in Seq(Byte)
    /\ \E Kinds : got \in Seq(Kinds)
    /\ \/ written \in Seq(Items)
       \/ \E n \in ScriptNums : written = <<NumberItem("scriptnum", n)>>
    /\ ReadAsWritten
    /\ phase = "write" => Writing
    /\ phase = "read" => Reading
    /\ phase = "failed" => ~whole
    /\ phase = "done" =>
          \/ written = <<>>
          \/ Len(got) = Len(written) /\ (whole => bytes = <<>>)

\* Before anything is written.
LEMMA CodecInit == Init => CodecInv
  <1> SUFFICES ASSUME Init PROVE CodecInv
    OBVIOUS
  <1>1. /\ phase = "write" /\ bytes = <<>> /\ whole = TRUE /\ written = <<>> /\ got = <<>>
    BY DEF Init
  <1>2. <<>> \in Seq(Byte) /\ <<>> \in Seq(Items) /\ Len(<<>>) = 0
    BY EmptySeq
  <1> DEFINE left == [i \in 0 .. 0 |-> <<>>]
  <1>3. LeftAfter(left, PartsOf(<<>>), 0) /\ left[0] = <<>>
    BY NoPart
  <1>4. Writing
    BY <1>1, <1>2, <1>3 DEF Writing
  <1>5. ReadAsWritten
    BY <1>1 DEF ReadAsWritten
  <1> QED
    BY <1>1, <1>2, <1>4, <1>5 DEF CodecInv

\* An item more is a part more.
LEMMA WriteMore ==
    ASSUME NEW items \in Seq(Items), NEW item \in Items, NEW buffer, NEW left,
           LeftAfter(left, PartsOf(items), Len(items)), left[0] = buffer
    PROVE  /\ Append(items, item) \in Seq(Items)
           /\ Encode(item) \in Seq(Byte)
           /\ \E after : /\ LeftAfter(after, PartsOf(Append(items, item)), Len(Append(items, item)))
                         /\ after[0] = buffer \o Encode(item)
  <1> DEFINE longer == Append(items, item)
             n == Len(items)
             parts == PartsOf(items)
             more == PartsOf(longer)
  <1>1. /\ longer \in Seq(Items) /\ Len(longer) = n + 1 /\ n \in Nat
        /\ \A i \in 1 .. n : longer[i] = items[i]
        /\ longer[n + 1] = item
    BY AppendProperties, LenProperties
  <1>2. Encode(item) \in Seq(Byte)
    BY ItemsAssumption, ItemsAreFramed DEF IsFramed
  <1> HIDE DEF longer
  <1>3. (\A i \in 1 .. n : more[i] = parts[i]) /\ more[n + 1] = Encode(item)
    BY <1>1 DEF PartsOf
  <1> HIDE DEF parts, more
  <1>4. \E after : LeftAfter(after, more, n + 1) /\ after[0] = left[0] \o more[n + 1]
    BY <1>1, <1>2, <1>3, OnePartMore DEF parts
  <1> QED
    BY <1>1, <1>2, <1>3, <1>4 DEF more, longer

\* An item more is written: what is left after each item is longer by it.
LEMMA CodecWrite ==
    ASSUME CodecInv, NEW item \in Items, Write(item)
    PROVE  CodecInv'
  <1>1. /\ phase = "write" /\ phase' = phase /\ whole' = whole /\ got' = got
        /\ bytes' = bytes \o Encode(item) /\ written' = Append(written, item)
    BY DEF Write
  <1>2. whole /\ got = <<>> /\ written \in Seq(Items) /\ bytes \in Seq(Byte)
    BY <1>1 DEF CodecInv, Writing
  <1>3. PICK left : LeftAfter(left, PartsOf(written), Len(written)) /\ left[0] = bytes
    BY <1>1 DEF CodecInv, Writing
  <1>4. PICK items \in Seq(Items), buffer \in Seq(Byte) : items = written /\ buffer = bytes
    BY <1>2
  <1>5. /\ Append(items, item) \in Seq(Items)
        /\ Encode(item) \in Seq(Byte)
        /\ \E after : /\ LeftAfter(after, PartsOf(Append(items, item)), Len(Append(items, item)))
                      /\ after[0] = buffer \o Encode(item)
    BY <1>3, <1>4, WriteMore
  <1>6. bytes' \in Seq(Byte)
    BY <1>1, <1>4, <1>5, Concat
  <1>7. Writing'
    BY <1>1, <1>2, <1>4, <1>5 DEF Writing
  <1>8. ReadAsWritten'
    BY <1>1, <1>2 DEF ReadAsWritten
  <1>9. \E Kinds : got' \in Seq(Kinds)
    BY <1>1 DEF CodecInv
  <1>10. written' \in Seq(Items)
    BY <1>1, <1>4, <1>5
  <1> QED
    BY <1>1, <1>6, <1>7, <1>8, <1>9, <1>10 DEF CodecInv

\* A script number is written, alone.
LEMMA CodecPushNumber ==
    ASSUME CodecInv, NEW n \in ScriptNums, PushNumber(n)
    PROVE  CodecInv'
  <1>1. /\ phase = "write" /\ phase' = "read" /\ whole' = whole /\ got' = got
        /\ bytes' = S!Bytes(n) /\ written' = <<NumberItem("scriptnum", n)>>
    BY DEF PushNumber
  <1>2. whole /\ got = <<>>
    BY <1>1 DEF CodecInv, Writing
  <1>3. bytes' \in Seq(Byte)
    BY <1>1, NumbersAssumption, ReadOwnScriptNumber
  <1>4. Reading'
    <2>1. Len(got') < Len(written')
      BY <1>1, <1>2
    <2> QED
      BY <1>1, <1>2, <2>1 DEF Reading
  <1>5. ReadAsWritten'
    BY <1>1, <1>2 DEF ReadAsWritten
  <1>6. \E Kinds : got' \in Seq(Kinds)
    BY <1>1 DEF CodecInv
  <1> QED
    BY <1>1, <1>3, <1>4, <1>5, <1>6 DEF CodecInv

\* What does not arrive is the end of what was written.
LEMMA CodecCarry ==
    ASSUME CodecInv, Carry
    PROVE  CodecInv'
  <1>1. /\ phase = "write" /\ phase' = "read" /\ written' = written /\ got' = got
        /\ written # <<>>
    BY DEF Carry
  <1>2. PICK n \in 0 .. Len(bytes) : bytes' = SubSeq(bytes, 1, n) /\ whole' = (n = Len(bytes))
    BY DEF Carry
  <1>3. whole /\ got = <<>> /\ written \in Seq(Items) /\ bytes \in Seq(Byte)
    BY <1>1 DEF CodecInv, Writing
  <1>4. PICK left : LeftAfter(left, PartsOf(written), Len(written)) /\ left[0] = bytes
    BY <1>1 DEF CodecInv, Writing
  <1>5. PICK b \in Seq(Byte) : b = bytes
    BY <1>3
  <1> DEFINE h == SubSeq(b, 1, n)
             z == After(n, b)
  <1>6. /\ h \in Seq(Byte) /\ z \in Seq(Byte) /\ Len(z) = Len(b) - n
        /\ b = h \o z
    BY <1>2, <1>5, AfterSplits
  <1>7. bytes' = h
    BY <1>2, <1>5
  <1> HIDE DEF h, z
  <1>8. whole' <=> z = <<>>
    <2>1. Len(b) \in Nat
      BY LenProperties
    <2>2. n = Len(b) <=> z = <<>>
      BY <1>2, <1>5, <1>6, <2>1, EmptySeq
    <2>3. whole' = (n = Len(b))
      BY <1>2, <1>5
    <2> QED
      BY <2>2, <2>3, Zenon
  <1>9. IsDue(written, bytes, Len(got))'
    <2>1. Len(got') = 0
      BY <1>1, <1>3, EmptySeq
    <2>2. LeftAfter(left, PartsOf(written'), Len(written'))
      BY <1>1, <1>4
    <2>3. bytes' \o z = left[Len(got')]
      BY <1>4, <1>5, <1>6, <1>7, <2>1
    <2>4. PICK y \in Seq(Byte) : y = z
      BY <1>6
    <2>5. bytes' \o y = left[Len(got')] /\ (whole' <=> y = <<>>)
      BY <1>8, <2>3, <2>4, Zenon
    <2>6. \E l : /\ LeftAfter(l, PartsOf(written'), Len(written'))
                 /\ \E r \in Seq(Byte) : /\ bytes' \o r = l[Len(got')]
                                         /\ whole' <=> r = <<>>
      BY <2>2, <2>4, <2>5, Zenon
    <2> QED
      BY <2>6 DEF IsDue
  <1>10. Len(got') < Len(written')
    BY <1>1, <1>3, EmptySeq
  <1>11. Reading'
    <2>1. \A i \in DOMAIN got' : got'[i] = written'[i]
      BY <1>1, <1>3
    <2>2. written' \in Seq(Items)
      BY <1>1, <1>3
    <2> QED
      BY <1>9, <1>10, <2>1, <2>2 DEF Reading
  <1>12. ReadAsWritten'
    BY <1>1, <1>3 DEF ReadAsWritten
  <1>13. \E Kinds : got' \in Seq(Kinds)
    BY <1>1 DEF CodecInv
  <1> QED
    BY <1>1, <1>3, <1>6, <1>7, <1>11, <1>12, <1>13 DEF CodecInv

\* A foreign buffer: nothing was written, and nothing is read.
LEMMA CodecReceive ==
    ASSUME CodecInv, NEW buffer \in Foreign, Receive(buffer)
    PROVE  CodecInv'
  <1>1. /\ phase = "write" /\ phase' = "done" /\ whole' = whole /\ got' = got
        /\ bytes' = buffer /\ written' = written /\ written = <<>>
    BY DEF Receive
  <1>2. got = <<>>
    BY <1>1 DEF CodecInv, Writing
  <1>3. bytes' \in Seq(Byte)
    BY <1>1, ForeignAssumption
  <1>4. ReadAsWritten'
    BY <1>1, <1>2 DEF ReadAsWritten
  <1>5. \E Kinds : got' \in Seq(Kinds)
    BY <1>1 DEF CodecInv
  <1>6. written' \in Seq(Items)
    BY <1>1, EmptySeq
  <1> QED
    BY <1>1, <1>3, <1>4, <1>5, <1>6 DEF CodecInv

\* Items of different kinds make a sequence all the same.
LEMMA OneItemMore ==
    ASSUME NEW Kinds, NEW s \in Seq(Kinds), NEW x
    PROVE  /\ \E More : Append(s, x) \in Seq(More)
           /\ Len(s) \in Nat /\ Len(Append(s, x)) = Len(s) + 1
           /\ DOMAIN s = 1 .. Len(s) /\ DOMAIN Append(s, x) = 1 .. Len(s) + 1
           /\ \A i \in 1 .. Len(s) : Append(s, x)[i] = s[i]
           /\ Append(s, x)[Len(s) + 1] = x
  <1> DEFINE More == Kinds \cup {x}
  <1>1. s \in Seq(More) /\ x \in More
    OBVIOUS
  <1>2. /\ Append(s, x) \in Seq(More) /\ Len(Append(s, x)) = Len(s) + 1
        /\ \A i \in 1 .. Len(s) : Append(s, x)[i] = s[i]
        /\ Append(s, x)[Len(s) + 1] = x
    BY <1>1, AppendProperties
  <1>3. /\ Len(s) \in Nat /\ DOMAIN s = 1 .. Len(s)
        /\ DOMAIN Append(s, x) = 1 .. Len(Append(s, x))
    BY <1>1, <1>2, LenProperties
  <1> QED
    BY <1>2, <1>3

\* What a script number is written and read as.
LEMMA ItemsHaveTypes ==
    ASSUME NEW n
    PROVE  /\ NumberItem("scriptnum", n).type = "scriptnum"
           /\ NumberItem("scriptnum", n).number = n
           /\ ItemOf(NumberItem("scriptnum", n), n) = NumberItem("scriptnum", n)
           /\ \A buffer : Decode(NumberItem("scriptnum", n), buffer) =
                             IF S!Minimal(buffer) THEN Success(S!Decode(buffer), <<>>) ELSE Failure
  BY DEF NumberItem, ItemOf, Decode

\* What Read does, whatever is read: the rest is to be shown for each kind of buffer.
LEMMA CodecRead ==
    ASSUME CodecInv, Read
    PROVE  CodecInv'
  <1> DEFINE k == Len(got)
             due == written[k + 1]
             d == Decode(due, bytes)
             x == ItemOf(due, d.value)
  <1>1. phase = "read" /\ whole' = whole /\ written' = written
    BY DEF Read
  <1>2. d.ok => /\ got' = Append(got, x) /\ bytes' = d.rest
                /\ phase' = IF Len(got') = Len(written) THEN "done" ELSE "read"
    BY DEF Read
  <1>3. ~d.ok => phase' = "failed" /\ got' = got /\ bytes' = bytes
    BY DEF Read
  <1>4. /\ bytes \in Seq(Byte) /\ ReadAsWritten /\ Reading /\ k < Len(written)
        /\ \/ written \in Seq(Items)
           \/ \E n \in ScriptNums : written = <<NumberItem("scriptnum", n)>>
    BY <1>1 DEF CodecInv, Reading
  <1>5. PICK Kinds : got \in Seq(Kinds)
    BY DEF CodecInv
  <1> HIDE DEF d, x, due
  <1>6. /\ k \in Nat /\ DOMAIN got = 1 .. k /\ Len(written) \in Nat
    <2>1. Len(written) \in Nat
      <3>1. CASE written \in Seq(Items)
        BY <3>1, LenProperties
      <3>2. CASE \E n \in ScriptNums : written = <<NumberItem("scriptnum", n)>>
        BY <3>2
      <3> QED
        BY <1>4, <3>1, <3>2
    <2>2. PICK s \in Seq(Kinds) : s = got
      BY <1>5
    <2> QED
      BY <2>1, <2>2, LenProperties
  <1>7. ASSUME d.ok
        PROVE  /\ \E More : got' \in Seq(More)
               /\ Len(got') = k + 1 /\ DOMAIN got' = 1 .. k + 1
               /\ \A i \in 1 .. k : got'[i] = got[i]
               /\ got'[k + 1] = x
    <2>1. PICK s \in Seq(Kinds) : s = got
      BY <1>5
    <2>2. PICK y : y = x
      OBVIOUS
    <2>3. /\ \E More : Append(s, y) \in Seq(More)
          /\ Len(s) \in Nat /\ Len(Append(s, y)) = Len(s) + 1
          /\ DOMAIN s = 1 .. Len(s) /\ DOMAIN Append(s, y) = 1 .. Len(s) + 1
          /\ \A i \in 1 .. Len(s) : Append(s, y)[i] = s[i]
          /\ Append(s, y)[Len(s) + 1] = y
      BY OneItemMore
    <2>4. got' = Append(s, y) /\ k = Len(s)
      BY <1>2, <1>7, <2>1, <2>2
    <2> HIDE DEF k
    <2>5. \E More : got' \in Seq(More)
      BY <2>3, <2>4, Zenon
    <2>6. \A i \in 1 .. k : got'[i] = got[i]
      BY <2>1, <2>3, <2>4, Zenon
    <2>7. Len(got') = k + 1 /\ DOMAIN got' = 1 .. k + 1 /\ got'[k + 1] = x
      BY <2>2, <2>3, <2>4, Zenon
    <2> QED
      BY <2>5, <2>6, <2>7
  <1>8. ASSUME d.ok, d.rest \in Seq(Byte), ReadAsWritten',
               k + 1 < Len(written) => Reading',
               k + 1 = Len(written) /\ whole => d.rest = <<>>
        PROVE  CodecInv'
    <2>1. bytes' \in Seq(Byte) /\ \E More : got' \in Seq(More)
      BY <1>2, <1>7, <1>8
    <2>2. \/ written' \in Seq(Items)
          \/ \E n \in ScriptNums : written' = <<NumberItem("scriptnum", n)>>
      BY <1>1, <1>4
    <2>3. CASE k + 1 = Len(written)
      <3>1. phase' = "done" /\ Len(got') = Len(written') /\ (whole' => bytes' = <<>>)
        BY <1>1, <1>2, <1>7, <1>8, <2>3
      <3> QED
        BY <1>8, <2>1, <2>2, <3>1 DEF CodecInv
    <2>4. CASE k + 1 < Len(written)
      <3>1. phase' = "read"
        BY <1>1, <1>2, <1>6, <1>7, <1>8, <2>4
      <3> QED
        BY <1>8, <2>1, <2>2, <2>4, <3>1 DEF CodecInv
    <2> QED
      BY <1>4, <1>6, <2>3, <2>4
  <1>9. ASSUME ~d.ok, ~whole PROVE CodecInv'
    <2>1. ReadAsWritten'
      BY <1>1, <1>3, <1>4, <1>9 DEF ReadAsWritten
    <2>2. \E More : got' \in Seq(More)
      BY <1>3, <1>5, <1>9
    <2> QED
      BY <1>1, <1>3, <1>4, <1>9, <2>1, <2>2 DEF CodecInv
  <1>10. ASSUME d.ok, x = due, \A i \in DOMAIN got : got[i] = written[i]
         PROVE  ReadAsWritten' /\ \A i \in DOMAIN got' : got'[i] = written'[i]
    <2>1. ASSUME NEW i \in 1 .. k + 1 PROVE got'[i] = written'[i]
      <3>1. CASE i \in 1 .. k
        BY <1>1, <1>6, <1>7, <1>10, <3>1
      <3>2. CASE i = k + 1
        BY <1>1, <1>7, <1>10, <3>2 DEF due
      <3> QED
        BY <1>6, <3>1, <3>2
    <2>2. \A i \in DOMAIN got' : got'[i] = written'[i]
      BY <1>7, <1>10, <2>1
    <2> QED
      BY <2>2 DEF ReadAsWritten
  <1>11. CASE /\ written \in Seq(Items)
              /\ \A i \in DOMAIN got : got[i] = written[i]
              /\ IsDue(written, bytes, k)
    <2>1. PICK left, z : /\ LeftAfter(left, PartsOf(written), Len(written))
                         /\ z \in Seq(Byte)
                         /\ bytes \o z = left[k]
                         /\ whole <=> z = <<>>
      BY <1>11 DEF IsDue
    <2>2. due \in Items
      BY <1>4, <1>6, <1>11, ElementOfSeq DEF due
    <2> DEFINE e == Encode(due)
    <2>3. IsFramed(due)
      BY <2>2, ItemsAssumption, ItemsAreFramed
    <2>4. /\ e \in Seq(Byte) /\ left[k + 1] \in Seq(Byte) /\ left[k] = e \o left[k + 1]
          /\ left[Len(written)] = <<>>
      <3>1. k + 1 \in 1 .. Len(written) /\ (k + 1) - 1 = k /\ k + 1 \in 0 .. Len(written)
        BY <1>4, <1>6
      <3>2. PartsOf(written)[k + 1] = e
        BY <3>1 DEF PartsOf, due
      <3> QED
        BY <2>1, <3>1, <3>2 DEF LeftAfter
    <2> HIDE DEF e
    <2>5. PICK b \in Seq(Byte) : b = bytes
      BY <1>4
    \* All of the item is there.
    <2>6. ASSUME NEW q \in Seq(Byte), bytes = e \o q, q \o z = left[k + 1]
          PROVE  CodecInv'
      <3>1. d.ok /\ x = due /\ d.rest = q
        BY <2>3, <2>6 DEF IsFramed, d, x, e
      <3>2. ReadAsWritten' /\ \A i \in DOMAIN got' : got'[i] = written'[i]
        BY <1>10, <1>11, <3>1
      <3>3. IsDue(written, bytes, Len(got))'
        <4>1. bytes' \o z = left[Len(got')]
          BY <1>2, <1>7, <2>6, <3>1
        <4>2. LeftAfter(left, PartsOf(written'), Len(written')) /\ (whole' <=> z = <<>>)
          BY <1>1, <2>1
        <4> QED
          BY <2>1, <4>1, <4>2, Zenon DEF IsDue
      <3>4. k + 1 < Len(written) => Reading'
        <4> SUFFICES ASSUME k + 1 < Len(written) PROVE Reading'
          OBVIOUS
        <4>1. Len(got') < Len(written') /\ written' \in Seq(Items)
          BY <1>1, <1>7, <1>11, <3>1
        <4> QED
          BY <3>2, <3>3, <4>1 DEF Reading
      <3>5. k + 1 = Len(written) /\ whole => d.rest = <<>>
        <4> SUFFICES ASSUME k + 1 = Len(written), whole PROVE q = <<>>
          BY <3>1
        <4>1. z = <<>> /\ q \o z = <<>>
          BY <2>1, <2>4, <2>6
        <4> QED
          BY <4>1, ConcatEmptySeq
      <3> QED
        BY <1>8, <3>1, <3>2, <3>4, <3>5
    <2>7. CASE whole
      <3>1. z = <<>>
        BY <2>1, <2>7
      <3>2. bytes \o z = bytes /\ left[k + 1] \o z = left[k + 1]
        BY <2>4, <2>5, <3>1, ConcatEmptySeq
      <3> QED
        BY <2>1, <2>4, <2>6, <3>2
    <2>8. CASE ~whole
      <3>1. z # <<>>
        BY <2>1, <2>8
      <3>2. CutWithin(b, z, e, left[k + 1])
        <4>1. b \o z = e \o left[k + 1]
          BY <2>1, <2>4, <2>5
        <4> QED
          BY <2>1, <2>4, <4>1, CutAnywhere
      <3>3. CASE \E y \in Seq(Byte) : y # <<>> /\ b \o y = e
        <4>1. Ends(d) /\ (d.ok => "number" \notin DOMAIN due)
          BY <2>3, <2>5, <3>3 DEF IsFramed, d, e
        <4>2. CASE ~d.ok
          BY <1>9, <2>8, <4>2
        <4>3. CASE d.ok
          <5>1. d.rest = <<>> /\ "number" \notin DOMAIN due
            BY <4>1, <4>3 DEF Ends
          <5>2. ReadAsWritten'
            <6>1. ASSUME NEW i \in 1 .. k PROVE got'[i] = written'[i]
              BY <1>1, <1>6, <1>7, <1>11, <4>3
            <6>2. "number" \notin DOMAIN written'[k + 1] /\ ~whole'
              BY <1>1, <2>8, <5>1 DEF due
            <6>3. (k + 1) + 1 .. Len(got') = {}
              BY <1>6, <1>7, <4>3
            <6>4. DOMAIN got' = 1 .. k + 1 /\ \A i \in 1 .. k + 1 : i \in 1 .. k \/ i = k + 1
              BY <1>6, <1>7, <4>3
            <6> QED
              BY <6>1, <6>2, <6>3, <6>4 DEF ReadAsWritten
          <5>3. k + 1 < Len(written) => Reading'
            BY <1>1, <1>2, <1>7, <1>11, <2>8, <4>3, <5>1 DEF Reading
          <5>4. d.rest \in Seq(Byte)
            BY <5>1, EmptySeq
          <5> QED
            BY <1>8, <2>8, <4>3, <5>2, <5>3, <5>4
        <4> QED
          BY <4>2, <4>3
      <3>4. CASE \E q \in Seq(Byte) : b = e \o q /\ q \o z = left[k + 1]
        BY <2>5, <2>6, <3>4
      <3> QED
        BY <3>2, <3>3, <3>4 DEF CutWithin
    <2> QED
      BY <2>7, <2>8
  <1>12. CASE written \in Seq(Items) /\ ~whole /\ bytes = <<>>
    <2>1. CASE ~d.ok
      BY <1>9, <1>12, <2>1
    <2>2. CASE d.ok
      <3>1. due \in Items
        BY <1>4, <1>6, <1>12, ElementOfSeq DEF due
      <3>2. due = BytesItem("slice", <<>>) /\ x = due /\ d.rest = <<>>
        <4>1. PICK item \in Items : item = due
          BY <3>1
        <4>2. IsItem(item) /\ Decode(item, <<>>).ok
          BY <1>12, <2>2, <4>1, ItemsAssumption DEF d
        <4> QED
          BY <1>12, <4>1, <4>2, NothingLeft DEF d, x
      <3>3. ReadAsWritten'
        <4>1. ASSUME NEW i \in 1 .. k
              PROVE  \/ got'[i] = written'[i]
                     \/ /\ ~whole'
                        /\ "number" \notin DOMAIN written'[i]
                        /\ \A j \in i + 1 .. Len(got') : got'[j] = BytesItem("slice", <<>>)
          <5>1. got'[i] = got[i]
            BY <1>7, <2>2
          <5>2. CASE got[i] = written[i]
            BY <1>1, <5>1, <5>2
          <5>3. CASE /\ ~whole
                     /\ "number" \notin DOMAIN written[i]
                     /\ \A j \in i + 1 .. Len(got) : got[j] = BytesItem("slice", <<>>)
            <6>1. ASSUME NEW j \in i + 1 .. k + 1 PROVE got'[j] = BytesItem("slice", <<>>)
              <7>1. CASE j = k + 1
                BY <1>7, <2>2, <3>2, <7>1
              <7>2. CASE j # k + 1
                <8>1. j \in i + 1 .. k /\ j \in 1 .. k
                  BY <1>6, <7>2
                <8> QED
                  BY <1>7, <2>2, <5>3, <8>1
              <7> QED
                BY <7>1, <7>2
            <6>2. Len(got') = k + 1
              BY <1>7, <2>2
            <6> QED
              BY <1>1, <5>3, <6>1, <6>2
          <5> QED
            BY <1>4, <1>6, <5>2, <5>3 DEF ReadAsWritten
        <4>2. got'[k + 1] = written'[k + 1]
          BY <1>1, <1>7, <2>2, <3>2 DEF due
        <4>3. DOMAIN got' = 1 .. k + 1 /\ \A i \in 1 .. k + 1 : i \in 1 .. k \/ i = k + 1
          BY <1>6, <1>7, <2>2
        <4> QED
          BY <4>1, <4>2, <4>3 DEF ReadAsWritten
      <3>4. k + 1 < Len(written) => Reading'
        BY <1>1, <1>2, <1>7, <1>12, <2>2, <3>2 DEF Reading
      <3>5. d.rest \in Seq(Byte)
        BY <3>2, EmptySeq
      <3> QED
        BY <1>8, <1>12, <2>2, <3>3, <3>4, <3>5
    <2> QED
      BY <2>1, <2>2
  <1>13. CASE /\ got = <<>> /\ whole
              /\ \E n \in ScriptNums :
                    written = <<NumberItem("scriptnum", n)>> /\ bytes = S!Bytes(n)
    <2>1. PICK n \in ScriptNums : written = <<NumberItem("scriptnum", n)>> /\ bytes = S!Bytes(n)
      BY <1>13
    <2>2. k = 0 /\ Len(written) = 1 /\ due = NumberItem("scriptnum", n)
      BY <1>13, <2>1, EmptySeq DEF due
    <2>3. S!Minimal(bytes) /\ S!Decode(bytes) = n
      BY <2>1, NumbersAssumption, ReadOwnScriptNumber
    <2>4. d = Success(n, <<>>)
      BY <2>2, <2>3, ItemsHaveTypes DEF d
    <2>5. d.ok /\ d.rest = <<>> /\ x = due
      BY <2>2, <2>4, ReadResults, ItemsHaveTypes DEF x
    <2>6. ReadAsWritten'
      <3>1. \A i \in DOMAIN got : got[i] = written[i]
        BY <1>6, <2>2
      <3> QED
        BY <1>10, <2>5, <3>1
    <2> QED
      BY <1>8, <2>2, <2>5, <2>6, EmptySeq
  <1> QED
    BY <1>4, <1>11, <1>12, <1>13 DEF Reading

\* Every action keeps the invariant.
LEMMA CodecStep == CodecInv /\ [Next]_vars => CodecInv'
  <1> SUFFICES ASSUME CodecInv, [Next]_vars PROVE CodecInv'
    OBVIOUS
  <1>1. ASSUME NEW item \in Items, Write(item) PROVE CodecInv'
    BY <1>1, CodecWrite
  <1>2. ASSUME NEW n \in ScriptNums, PushNumber(n) PROVE CodecInv'
    BY <1>2, CodecPushNumber
  <1>3. ASSUME NEW buffer \in Foreign, Receive(buffer) PROVE CodecInv'
    BY <1>3, CodecReceive
  <1>4. CASE Carry
    BY <1>4, CodecCarry
  <1>5. CASE Read
    BY <1>5, CodecRead
  <1>6. CASE UNCHANGED vars
    BY <1>6 DEF vars, CodecInv, ReadAsWritten, Writing, Reading, IsDue
  <1> QED
    BY <1>1, <1>2, <1>3, <1>4, <1>5, <1>6 DEF Next

\* The invariant: what arrived is what was written from the first item that is due on,
\* except for an end that is lost.
THEOREM CodecInvariant == Spec => []CodecInv
  BY CodecInit, CodecStep, PTL DEF Spec

\* What was written is what is read, at every width and length, from whatever part of
\* the buffer arrived; only slices are read with bytes missing.
THEOREM ReadsAsWritten == Spec => []ReadAsWritten
  <1>1. CodecInv => ReadAsWritten
    BY DEF CodecInv
  <1> QED
    BY <1>1, CodecInvariant, PTL

\* A buffer that arrived whole is read without an error and to its end.
THEOREM ReadsTheWhole == Spec => []WholeIsRead
  <1>1. CodecInv => WholeIsRead
    BY DEF CodecInv, WholeIsRead
  <1> QED
    BY <1>1, CodecInvariant, PTL

\* A number of variable length has one encoding, whoever wrote it.
THEOREM EncodesOneWay == Spec => []OneEncoding
  <1>1. CodecInv => OneEncoding
    <2> SUFFICES ASSUME CodecInv, ReadVarInt(bytes).ok
                 PROVE  bytes = WriteVarInt(ReadVarInt(bytes).value) \o ReadVarInt(bytes).rest
      BY DEF OneEncoding
    <2>1. PICK b \in Seq(Byte) : b = bytes
      BY DEF CodecInv
    <2> QED
      BY <2>1, AnyVarInt
  <1> QED
    BY <1>1, CodecInvariant, PTL

\* The sizes that are announced are those of what is written.
THEOREM SizesAnnounced == Spec => []SizesAgree
  <1>1. CodecInv => SizesAgree
    <2> SUFFICES ASSUME CodecInv, NEW i \in DOMAIN written
                 PROVE  /\ written[i].type = "varint" =>
                              VarIntSerializeSize(written[i].number) = Len(Encode(written[i]))
                        /\ written[i].type = "varslice" =>
                              VarSliceSerializeSize(written[i].slice) = Len(Encode(written[i]))
      BY DEF SizesAgree
    <2>1. CASE written \in Seq(Items)
      <3>1. PICK item \in Items : item = written[i]
        BY <2>1
      <3>2. IsItem(item)
        BY ItemsAssumption
      <3>3. ASSUME item.type = "varint"
            PROVE  VarIntSerializeSize(item.number) = Len(Encode(item))
        <4>1. item.number \in 0 .. Size64 - 1
          BY <3>2, <3>3 DEF IsItem
        <4>2. Encode(item) = WriteVarInt(item.number)
          BY <3>3 DEF Encode
        <4> QED
          BY <4>1, <4>2, ReadOwnVarInt
      <3>4. ASSUME item.type = "varslice"
            PROVE  VarSliceSerializeSize(item.slice) = Len(Encode(item))
        <4>1. item.slice \in Slices
          BY <3>2, <3>4 DEF IsItem
        <4>2. Encode(item) = WriteVarSlice(item.slice)
          BY <3>4 DEF Encode
        <4> QED
          BY <4>1, <4>2, ReadOwnVarSlice
      <3> QED
        BY <3>1, <3>3, <3>4
    <2>2. CASE \E n \in ScriptNums : written = <<NumberItem("scriptnum", n)>>
      <3>1. PICK n \in ScriptNums : written = <<NumberItem("scriptnum", n)>>
        BY <2>2
      <3>2. written[i].type = "scriptnum"
        BY <3>1, ItemsHaveTypes
      <3> QED
        BY <3>2
    <2> QED
      BY <2>1, <2>2 DEF CodecInv
  <1> QED
    BY <1>1, CodecInvariant, PTL

\* Between -h and h - 1, a number that is below or above is nearest to the bound it
\* passed, and any other is its own nearest.
LEMMA Nearest ==
    ASSUME NEW h \in Nat \ {0}, h = S!Half(Narrow), NEW n \in Int
    PROVE  /\ S!Int32(n) \in -h .. h - 1
           /\ \A m \in -h .. h - 1 :
                 (IF S!Int32(n) < n THEN n - S!Int32(n) ELSE S!Int32(n) - n)
                    <= (IF m < n THEN n - m ELSE m - n)
  <1>1. CASE n > h - 1
    <2>1. S!Int32(n) = h - 1
      <3>1. ~(n < -h) /\ n \notin -h .. h - 1
        BY <1>1
      <3> QED
        BY <1>1, <3>1 DEF S!Int32, S!Ints
    <2> QED
      BY <1>1, <2>1
  <1>2. CASE n < -h
    <2>1. S!Int32(n) = -h
      <3>1. ~(n > h - 1) /\ n \notin -h .. h - 1
        BY <1>2
      <3> QED
        BY <1>2, <3>1 DEF S!Int32, S!Ints
    <2> QED
      BY <1>2, <2>1
  <1>3. CASE n \in -h .. h - 1
    <2>1. S!Int32(n) = n
      <3>1. ~(n > h - 1) /\ ~(n < -h)
        BY <1>3
      <3> QED
        BY <1>3, <3>1 DEF S!Int32, S!Ints
    <2> QED
      BY <1>3, <2>1
  <1> QED
    BY <1>1, <1>2, <1>3

\* Where an int32 is needed, a script number becomes the nearest there is.
THEOREM ClampsToNearest == Spec => []ClampedToNearest
  <1>1. CodecInv => ClampedToNearest
    <2> SUFFICES ASSUME CodecInv, NEW i \in DOMAIN written, written[i].type = "scriptnum"
                 PROVE  /\ S!Int32(written[i].number) \in S!Ints(Narrow)
                        /\ \A m \in S!Ints(Narrow) :
                              (IF S!Int32(written[i].number) < written[i].number
                               THEN written[i].number - S!Int32(written[i].number)
                               ELSE S!Int32(written[i].number) - written[i].number)
                                 <= (IF m < written[i].number THEN written[i].number - m
                                                              ELSE m - written[i].number)
      BY DEF ClampedToNearest
    <2>1. ~ (written \in Seq(Items))
      <3> SUFFICES ASSUME written \in Seq(Items) PROVE FALSE
        OBVIOUS
      <3>1. PICK item \in Items : item = written[i]
        OBVIOUS
      <3>2. IsItem(item) /\ item.type = "scriptnum"
        BY <3>1, ItemsAssumption
      <3> QED
        BY <3>2 DEF IsItem
    <2>2. PICK n \in ScriptNums : written = <<NumberItem("scriptnum", n)>>
      BY <2>1 DEF CodecInv
    <2>3. written[i].number = n
      BY <2>2, ItemsHaveTypes
    <2>4. PICK h \in Nat \ {0} : h = S!Half(Narrow)
      BY NumbersAssumption
    <2>5. n \in Int
      BY NumbersAssumption
    <2>6. S!Ints(Narrow) = -h .. h - 1
      BY <2>4 DEF S!Ints
    <2>7. /\ S!Int32(n) \in -h .. h - 1
          /\ \A m \in -h .. h - 1 :
                (IF S!Int32(n) < n THEN n - S!Int32(n) ELSE S!Int32(n) - n)
                   <= (IF m < n THEN n - m ELSE m - n)
      BY <2>4, <2>5, Nearest
    <2> QED
      BY <2>3, <2>6, <2>7
  <1> QED
    BY <1>1, CodecInvariant, PTL
=============================================================================
