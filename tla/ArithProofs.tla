----------------------------- MODULE ArithProofs -----------------------------
(***************************************************************************)
(* Multi-byte arithmetic is exact for all operands and numbers of any      *)
(* length.  One instruction is exact (AdcExact, SbcExact); the invariant   *)
(* carries the equation from byte to byte.                                 *)
(***************************************************************************)
EXTENDS Arith, TLAPS

\* The carry flag read as a number.
LEMMA CarryIsBit == \A S : CarryIn(S) \in {0, 1}
BY DEF CarryIn

\* A binary ADC leaves the sum in A and C.
LEMMA BinaryExact ==
    ASSUME NEW a \in Byte, NEW m \in Byte, NEW S
    PROVE  /\ Binary(a, S, m).A \in Byte
           /\ a + m + CarryIn(S) = Binary(a, S, m).A + 256 * CarryIn(Binary(a, S, m).P)
<1> DEFINE total == a + m + CarryIn(S)
           r == total % 256
           c == SetFlag(S, "C", total > 255)
           v == SetFlag(c, "V", Overflowed(a, m, r))
<1>1. CarryIn(SetNZ(v, r)) = CarryIn(c)
  BY DEF SetNZ, CarryIn, SetFlag
<1>2. CarryIn(c) = IF total > 255 THEN 1 ELSE 0
  BY DEF CarryIn, SetFlag
<1>3. total \in 0..511
  BY CarryIsBit DEF Byte
<1>4. total = r + 256 * (IF total > 255 THEN 1 ELSE 0) /\ r \in Byte
  BY <1>3 DEF Byte
<1> QED BY <1>1, <1>2, <1>4 DEF Binary

\* Go's & 0x0F on a small negative int16.
LEMMA NegativeMod == \A i \in -16..(-1) : i % 16 = i + 16
OBVIOUS

\* The byte of two decimal digits.
LEMMA DigitsByte ==
    ASSUME NEW h \in 0..9, NEW l \in 0..9, NEW S, "D" \in S
    PROVE  /\ 16 * h + l \in Byte /\ IsDecimal(16 * h + l)
           /\ Value(16 * h + l, S) = 10 * h + l
<1>1. (16 * h + l) \div 16 = h /\ (16 * h + l) % 16 = l
  OBVIOUS
<1> QED BY <1>1 DEF IsDecimal, Value, LowNibble, Byte

\* A decimal ADC of two decimal bytes leaves their decimal sum in A and C.
LEMMA DecimalAddExact ==
    ASSUME NEW a \in Byte, NEW m \in Byte, NEW S, "D" \in S, IsDecimal(a), IsDecimal(m)
    PROVE  /\ adcBCD(a, S, m).A \in Byte /\ IsDecimal(adcBCD(a, S, m).A)
           /\ Value(a, S) + Value(m, S) + CarryIn(S)
                = Value(adcBCD(a, S, m).A, S) + 100 * CarryIn(adcBCD(a, S, m).P)
<1> DEFINE al == LowNibble(a) + LowNibble(m) + CarryIn(S)
           low == IF al >= 10 THEN ((al + 6) % 16) + 16 ELSE al
           ah == HighNibble(a) + HighNibble(m) + low
           high == IF ah >= 160 THEN ah + 96 ELSE ah
           r == high % 256
<1>1. adcBCD(a, S, m).A = r
  BY DEF adcBCD
<1>2. CarryIn(adcBCD(a, S, m).P) = IF high >= 256 THEN 1 ELSE 0
  BY DEF adcBCD, CarryIn, SetFlag
<1>3. PICK d1 \in 0..9, d0 \in 0..9 : a = 16 * d1 + d0
  <2>1. a \div 16 \in 0..9 /\ LowNibble(a) \in 0..9 /\ a = 16 * (a \div 16) + LowNibble(a)
    BY DEF IsDecimal, LowNibble, Byte
  <2> QED BY <2>1
<1>4. PICK e1 \in 0..9, e0 \in 0..9 : m = 16 * e1 + e0
  <2>1. m \div 16 \in 0..9 /\ LowNibble(m) \in 0..9 /\ m = 16 * (m \div 16) + LowNibble(m)
    BY DEF IsDecimal, LowNibble, Byte
  <2> QED BY <2>1
<1>5. LowNibble(a) = d0 /\ HighNibble(a) = 16 * d1 /\ Value(a, S) = 10 * d1 + d0
  BY <1>3 DEF LowNibble, HighNibble, Value
<1>6. LowNibble(m) = e0 /\ HighNibble(m) = 16 * e1 /\ Value(m, S) = 10 * e1 + e0
  BY <1>4 DEF LowNibble, HighNibble, Value
<1>7. al = d0 + e0 + CarryIn(S) /\ al \in 0..19
  BY <1>5, <1>6, CarryIsBit
<1>8. PICK k \in {0, 1}, f0 \in 0..9 : al = 10 * k + f0 /\ low = 16 * k + f0
  <2>1. CASE al < 10
    BY <2>1, <1>7
  <2>2. CASE al >= 10
    BY <2>2, <1>7
  <2> QED BY <2>1, <2>2, <1>7
<1>9. ah = 16 * (d1 + e1 + k) + f0
  BY <1>5, <1>6, <1>8
<1>10. PICK c \in {0, 1}, f1 \in 0..9 : d1 + e1 + k = 10 * c + f1
  <2>1. CASE d1 + e1 + k < 10
    BY <2>1
  <2>2. CASE d1 + e1 + k >= 10
    <3>1. (d1 + e1 + k) - 10 \in 0..9
      BY <2>2
    <3> QED BY <3>1
  <2> QED BY <2>1, <2>2
<1>11. high = 256 * c + 16 * f1 + f0
  BY <1>9, <1>10
<1>12. r = 16 * f1 + f0 /\ ((high >= 256) <=> c = 1)
  BY <1>11
<1> HIDE DEF al, low, ah, high, r
<1>13. r \in Byte /\ IsDecimal(r) /\ Value(r, S) = 10 * f1 + f0
  BY <1>8, <1>10, <1>12, DigitsByte
<1>14. CarryIn(adcBCD(a, S, m).P) = c
  BY <1>2, <1>12
<1>15. (10 * d1 + d0) + (10 * e1 + e0) + CarryIn(S) = (10 * f1 + f0) + 100 * c
  <2>1. CarryIn(S) \in {0, 1}
    BY CarryIsBit
  <2>2. d0 + e0 + CarryIn(S) = 10 * k + f0
    BY <1>7, <1>8
  <2>3. d1 + e1 = 10 * c + f1 - k
    BY <1>10
  <2> QED BY <2>1, <2>2, <2>3
<1>16. Value(adcBCD(a, S, m).A, S) = 10 * f1 + f0 /\ r \in Byte /\ IsDecimal(r)
  BY <1>1, <1>13
<1>17. Value(a, S) + Value(m, S) + CarryIn(S)
         = Value(adcBCD(a, S, m).A, S) + 100 * CarryIn(adcBCD(a, S, m).P)
  BY <1>5, <1>6, <1>14, <1>15, <1>16
<1> QED BY <1>1, <1>16, <1>17

\* A decimal SBC of two decimal bytes leaves their decimal difference in A,
\* and the borrow - that of the binary difference - in C.
LEMMA DecimalSubExact ==
    ASSUME NEW a \in Byte, NEW m \in Byte, NEW S, "D" \in S, IsDecimal(a), IsDecimal(m)
    PROVE  /\ sbcBCD(a, S, m).A \in Byte /\ IsDecimal(sbcBCD(a, S, m).A)
           /\ Value(a, S) - Value(m, S) - (1 - CarryIn(S))
                = Value(sbcBCD(a, S, m).A, S) - 100 * (1 - CarryIn(sbcBCD(a, S, m).P))
<1> DEFINE al == LowNibble(a) - LowNibble(m) - (1 - CarryIn(S))
           low == IF al < 0 THEN ((al - 6) % 16) - 16 ELSE al
           aInt == HighNibble(a) - HighNibble(m) + low
           high == IF aInt < 0 THEN aInt - 96 ELSE aInt
           r == high % 256
<1>1. sbcBCD(a, S, m).A = r /\ sbcBCD(a, S, m).P = Binary(a, S, 255 - m).P
  BY DEF sbcBCD
<1>2. PICK d1 \in 0..9, d0 \in 0..9 : a = 16 * d1 + d0
  <2>1. a \div 16 \in 0..9 /\ LowNibble(a) \in 0..9 /\ a = 16 * (a \div 16) + LowNibble(a)
    BY DEF IsDecimal, LowNibble, Byte
  <2> QED BY <2>1
<1>3. PICK e1 \in 0..9, e0 \in 0..9 : m = 16 * e1 + e0
  <2>1. m \div 16 \in 0..9 /\ LowNibble(m) \in 0..9 /\ m = 16 * (m \div 16) + LowNibble(m)
    BY DEF IsDecimal, LowNibble, Byte
  <2> QED BY <2>1
<1>4. LowNibble(a) = d0 /\ HighNibble(a) = 16 * d1 /\ Value(a, S) = 10 * d1 + d0
  BY <1>2 DEF LowNibble, HighNibble, Value
<1>5. LowNibble(m) = e0 /\ HighNibble(m) = 16 * e1 /\ Value(m, S) = 10 * e1 + e0
  BY <1>3 DEF LowNibble, HighNibble, Value
<1>6. al = d0 - e0 - (1 - CarryIn(S)) /\ al \in -10..9
  BY <1>4, <1>5, CarryIsBit
<1>7. PICK k \in {0, 1}, f0 \in 0..9 : al = f0 - 10 * k /\ low = f0 - 16 * k
  <2>1. CASE al < 0
    <3>1. (al - 6) % 16 = al + 10
      <4> HIDE DEF al
      <4>1. al - 6 \in -16..(-1)
        BY <2>1, <1>6
      <4> QED BY <4>1, <1>6, NegativeMod
    <3>2. al + 10 \in 0..9
      BY <2>1, <1>6
    <3>3. low = ((al - 6) % 16) - 16
      BY <2>1
    <3>4. al = (al + 10) - 10 * 1 /\ low = (al + 10) - 16 * 1
      <4> HIDE DEF al, low
      <4> QED BY <1>6, <3>1, <3>3
    <3> QED BY <3>2, <3>4
  <2>2. CASE al >= 0
    BY <2>2, <1>6
  <2> QED BY <2>1, <2>2, <1>6
<1>8. aInt = 16 * (d1 - e1 - k) + f0
  BY <1>4, <1>5, <1>7
<1>9. PICK b \in {0, 1}, f1 \in 0..9 : d1 - e1 - k = f1 - 10 * b
  <2>1. CASE d1 - e1 - k < 0
    <3>1. (d1 - e1 - k) + 10 \in 0..9
      BY <2>1
    <3> QED BY <3>1
  <2>2. CASE d1 - e1 - k >= 0
    BY <2>2
  <2> QED BY <2>1, <2>2
<1>10. high = 16 * f1 + f0 - 256 * b
  BY <1>8, <1>9
<1>11. r = 16 * f1 + f0
  BY <1>10
<1>12. 255 - m \in Byte
  BY DEF Byte
<1>13. CarryIn(Binary(a, S, 255 - m).P) = 1 - b
  <2>1. a + (255 - m) + CarryIn(S)
          = Binary(a, S, 255 - m).A + 256 * CarryIn(Binary(a, S, 255 - m).P)
    BY <1>12, BinaryExact
  <2>2. Binary(a, S, 255 - m).A \in Byte
    BY <1>12, BinaryExact
  <2>3. a + (255 - m) + CarryIn(S) = 256 * (1 - b) + 16 * f1 + f0 + 6 * k + 96 * b
    <3> HIDE DEF al, low
    <3>1. CarryIn(S) \in {0, 1}
      BY CarryIsBit
    <3>2. d0 - e0 + CarryIn(S) = f0 - 10 * k + 1
      BY <3>1, <1>6, <1>7
    <3>3. d1 - e1 = f1 - 10 * b + k
      BY <1>9
    <3> QED BY <3>1, <3>2, <3>3, <1>2, <1>3
  <2>4. 16 * f1 + f0 + 6 * k + 96 * b \in Byte
    BY <1>2, <1>3, <1>6, <1>7, <1>9, CarryIsBit DEF Byte
  <2> QED BY <2>1, <2>2, <2>3, <2>4, CarryIsBit DEF Byte
<1> HIDE DEF al, low, aInt, high, r
<1>14. r \in Byte /\ IsDecimal(r) /\ Value(r, S) = 10 * f1 + f0
  BY <1>7, <1>9, <1>11, DigitsByte
<1>15. (10 * d1 + d0) - (10 * e1 + e0) - (1 - CarryIn(S)) = (10 * f1 + f0) - 100 * b
  <2>1. CarryIn(S) \in {0, 1}
    BY CarryIsBit
  <2> QED BY <2>1, <1>6, <1>7, <1>9
<1>16. 100 * (1 - CarryIn(sbcBCD(a, S, m).P)) = 100 * b
  BY <1>1, <1>13
<1> QED BY <1>1, <1>4, <1>5, <1>14, <1>15, <1>16

\* One ADC, in either mode.
LEMMA AdcExact ==
    ASSUME NEW a \in Byte, NEW m \in Byte, NEW S,
           "D" \in S => IsDecimal(a) /\ IsDecimal(m)
    PROVE  Value(a, S) + Value(m, S) + CarryIn(S)
             = Value(opAdc(a, S, m).A, S) + Base(S) * CarryIn(opAdc(a, S, m).P)
<1>1. CASE "D" \in S
  BY <1>1, DecimalAddExact DEF opAdc, Base
<1>2. CASE "D" \notin S
  BY <1>2, BinaryExact DEF opAdc, Base, Value
<1> QED BY <1>1, <1>2

\* One SBC, in either mode.
LEMMA SbcExact ==
    ASSUME NEW a \in Byte, NEW m \in Byte, NEW S,
           "D" \in S => IsDecimal(a) /\ IsDecimal(m)
    PROVE  Value(a, S) - Value(m, S) - (1 - CarryIn(S))
             = Value(opSbc(a, S, m).A, S) - Base(S) * (1 - CarryIn(opSbc(a, S, m).P))
<1>1. CASE "D" \in S
  BY <1>1, DecimalSubExact DEF opSbc, Base
<1>2. CASE "D" \notin S
  <2>1. 255 - m \in Byte
    BY DEF Byte
  <2>2. /\ Binary(a, S, 255 - m).A \in Byte
        /\ a + (255 - m) + CarryIn(S)
             = Binary(a, S, 255 - m).A + 256 * CarryIn(Binary(a, S, 255 - m).P)
    BY <2>1, BinaryExact
  <2>3. a - m - (1 - CarryIn(S))
          = Binary(a, S, 255 - m).A - 256 * (1 - CarryIn(Binary(a, S, 255 - m).P))
    BY <2>2, CarryIsBit DEF Byte
  <2> QED BY <1>2, <2>3 DEF opSbc, Base, Value
<1> QED BY <1>1, <1>2

-------------------------------------------------------------------------------
(* The history record: the equation of MultiByteExact, for the sum that the  *)
(* next instruction would extend.                                            *)

Sums == [op : {"none", "ADC", "SBC"}, n : Nat, unit : Nat, x : Nat, y : Nat, z : Nat,
         carry : {0, 1}]

SumInv ==
    /\ A \in Byte
    /\ sum \in Sums
    /\ sum.n > 0 <=> sum.op # "none"
    /\ sum.op = "ADC" => sum.x + sum.y + sum.carry = sum.z + CarryIn(P) * sum.unit
    /\ sum.op = "SBC" =>
          sum.x - sum.y - (1 - sum.carry) = sum.z - (1 - CarryIn(P)) * sum.unit

\* Extending an exact addition by one byte keeps it exact.
LEMMA ExtendAdd ==
    ASSUME NEW x \in Nat, NEW y \in Nat, NEW z \in Nat, NEW u \in Nat, NEW b \in Nat,
           NEW c0 \in {0, 1}, NEW c \in {0, 1}, NEW d \in {0, 1},
           NEW va \in Nat, NEW vm \in Nat, NEW vr \in Nat,
           x + y + c0 = z + c * u,
           va + vm + c = vr + b * d
    PROVE  (x + u * va) + (y + u * vm) + c0 = (z + u * vr) + d * (u * b)
<1>1. u * (va + vm + c) = u * (vr + b * d)
  OBVIOUS
<1>2. u * va + u * vm + u * c = u * vr + u * (b * d)
  BY <1>1
<1>3. u * (b * d) = d * (u * b)
  OBVIOUS
<1> QED BY <1>2, <1>3

\* The same for a subtraction and its borrow.
LEMMA ExtendSub ==
    ASSUME NEW x \in Nat, NEW y \in Nat, NEW z \in Nat, NEW u \in Nat, NEW b \in Nat,
           NEW c0 \in {0, 1}, NEW c \in {0, 1}, NEW d \in {0, 1},
           NEW va \in Nat, NEW vm \in Nat, NEW vr \in Nat,
           x - y - (1 - c0) = z - (1 - c) * u,
           va - vm - (1 - c) = vr - b * (1 - d)
    PROVE  (x + u * va) - (y + u * vm) - (1 - c0) = (z + u * vr) - (1 - d) * (u * b)
<1>1. u * (va - vm - (1 - c)) = u * (vr - b * (1 - d))
  OBVIOUS
<1>2. u * va - u * vm - u * (1 - c) = u * vr - u * (b * (1 - d))
  BY <1>1
<1>3. u * (b * (1 - d)) = (1 - d) * (u * b)
  OBVIOUS
<1> QED BY <1>2, <1>3

\* What the operations leave in A is a byte, what a byte stands for a natural.
LEMMA ResultTypes ==
    ASSUME NEW a \in Byte, NEW m \in Byte, NEW S
    PROVE  /\ opAdc(a, S, m).A \in Byte /\ opSbc(a, S, m).A \in Byte
           /\ Value(a, S) \in Nat /\ Base(S) \in Nat
<1>1. Value(a, S) \in Nat /\ Base(S) \in Nat
  BY DEF Value, Base, LowNibble, Byte
<1>2. \A i \in Int : i % 256 \in Byte
  BY DEF Byte
<1>3. Binary(a, S, m).A \in Byte /\ Binary(a, S, 255 - m).A \in Byte
  BY <1>2, CarryIsBit DEF Binary, Byte
<1>4. /\ LowNibble(a) \in Int /\ LowNibble(m) \in Int /\ HighNibble(a) \in Int
      /\ HighNibble(m) \in Int /\ CarryIn(S) \in Int
  BY CarryIsBit DEF HighNibble, LowNibble, Byte
<1>5. adcBCD(a, S, m).A \in Byte
  <2> DEFINE al == LowNibble(a) + LowNibble(m) + CarryIn(S)
             low == IF al >= 10 THEN ((al + 6) % 16) + 16 ELSE al
             ah == HighNibble(a) + HighNibble(m) + low
             high == IF ah >= 160 THEN ah + 96 ELSE ah
  <2>1. al \in Int
    BY <1>4
  <2>2. low \in Int
    <3> HIDE DEF al
    <3> QED BY <2>1
  <2>3. high \in Int
    <3> HIDE DEF low
    <3> QED BY <1>4, <2>2
  <2>4. adcBCD(a, S, m).A = high % 256
    BY DEF adcBCD
  <2> HIDE DEF high
  <2> QED BY <1>2, <2>3, <2>4
<1>6. sbcBCD(a, S, m).A \in Byte
  <2> DEFINE al == LowNibble(a) - LowNibble(m) - (1 - CarryIn(S))
             low == IF al < 0 THEN ((al - 6) % 16) - 16 ELSE al
             aInt == HighNibble(a) - HighNibble(m) + low
             high == IF aInt < 0 THEN aInt - 96 ELSE aInt
  <2>1. al \in Int
    BY <1>4
  <2>2. low \in Int
    <3> HIDE DEF al
    <3> QED BY <2>1
  <2>3. high \in Int
    <3> HIDE DEF low
    <3> QED BY <1>4, <2>2
  <2>4. sbcBCD(a, S, m).A = high % 256
    BY DEF sbcBCD
  <2> HIDE DEF high
  <2> QED BY <1>2, <2>3, <2>4
<1> QED BY <1>1, <1>3, <1>5, <1>6 DEF opAdc, opSbc

\* The sum that Extended continues, or the one it starts.
Started(op) == IF sum.op = op /\ sum.n < MaxBytes THEN sum
               ELSE [NoSum EXCEPT !.op = op, !.carry = CarryIn(P)]

\* The addition that ADC continues or starts is exact so far.
LEMMA StartedAdd ==
    SumInv => LET s == Started("ADC") IN
              /\ s \in Sums /\ s.op = "ADC"
              /\ s.x + s.y + s.carry = s.z + CarryIn(P) * s.unit
<1> SUFFICES ASSUME SumInv
             PROVE  LET s == Started("ADC") IN
                    /\ s \in Sums /\ s.op = "ADC"
                    /\ s.x + s.y + s.carry = s.z + CarryIn(P) * s.unit
  OBVIOUS
<1> DEFINE new == [op |-> "ADC", n |-> 0, unit |-> 1, x |-> 0, y |-> 0, z |-> 0,
                   carry |-> CarryIn(P)]
<1>1. CASE sum.op = "ADC" /\ sum.n < MaxBytes
  BY <1>1 DEF SumInv, Started
<1>2. CASE ~(sum.op = "ADC" /\ sum.n < MaxBytes)
  <2>1. Started("ADC") = new
    BY <1>2 DEF Started, NoSum
  <2>2. CarryIn(P) \in {0, 1}
    BY CarryIsBit
  <2> QED BY <2>1, <2>2 DEF Sums
<1> QED BY <1>1, <1>2

\* The subtraction that SBC continues or starts is exact so far.
LEMMA StartedSub ==
    SumInv => LET s == Started("SBC") IN
              /\ s \in Sums /\ s.op = "SBC"
              /\ s.x - s.y - (1 - s.carry) = s.z - (1 - CarryIn(P)) * s.unit
<1> SUFFICES ASSUME SumInv
             PROVE  LET s == Started("SBC") IN
                    /\ s \in Sums /\ s.op = "SBC"
                    /\ s.x - s.y - (1 - s.carry) = s.z - (1 - CarryIn(P)) * s.unit
  OBVIOUS
<1> DEFINE new == [op |-> "SBC", n |-> 0, unit |-> 1, x |-> 0, y |-> 0, z |-> 0,
                   carry |-> CarryIn(P)]
<1>1. CASE sum.op = "SBC" /\ sum.n < MaxBytes
  BY <1>1 DEF SumInv, Started
<1>2. CASE ~(sum.op = "SBC" /\ sum.n < MaxBytes)
  <2>1. Started("SBC") = new
    BY <1>2 DEF Started, NoSum
  <2>2. CarryIn(P) \in {0, 1}
    BY CarryIsBit
  <2> QED BY <2>1, <2>2 DEF Sums
<1> QED BY <1>1, <1>2

\* Without a sum in progress the invariant only asks that A is a byte.
LEMMA NoSumInv == A' \in Byte /\ sum' = NoSum => SumInv'
BY DEF SumInv, NoSum, Sums

\* ADC keeps the equation, whether it continues a sum or starts one.
LEMMA AdcStep == ASSUME SumInv, NEW m \in Byte, ADC(m) PROVE SumInv'
<1> DEFINE s == Started("ADC")
           r == opAdc(A, P, m).A
           d == CarryIn(P')
<1>1. A \in Byte /\ A' = r /\ P' = opAdc(A, P, m).P /\ r \in Byte
  BY ResultTypes DEF ADC, SumInv
<1>2. CASE sum' = NoSum
  BY <1>1, <1>2, NoSumInv
<1>3. CASE sum' # NoSum
  <2>1. "D" \in P => IsDecimal(A) /\ IsDecimal(m)
    BY <1>3 DEF ADC, Extended
  <2>2. sum' = [s EXCEPT !.n = @ + 1, !.unit = @ * Base(P),
                         !.x = @ + s.unit * Value(A, P), !.y = @ + s.unit * Value(m, P),
                         !.z = @ + s.unit * Value(r, P)]
    BY <1>3 DEF ADC, Extended, Started
  <2>3. s \in Sums /\ s.op = "ADC" /\ s.x + s.y + s.carry = s.z + CarryIn(P) * s.unit
    BY StartedAdd
  <2> HIDE DEF s, r
  <2>4. Value(A, P) \in Nat /\ Value(m, P) \in Nat /\ Value(r, P) \in Nat /\ Base(P) \in Nat
    BY <1>1, ResultTypes
  <2>5. Value(A, P) + Value(m, P) + CarryIn(P) = Value(r, P) + Base(P) * d
    BY <1>1, <2>1, AdcExact DEF r
  <2>6. (s.x + s.unit * Value(A, P)) + (s.y + s.unit * Value(m, P)) + s.carry
          = (s.z + s.unit * Value(r, P)) + d * (s.unit * Base(P))
    <3>1. /\ s.x \in Nat /\ s.y \in Nat /\ s.z \in Nat /\ s.unit \in Nat /\ s.carry \in {0, 1}
          /\ CarryIn(P) \in {0, 1} /\ d \in {0, 1}
      BY <2>3, CarryIsBit DEF Sums
    <3> DEFINE x == s.x
               y == s.y
               z == s.z
               u == s.unit
               c0 == s.carry
               c == CarryIn(P)
               va == Value(A, P)
               vm == Value(m, P)
               vr == Value(r, P)
               b == Base(P)
    <3>2. /\ x \in Nat /\ y \in Nat /\ z \in Nat /\ u \in Nat /\ c0 \in {0, 1} /\ c \in {0, 1}
          /\ d \in {0, 1} /\ va \in Nat /\ vm \in Nat /\ vr \in Nat /\ b \in Nat
      BY <3>1, <2>4
    <3>3. x + y + c0 = z + c * u /\ va + vm + c = vr + b * d
      BY <2>3, <2>5
    <3> HIDE DEF x, y, z, u, c0, c, d, va, vm, vr, b
    <3>4. (x + u * va) + (y + u * vm) + c0 = (z + u * vr) + d * (u * b)
      BY <3>2, <3>3, ExtendAdd
    <3> QED BY <3>4 DEF x, y, z, u, c0, d, va, vm, vr, b
  <2>7. \A i \in Nat, j \in Nat, k \in Nat : i + j * k \in Nat /\ j * k \in Nat
    OBVIOUS
  <2>8. /\ s.x + s.unit * Value(A, P) \in Nat /\ s.y + s.unit * Value(m, P) \in Nat
        /\ s.z + s.unit * Value(r, P) \in Nat /\ s.unit * Base(P) \in Nat
    BY <2>3, <2>4, <2>7 DEF Sums
  <2>9. sum' \in Sums /\ sum'.op = "ADC" /\ sum'.n > 0
    <3>1. sum' = [op |-> "ADC", n |-> s.n + 1, unit |-> s.unit * Base(P),
                  x |-> s.x + s.unit * Value(A, P), y |-> s.y + s.unit * Value(m, P),
                  z |-> s.z + s.unit * Value(r, P), carry |-> s.carry]
      BY <2>2, <2>3 DEF Sums
    <3>2. s.n + 1 \in Nat /\ s.n + 1 > 0 /\ s.carry \in {0, 1}
      BY <2>3 DEF Sums
    <3> QED BY <3>1, <3>2, <2>8 DEF Sums
  <2>10. /\ sum'.x = s.x + s.unit * Value(A, P) /\ sum'.y = s.y + s.unit * Value(m, P)
         /\ sum'.z = s.z + s.unit * Value(r, P) /\ sum'.unit = s.unit * Base(P)
         /\ sum'.carry = s.carry
    BY <2>2, <2>3 DEF Sums
  <2> QED BY <1>1, <2>6, <2>9, <2>10 DEF SumInv
<1> QED BY <1>2, <1>3

\* SBC keeps the equation, whether it continues a difference or starts one.
LEMMA SbcStep == ASSUME SumInv, NEW m \in Byte, SBC(m) PROVE SumInv'
<1> DEFINE s == Started("SBC")
           r == opSbc(A, P, m).A
           d == CarryIn(P')
<1>1. A \in Byte /\ A' = r /\ P' = opSbc(A, P, m).P /\ r \in Byte
  BY ResultTypes DEF SBC, SumInv
<1>2. CASE sum' = NoSum
  BY <1>1, <1>2, NoSumInv
<1>3. CASE sum' # NoSum
  <2>1. "D" \in P => IsDecimal(A) /\ IsDecimal(m)
    BY <1>3 DEF SBC, Extended
  <2>2. sum' = [s EXCEPT !.n = @ + 1, !.unit = @ * Base(P),
                         !.x = @ + s.unit * Value(A, P), !.y = @ + s.unit * Value(m, P),
                         !.z = @ + s.unit * Value(r, P)]
    BY <1>3 DEF SBC, Extended, Started
  <2>3. /\ s \in Sums /\ s.op = "SBC"
        /\ s.x - s.y - (1 - s.carry) = s.z - (1 - CarryIn(P)) * s.unit
    BY StartedSub
  <2> HIDE DEF s, r
  <2>4. Value(A, P) \in Nat /\ Value(m, P) \in Nat /\ Value(r, P) \in Nat /\ Base(P) \in Nat
    BY <1>1, ResultTypes
  <2>5. Value(A, P) - Value(m, P) - (1 - CarryIn(P)) = Value(r, P) - Base(P) * (1 - d)
    BY <1>1, <2>1, SbcExact DEF r
  <2>6. (s.x + s.unit * Value(A, P)) - (s.y + s.unit * Value(m, P)) - (1 - s.carry)
          = (s.z + s.unit * Value(r, P)) - (1 - d) * (s.unit * Base(P))
    <3>1. /\ s.x \in Nat /\ s.y \in Nat /\ s.z \in Nat /\ s.unit \in Nat /\ s.carry \in {0, 1}
          /\ CarryIn(P) \in {0, 1} /\ d \in {0, 1}
      BY <2>3, CarryIsBit DEF Sums
    <3> DEFINE x == s.x
               y == s.y
               z == s.z
               u == s.unit
               c0 == s.carry
               c == CarryIn(P)
               va == Value(A, P)
               vm == Value(m, P)
               vr == Value(r, P)
               b == Base(P)
    <3>2. /\ x \in Nat /\ y \in Nat /\ z \in Nat /\ u \in Nat /\ c0 \in {0, 1} /\ c \in {0, 1}
          /\ d \in {0, 1} /\ va \in Nat /\ vm \in Nat /\ vr \in Nat /\ b \in Nat
      BY <3>1, <2>4
    <3>3. x - y - (1 - c0) = z - (1 - c) * u /\ va - vm - (1 - c) = vr - b * (1 - d)
      BY <2>3, <2>5
    <3> HIDE DEF x, y, z, u, c0, c, d, va, vm, vr, b
    <3>4. (x + u * va) - (y + u * vm) - (1 - c0) = (z + u * vr) - (1 - d) * (u * b)
      BY <3>2, <3>3, ExtendSub
    <3> QED BY <3>4 DEF x, y, z, u, c0, d, va, vm, vr, b
  <2>7. \A i \in Nat, j \in Nat, k \in Nat : i + j * k \in Nat /\ j * k \in Nat
    OBVIOUS
  <2>8. /\ s.x + s.unit * Value(A, P) \in Nat /\ s.y + s.unit * Value(m, P) \in Nat
        /\ s.z + s.unit * Value(r, P) \in Nat /\ s.unit * Base(P) \in Nat
    BY <2>3, <2>4, <2>7 DEF Sums
  <2>9. sum' \in Sums /\ sum'.op = "SBC" /\ sum'.n > 0
    <3>1. sum' = [op |-> "SBC", n |-> s.n + 1, unit |-> s.unit * Base(P),
                  x |-> s.x + s.unit * Value(A, P), y |-> s.y + s.unit * Value(m, P),
                  z |-> s.z + s.unit * Value(r, P), carry |-> s.carry]
      BY <2>2, <2>3 DEF Sums
    <3>2. s.n + 1 \in Nat /\ s.n + 1 > 0 /\ s.carry \in {0, 1}
      BY <2>3 DEF Sums
    <3> QED BY <3>1, <3>2, <2>8 DEF Sums
  <2>10. /\ sum'.x = s.x + s.unit * Value(A, P) /\ sum'.y = s.y + s.unit * Value(m, P)
         /\ sum'.z = s.z + s.unit * Value(r, P) /\ sum'.unit = s.unit * Base(P)
         /\ sum'.carry = s.carry
    BY <2>2, <2>3 DEF Sums
  <2> QED BY <1>1, <2>6, <2>9, <2>10 DEF SumInv
<1> QED BY <1>2, <1>3

\* The equation holds in every reachable state.
THEOREM SumInvHolds == Spec => []SumInv
<1>1. Init => SumInv
  BY DEF Init, SumInv, NoSum, Sums, Byte
<1>2. SumInv /\ [Next]_vars => SumInv'
  <2> SUFFICES ASSUME SumInv, [Next]_vars PROVE SumInv'
    OBVIOUS
  <2>1. ASSUME NEW v \in Operands, LDA(v) PROVE SumInv'
    <3>1. CarryIn(P') = CarryIn(P)
      BY <2>1 DEF LDA, SetNZ, SetFlag, CarryIn
    <3>2. A' \in Byte /\ sum' = sum
      BY <2>1, ArithAssumption DEF LDA
    <3> QED BY <3>1, <3>2 DEF SumInv
  <2>2. ASSUME NEW v \in Operands, ADC(v) PROVE SumInv'
    BY <2>2, AdcStep, ArithAssumption
  <2>3. ASSUME NEW v \in Operands, SBC(v) PROVE SumInv'
    BY <2>3, SbcStep, ArithAssumption
  <2>4. ASSUME NEW v \in Operands, CMP(v) PROVE SumInv'
    BY <2>4, NoSumInv DEF CMP, SumInv
  <2>5. ASSUME NEW f, NEW on, SetFlagTo(f, on) PROVE SumInv'
    BY <2>5, NoSumInv DEF SetFlagTo, SumInv
  <2>6. CASE UNCHANGED vars
    BY <2>6 DEF vars, SumInv
  <2> QED BY <2>1, <2>2, <2>3, <2>4, <2>5, <2>6 DEF Next
<1> QED BY <1>1, <1>2, PTL DEF Spec

\* Additions and subtractions of numbers of any length, in binary and decimal
\* mode, are exact for all operands (opAdc, opSbc and the carry in P).
THEOREM MultiByteExactHolds == Spec => []MultiByteExact
<1>1. SumInv => MultiByteExact
  BY DEF SumInv, MultiByteExact, Sums
<1> QED BY <1>1, SumInvHolds, PTL

\* adcBCD and sbcBCD turn decimal bytes into decimal bytes.
THEOREM DecimalStaysDecimalHolds == Spec => DecimalStaysDecimal
<1> DEFINE Keeps == \A m \in Operands :
               (ADC(m) \/ SBC(m)) /\ "D" \in P /\ IsDecimal(A) /\ IsDecimal(m) => IsDecimal(A')
<1>1. SumInv => Keeps
  <2> SUFFICES ASSUME SumInv, NEW m \in Operands, ADC(m) \/ SBC(m), "D" \in P,
                      IsDecimal(A), IsDecimal(m)
               PROVE  IsDecimal(A')
    OBVIOUS
  <2>1. A \in Byte /\ m \in Byte
    BY ArithAssumption DEF SumInv
  <2>2. IsDecimal(adcBCD(A, P, m).A) /\ IsDecimal(sbcBCD(A, P, m).A)
    BY <2>1, DecimalAddExact, DecimalSubExact
  <2>3. A' = adcBCD(A, P, m).A \/ A' = sbcBCD(A, P, m).A
    BY DEF ADC, SBC, opAdc, opSbc
  <2> QED BY <2>2, <2>3
<1>2. SumInv => [Keeps]_vars
  BY <1>1
<1> QED BY <1>2, SumInvHolds, PTL DEF DecimalStaysDecimal

-------------------------------------------------------------------------------
(* Overflow.  V is computed from the top bytes alone; the numbers are below  *)
(* their unit, so the top bytes have their signs.                            *)

Bit(v) == IF v >= 128 THEN 1 ELSE 0

\* The number whose low bytes are l and whose top byte is a.
LEMMA TopByte ==
    ASSUME NEW u \in Nat, u > 0, NEW l \in Nat, l < u, NEW a \in Byte
    PROVE  /\ l + u * a \in Nat /\ l + u * a < u * 256
           /\ 2 * (l + u * a) >= u * 256 <=> a >= 128
<1> DEFINE p == u * a
<1>1. a \in Int /\ 0 <= a /\ a <= 255
  BY DEF Byte
<1>2. p \in Nat /\ p <= u * 255
  BY <1>1
<1>3. a >= 128 => p >= u * 128
  BY <1>1
<1>4. a < 128 => p <= u * 127
  BY <1>1
<1> HIDE DEF p
<1>5. /\ l + p \in Nat /\ l + p < u * 256
      /\ 2 * (l + p) >= u * 256 <=> a >= 128
  BY <1>1, <1>2, <1>3, <1>4
<1> QED BY <1>5 DEF p

\* The signed result fits exactly when the carries agree.
LEMMA SignedAdd ==
    ASSUME NEW U \in Nat, U > 0, NEW X \in Nat, NEW Y \in Nat, NEW Z \in Nat,
           NEW c \in {0, 1}, NEW d \in {0, 1}, NEW i \in {0, 1}, NEW j \in {0, 1}, NEW k \in {0, 1},
           X + Y + c = Z + d * U
    PROVE  (X - U * i) + (Y - U * j) + c # Z - U * k <=> d + k # i + j
<1>1. d * U = IF d = 1 THEN U ELSE 0
  OBVIOUS
<1> QED BY <1>1

LEMMA SignedSub ==
    ASSUME NEW U \in Nat, U > 0, NEW X \in Nat, NEW Y \in Nat, NEW Z \in Nat,
           NEW c \in {0, 1}, NEW d \in {0, 1}, NEW i \in {0, 1}, NEW j \in {0, 1}, NEW k \in {0, 1},
           X - Y - (1 - c) = Z - (1 - d) * U
    PROVE  (X - U * i) - (Y - U * j) - (1 - c) # Z - U * k <=> i - j # k - (1 - d)
<1>1. (1 - d) * U = IF d = 1 THEN 0 ELSE U
  OBVIOUS
<1> QED BY <1>1

\* A binary operation in progress has numbers below their unit, and V tells.
SignedInv ==
    sum.n > 0 /\ "D" \notin P =>
        /\ sum.unit > 0 /\ sum.x < sum.unit /\ sum.y < sum.unit /\ sum.z < sum.unit
        /\ OverflowMeansSigned

\* A number minus its unit if its top byte is negative.
LEMMA SignedIs ==
    ASSUME NEW u \in Nat, u > 0, NEW l \in Nat, l < u, NEW a \in Byte,
           NEW X, X = l + u * a, NEW U, U = u * 256
    PROVE  /\ X \in Nat /\ U \in Nat /\ U > 0 /\ X < U
           /\ (IF 2 * X >= U THEN X - U ELSE X) = X - U * Bit(a)
<1>1. X \in Nat /\ X < U /\ (2 * X >= U <=> a >= 128)
  BY TopByte
<1>2. U \in Nat /\ U > 0
  OBVIOUS
<1>3. U * 1 = U /\ U * 0 = 0
  BY <1>2
<1> QED BY <1>1, <1>2, <1>3 DEF Bit

\* The operation that a binary ADC or SBC continues or starts has numbers below
\* their unit.
LEMMA StartedBelow ==
    ASSUME SumInv, SignedInv, "D" \notin P, NEW op \in {"ADC", "SBC"}
    PROVE  LET s == Started(op) IN
           s \in Sums /\ s.unit > 0 /\ s.x < s.unit /\ s.y < s.unit /\ s.z < s.unit
<1>1. CASE sum.op = op /\ sum.n < MaxBytes
  <2>1. Started(op) = sum /\ sum \in Sums
    BY <1>1 DEF Started, SumInv
  <2>2. CASE sum.n > 0
    BY <2>1, <2>2 DEF SignedInv
  <2>3. CASE ~(sum.n > 0)
    BY <1>1, <2>1, <2>3 DEF SumInv
  <2> QED BY <2>2, <2>3
<1>2. CASE ~(sum.op = op /\ sum.n < MaxBytes)
  <2>1. Started(op) = [op |-> op, n |-> 0, unit |-> 1, x |-> 0, y |-> 0, z |-> 0,
                       carry |-> CarryIn(P)]
    BY <1>2 DEF Started, NoSum
  <2> QED BY <2>1, CarryIsBit DEF Sums
<1> QED BY <1>1, <1>2

\* A binary ADC leaves V as the signed numbers' result demands.
LEMMA AdcSigned == ASSUME SumInv, SignedInv, NEW m \in Byte, ADC(m), SumInv' PROVE SignedInv'
<1> SUFFICES ASSUME sum'.n > 0, "D" \notin P'
             PROVE  /\ sum'.unit > 0 /\ sum'.x < sum'.unit /\ sum'.y < sum'.unit
                    /\ sum'.z < sum'.unit /\ OverflowMeansSigned'
  BY DEF SignedInv
<1> DEFINE s == Started("ADC")
           r == opAdc(A, P, m).A
           d == CarryIn(P')
<1>1. A \in Byte /\ A' = r /\ P' = opAdc(A, P, m).P /\ r \in Byte
  BY ResultTypes DEF ADC, SumInv
<1>2. "D" \notin P
  BY <1>1 DEF opAdc, adcBCD, sbcBCD, Binary, SetNZ, SetFlag
<1>3. sum' # NoSum
  BY DEF NoSum
<1>4. sum' = [s EXCEPT !.n = @ + 1, !.unit = @ * Base(P),
                       !.x = @ + s.unit * Value(A, P), !.y = @ + s.unit * Value(m, P),
                       !.z = @ + s.unit * Value(r, P)]
  BY <1>3 DEF ADC, Extended, Started
<1>5. Base(P) = 256 /\ Value(A, P) = A /\ Value(m, P) = m /\ Value(r, P) = r
  BY <1>2 DEF Base, Value
<1>6. /\ s \in Sums /\ s.op = "ADC"
      /\ s.unit > 0 /\ s.x < s.unit /\ s.y < s.unit /\ s.z < s.unit
  BY <1>2, StartedAdd, StartedBelow
<1>7. "V" \in P' <=> Overflowed(A, m, r)
  BY <1>1, <1>2 DEF opAdc, Binary, SetNZ, SetFlag
<1>8. A + m + CarryIn(P) = r + 256 * d
  BY <1>1, <1>2, <1>5, AdcExact
<1> HIDE DEF s, r, d
<1>9. /\ sum'.x = s.x + s.unit * A /\ sum'.y = s.y + s.unit * m /\ sum'.z = s.z + s.unit * r
      /\ sum'.unit = s.unit * 256 /\ sum'.op = "ADC" /\ sum'.carry = s.carry
  BY <1>4, <1>5, <1>6 DEF Sums
<1> DEFINE u == s.unit
           X == sum'.x
           Y == sum'.y
           Z == sum'.z
           U == sum'.unit
           c0 == sum'.carry
           SX == IF 2 * X >= U THEN X - U ELSE X
           SY == IF 2 * Y >= U THEN Y - U ELSE Y
           SZ == IF 2 * Z >= U THEN Z - U ELSE Z
<1>10. u \in Nat /\ u > 0 /\ s.x \in Nat /\ s.y \in Nat /\ s.z \in Nat
       /\ s.carry \in {0, 1} /\ d \in {0, 1} /\ CarryIn(P) \in {0, 1}
  BY <1>6, CarryIsBit DEF Sums, d
<1>11. /\ X \in Nat /\ Y \in Nat /\ Z \in Nat /\ U \in Nat /\ U > 0
       /\ X < U /\ Y < U /\ Z < U
       /\ SX = X - U * Bit(A) /\ SY = Y - U * Bit(m) /\ SZ = Z - U * Bit(r)
  BY <1>1, <1>6, <1>9, <1>10, SignedIs
<1>12. sum'.x + sum'.y + sum'.carry = sum'.z + d * sum'.unit
  BY <1>9 DEF SumInv, d
<1>13. SX + SY + c0 # SZ <=> d + Bit(r) # Bit(A) + Bit(m)
  <2>1. Bit(A) \in {0, 1} /\ Bit(m) \in {0, 1} /\ Bit(r) \in {0, 1} /\ c0 \in {0, 1}
    BY <1>9, <1>10 DEF Bit
  <2>2. (X - U * Bit(A)) + (Y - U * Bit(m)) + c0 # Z - U * Bit(r) <=> d + Bit(r) # Bit(A) + Bit(m)
    <3> DEFINE i == Bit(A)
               j == Bit(m)
               k == Bit(r)
    <3>1. X \in Nat /\ Y \in Nat /\ Z \in Nat /\ U \in Nat /\ U > 0
          /\ i \in {0, 1} /\ j \in {0, 1} /\ k \in {0, 1} /\ c0 \in {0, 1} /\ d \in {0, 1}
      BY <1>10, <1>11, <2>1
    <3> HIDE DEF X, Y, Z, U, c0, i, j, k
    <3>2. X + Y + c0 = Z + d * U
      BY <1>12 DEF X, Y, Z, U, c0
    <3>3. (X - U * i) + (Y - U * j) + c0 # Z - U * k <=> d + k # i + j
      BY <3>1, <3>2, SignedAdd
    <3> QED BY <3>3 DEF i, j, k
  <2> HIDE DEF SX, SY, SZ
  <2> QED BY <1>11, <2>2
<1>14. "V" \in P' <=> SX + SY + c0 # SZ
  <2> DEFINE c == CarryIn(P)
  <2>1. A \in Byte /\ m \in Byte /\ r \in Byte /\ c \in {0, 1} /\ d \in {0, 1} /\ A + m + c = r + 256 * d
    BY <1>1, <1>8, <1>10
  <2> HIDE DEF c
  <2>2. Overflowed(A, m, r) <=> d + Bit(r) # Bit(A) + Bit(m)
    BY <2>1 DEF Overflowed, Sign, Bit, Byte
  <2> QED BY <1>7, <1>13, <2>2
<1>15. OverflowMeansSigned'
  <2>1. Signed(sum.x)' = SX /\ Signed(sum.y)' = SY /\ Signed(sum.z)' = SZ
    BY DEF Signed
  <2> HIDE DEF SX, SY, SZ
  <2> QED BY <1>9, <1>14, <2>1 DEF OverflowMeansSigned
<1> QED BY <1>11, <1>15

\* A binary SBC leaves V as the signed numbers' result demands.
LEMMA SbcSigned == ASSUME SumInv, SignedInv, NEW m \in Byte, SBC(m), SumInv' PROVE SignedInv'
<1> SUFFICES ASSUME sum'.n > 0, "D" \notin P'
             PROVE  /\ sum'.unit > 0 /\ sum'.x < sum'.unit /\ sum'.y < sum'.unit
                    /\ sum'.z < sum'.unit /\ OverflowMeansSigned'
  BY DEF SignedInv
<1> DEFINE s == Started("SBC")
           r == opSbc(A, P, m).A
           d == CarryIn(P')
<1>1. A \in Byte /\ A' = r /\ P' = opSbc(A, P, m).P /\ r \in Byte
  BY ResultTypes DEF SBC, SumInv
<1>2. "D" \notin P
  BY <1>1 DEF opSbc, adcBCD, sbcBCD, Binary, SetNZ, SetFlag
<1>3. sum' # NoSum
  BY DEF NoSum
<1>4. sum' = [s EXCEPT !.n = @ + 1, !.unit = @ * Base(P),
                       !.x = @ + s.unit * Value(A, P), !.y = @ + s.unit * Value(m, P),
                       !.z = @ + s.unit * Value(r, P)]
  BY <1>3 DEF SBC, Extended, Started
<1>5. Base(P) = 256 /\ Value(A, P) = A /\ Value(m, P) = m /\ Value(r, P) = r
  BY <1>2 DEF Base, Value
<1>6. /\ s \in Sums /\ s.op = "SBC"
      /\ s.unit > 0 /\ s.x < s.unit /\ s.y < s.unit /\ s.z < s.unit
  BY <1>2, StartedSub, StartedBelow
<1>7. "V" \in P' <=> Overflowed(A, 255 - m, r)
  BY <1>1, <1>2 DEF opSbc, Binary, SetNZ, SetFlag
<1>8. A - m - (1 - CarryIn(P)) = r - 256 * (1 - d)
  BY <1>1, <1>2, <1>5, SbcExact
<1> HIDE DEF s, r, d
<1>9. /\ sum'.x = s.x + s.unit * A /\ sum'.y = s.y + s.unit * m /\ sum'.z = s.z + s.unit * r
      /\ sum'.unit = s.unit * 256 /\ sum'.op = "SBC" /\ sum'.carry = s.carry
  BY <1>4, <1>5, <1>6 DEF Sums
<1> DEFINE u == s.unit
           X == sum'.x
           Y == sum'.y
           Z == sum'.z
           U == sum'.unit
           c0 == sum'.carry
           SX == IF 2 * X >= U THEN X - U ELSE X
           SY == IF 2 * Y >= U THEN Y - U ELSE Y
           SZ == IF 2 * Z >= U THEN Z - U ELSE Z
<1>10. u \in Nat /\ u > 0 /\ s.x \in Nat /\ s.y \in Nat /\ s.z \in Nat
       /\ s.carry \in {0, 1} /\ d \in {0, 1} /\ CarryIn(P) \in {0, 1}
  BY <1>6, CarryIsBit DEF Sums, d
<1>11. /\ X \in Nat /\ Y \in Nat /\ Z \in Nat /\ U \in Nat /\ U > 0
       /\ X < U /\ Y < U /\ Z < U
       /\ SX = X - U * Bit(A) /\ SY = Y - U * Bit(m) /\ SZ = Z - U * Bit(r)
  BY <1>1, <1>6, <1>9, <1>10, SignedIs
<1>12. sum'.x - sum'.y - (1 - sum'.carry) = sum'.z - (1 - d) * sum'.unit
  BY <1>9 DEF SumInv, d
<1>13. SX - SY - (1 - c0) # SZ <=> Bit(A) - Bit(m) # Bit(r) - (1 - d)
  <2>1. Bit(A) \in {0, 1} /\ Bit(m) \in {0, 1} /\ Bit(r) \in {0, 1} /\ c0 \in {0, 1}
    BY <1>9, <1>10 DEF Bit
  <2>2. (X - U * Bit(A)) - (Y - U * Bit(m)) - (1 - c0) # Z - U * Bit(r) <=> Bit(A) - Bit(m) # Bit(r) - (1 - d)
    <3> DEFINE i == Bit(A)
               j == Bit(m)
               k == Bit(r)
    <3>1. X \in Nat /\ Y \in Nat /\ Z \in Nat /\ U \in Nat /\ U > 0
          /\ i \in {0, 1} /\ j \in {0, 1} /\ k \in {0, 1} /\ c0 \in {0, 1} /\ d \in {0, 1}
      BY <1>10, <1>11, <2>1
    <3> HIDE DEF X, Y, Z, U, c0, i, j, k
    <3>2. X - Y - (1 - c0) = Z - (1 - d) * U
      BY <1>12 DEF X, Y, Z, U, c0
    <3>3. (X - U * i) - (Y - U * j) - (1 - c0) # Z - U * k <=> i - j # k - (1 - d)
      BY <3>1, <3>2, SignedSub
    <3> QED BY <3>3 DEF i, j, k
  <2> HIDE DEF SX, SY, SZ
  <2> QED BY <1>11, <2>2
<1>14. "V" \in P' <=> SX - SY - (1 - c0) # SZ
  <2> DEFINE c == CarryIn(P)
  <2>1. A \in Byte /\ m \in Byte /\ r \in Byte /\ c \in {0, 1} /\ d \in {0, 1} /\ A - m - (1 - c) = r - 256 * (1 - d)
    BY <1>1, <1>8, <1>10
  <2> HIDE DEF c
  <2>2. Overflowed(A, 255 - m, r) <=> Bit(A) - Bit(m) # Bit(r) - (1 - d)
    BY <2>1 DEF Overflowed, Sign, Bit, Byte
  <2> QED BY <1>7, <1>13, <2>2
<1>15. OverflowMeansSigned'
  <2>1. Signed(sum.x)' = SX /\ Signed(sum.y)' = SY /\ Signed(sum.z)' = SZ
    BY DEF Signed
  <2> HIDE DEF SX, SY, SZ
  <2> QED BY <1>9, <1>14, <2>1 DEF OverflowMeansSigned
<1> QED BY <1>11, <1>15

LEMMA NoSignedInv == sum' = NoSum => SignedInv'
BY DEF SignedInv, NoSum

LEMMA SignedInvHolds == Spec => []SignedInv
<1>1. Init => SignedInv
  BY DEF Init, SignedInv, NoSum
<1>2. SumInv /\ SumInv' /\ SignedInv /\ [Next]_vars => SignedInv'
  <2> SUFFICES ASSUME SumInv, SumInv', SignedInv, [Next]_vars PROVE SignedInv'
    OBVIOUS
  <2>1. ASSUME NEW v \in Operands, LDA(v) PROVE SignedInv'
    <3>1. ("V" \in P' <=> "V" \in P) /\ ("D" \in P' <=> "D" \in P) /\ sum' = sum
      BY <2>1 DEF LDA, SetNZ, SetFlag
    <3> QED BY <3>1 DEF SignedInv, OverflowMeansSigned, Signed
  <2>2. ASSUME NEW v \in Operands, ADC(v) PROVE SignedInv'
    BY <2>2, AdcSigned, ArithAssumption
  <2>3. ASSUME NEW v \in Operands, SBC(v) PROVE SignedInv'
    BY <2>3, SbcSigned, ArithAssumption
  <2>4. ASSUME NEW v \in Operands, CMP(v) PROVE SignedInv'
    BY <2>4, NoSignedInv DEF CMP
  <2>5. ASSUME NEW f, NEW on, SetFlagTo(f, on) PROVE SignedInv'
    BY <2>5, NoSignedInv DEF SetFlagTo
  <2>6. CASE UNCHANGED vars
    BY <2>6 DEF vars, SignedInv, OverflowMeansSigned, Signed
  <2> QED BY <2>1, <2>2, <2>3, <2>4, <2>5, <2>6 DEF Next
<1> QED BY <1>1, <1>2, SumInvHolds, PTL DEF Spec

\* The V that the last ADC or SBC of a binary operation leaves tells whether the
\* signed result fits, for numbers of any length (the overflow formula of
\* adcBinary and opSbc, and V surviving the loads).
THEOREM OverflowMeansSignedHolds == Spec => []OverflowMeansSigned
<1>1. SignedInv => OverflowMeansSigned
  BY DEF SignedInv, OverflowMeansSigned
<1> QED BY <1>1, SignedInvHolds, PTL

\* compare and a binary opSbc with the carry set leave the same C, Z and N, in
\* decimal mode too.
THEOREM CompareIsSubtractHolds == Spec => CompareIsSubtract
<1> DEFINE flags == {"C", "Z", "N"}
           Same(m) == P' \cap flags = opSbc(A, (P \cup {"C"}) \ {"D"}, m).P \cap flags
<1>1. ASSUME SumInv, NEW m \in Operands, CMP(m) PROVE Same(m)
  <2> DEFINE S == (P \cup {"C"}) \ {"D"}
             total == A + (255 - m) + CarryIn(S)
  <2>1. A \in Byte /\ m \in Byte /\ P' = compare(P, A, m)
    BY <1>1, ArithAssumption DEF SumInv, CMP
  <2>2. opSbc(A, S, m) = Binary(A, S, 255 - m)
    BY DEF opSbc
  <2>3. CarryIn(S) = 1
    BY DEF CarryIn
  <2>4. total % 256 = (A - m) % 256 /\ (total > 255 <=> A >= m)
    <3> HIDE DEF S
    <3> QED BY <2>1, <2>3 DEF Byte
  <2>5. Binary(A, S, 255 - m).P
          = SetNZ(SetFlag(SetFlag(S, "C", total > 255), "V", Overflowed(A, 255 - m, total % 256)),
                  total % 256)
    BY DEF Binary
  <2> HIDE DEF total
  <2> QED BY <2>1, <2>2, <2>4, <2>5 DEF compare, SetNZ, SetFlag
<1>2. SumInv => [\A m \in Operands : CMP(m) => Same(m)]_vars
  BY <1>1
<1> QED BY <1>2, SumInvHolds, PTL DEF CompareIsSubtract
===============================================================================
