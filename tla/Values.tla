------------------------------- MODULE Values -------------------------------
(***************************************************************************)
(* The values the simulated processor computes with: Val carries a type    *)
(* tag and a union that is read through it.  Two registers, the HI/LO pair *)
(* and one word of memory; every instruction reads the union as its own    *)
(* operator does, whatever the instruction before left in it.  Floating    *)
(* point, labels and file pointers are left out.                           *)
(***************************************************************************)
EXTENDS Integers, Bitwise

CONSTANTS
    ByteBits,  \* bits of a byte (8 in the code); a word is four bytes
    Programs   \* sets of instructions: a program uses those of one of them

ASSUME ValuesAssumption == ByteBits \in Nat \ {0}

VARIABLES
    ra, rb,    \* the two operands; ra is also the result
    hilo,      \* the _EIGHT_BYTES result of a multiplication or a division
    mem,       \* the bytes of one word, most significant first
    program

vars == <<ra, rb, hilo, mem, program>>

-----------------------------------------------------------------------------
Byte == 2^ByteBits
Half == 2^(2 * ByteBits)
Word == 2^(4 * ByteBits)

Signed(n, m) == IF n % m >= m \div 2 THEN (n % m) - m ELSE n % m

\* A constructor clears the union and stores the number in its own field.
Short(n) == [type |-> "SHORT", as |-> n % Half]
Integer(n) == [type |-> "INT", as |-> n % Word]
Unsigned(n) == [type |-> "UINT", as |-> n % Word]
Val == {Short(n) : n \in 0..(Half - 1)}
       \union {Integer(n) : n \in 0..(Word - 1)}
       \union {Unsigned(n) : n \in 0..(Word - 1)}

\* The number a value stands for: the field its type tag names.
Number(v) ==
    CASE v.type = "SHORT" -> Signed(v.as, Half)
      [] v.type = "INT"   -> Signed(v.as, Word)
      [] v.type = "UINT"  -> v.as

HalfAt(b) == mem[b] * Byte + mem[b + 1]

\* DataToArray: as many bytes as the type has, most significant first, and
\* zeros after them.
ByteOf(n, k) == (n \div Byte^k) % Byte
WordArrayKeptOrder(v) ==
    LET size == IF v.type = "SHORT" THEN 2 ELSE 4
    IN [k \in 0..3 |-> IF k < size THEN ByteOf(v.as, k) ELSE 0]
WordArray(v) ==
    LET size == IF v.type = "SHORT" THEN 2 ELSE 4
    IN [k \in 0..3 |-> IF k < size THEN ByteOf(v.as, size - 1 - k) ELSE 0]

Register == {"ra", "rb"}
Written(reg, v) ==
    /\ ra' = IF reg = "ra" THEN v ELSE ra
    /\ rb' = IF reg = "rb" THEN v ELSE rb
    /\ UNCHANGED <<hilo, mem, program>>

Init ==
    /\ ra = Integer(0) /\ rb = Integer(0)
    /\ hilo = <<>>
    /\ mem \in {[k \in 0..3 |-> n] : n \in {0, Byte - 1}}
    /\ program \in Programs

-----------------------------------------------------------------------------
LoadConstant(reg) ==
    /\ "li" \in program
    /\ \E n \in 0..(Word - 1) : Written(reg, Integer(n))

Move ==
    /\ "move" \in program
    /\ Written("rb", ra)

\* DoIADD casts both operands to _INT before it adds them.
Add ==
    /\ "addu" \in program
    /\ Written("ra", Integer(Number(ra) + Number(rb)))

\* The operator has a row for operands of one type and for an INT with a SHORT
\* or a UINT, and none for a SHORT with a UINT.  C subtracts as unsigned integers
\* when one operand is.
Subtract ==
    /\ "subu" \in program
    /\ ra.type = rb.type \/ "INT" \in {ra.type, rb.type}
    /\ Written("ra", IF "UINT" \in {ra.type, rb.type} THEN Unsigned(ra.as - rb.as)
                     ELSE Integer(Number(ra) - Number(rb)))

\* mult64: 16-bit halves, their products added up in 32 bits with one carry.
ProductSumNoCarry(ta, tb) ==
    LET a1 == ta % Half  a2 == ta \div Half
        b1 == tb % Half  b2 == tb \div Half
        middle == (a2 * b1 + a1 * b2) % Word
    IN [lo |-> (a1 * b1 + middle * Half) % Word,
        hi |-> (a2 * b2 + middle \div Half) % Word]
ProductSum(ta, tb) ==
    LET a1 == ta % Half  a2 == ta \div Half
        b1 == tb % Half  b2 == tb \div Half
        middle == (a2 * b1 + a1 * b2) % Word
        d1 == (a1 * b1 + middle * Half) % Word
        carry == IF d1 < a1 * b1 \/ d1 < (middle * Half) % Word THEN 1 ELSE 0
    IN [lo |-> d1, hi |-> (a2 * b2 + middle \div Half + carry) % Word]

Complement(n) == Word - 1 - n

Magnitude(v) == IF Number(v) < 0 THEN -Number(v) ELSE Number(v)

\* The sign is applied to the two words apart.
SignedProduct(a, b) ==
    LET d == ProductSum(Magnitude(a), Magnitude(b))
        hi == Complement(d.hi)
    IN IF (Number(a) < 0) = (Number(b) < 0) THEN d
       ELSE [lo |-> (Complement(d.lo) + 1) % Word,
             hi |-> IF Complement(d.lo) # 0 THEN (hi + 1) % Word ELSE hi]

\* Any other pair of types is an assertion failure.
Multiply ==
    /\ "mult" \in program
    /\ ra.type = rb.type
    /\ \/ /\ ra.type = "INT"
          /\ hilo' = SignedProduct(ra, rb)
       \/ /\ ra.type = "UINT"
          /\ hilo' = ProductSum(ra.as, rb.as)
    /\ UNCHANGED <<ra, rb, mem, program>>

\* C divides towards zero.
QuotientFloor(m, n) == IF n > 0 THEN m \div n ELSE (-m) \div (-n)
Quotient(m, n) ==
    LET q == Magnitude(Integer(m)) \div Magnitude(Integer(n))
    IN IF (m < 0) = (n < 0) THEN q ELSE -q

\* div64 checks no operand: a zero divisor, and the least integer by -1, stop
\* the host program and are not taken.
Divide ==
    /\ "div" \in program
    /\ ra.type = "INT" /\ rb.type = "INT"
    /\ rb.as # 0
    /\ ~(Number(ra) = -(Word \div 2) /\ Number(rb) = -1)
    /\ LET q == Quotient(Number(ra), Number(rb))
       IN hilo' = [lo |-> q % Word, hi |-> (Number(ra) - q * Number(rb)) % Word]
    /\ UNCHANGED <<ra, rb, mem, program>>

\* A HILO that is not _EIGHT_BYTES is an assertion failure.
MoveFromHi ==
    /\ "mfhi" \in program
    /\ hilo # <<>>
    /\ Written("ra", Integer(hilo.hi))

MoveFromLo ==
    /\ "mflo" \in program
    /\ hilo # <<>>
    /\ Written("ra", Integer(hilo.lo))

-----------------------------------------------------------------------------
\* The number in the field of a type of what the union holds; the bytes a SHORT
\* does not reach are zero.
Field(v, type) ==
    CASE type = "SHORT" -> Signed(v.as, Half)
      [] type = "INT"   -> Signed(v.as, Word)
      [] type = "UINT"  -> v.as

\* An INT and a UINT are compared as two INTs; otherwise the type of the left
\* operand says how both are read.
Compared(a, b) ==
    LET type == IF {a.type, b.type} = {"INT", "UINT"} THEN "INT" ELSE a.type
    IN [left |-> Field(a, type), right |-> Field(b, type)]
IsLess(a, b)    == LET c == Compared(a, b) IN c.left < c.right
IsGreater(a, b) == LET c == Compared(a, b) IN c.left > c.right
IsEqual(a, b)   == LET c == Compared(a, b) IN c.left = c.right
IsOther(a, b)   == LET c == Compared(a, b) IN c.left # c.right
IsLeast(a, b)   == LET c == Compared(a, b) IN c.left >= c.right
IsMost(a, b)    == LET c == Compared(a, b) IN c.left <= c.right

\* sltu, sleu, sgtu and sgeu name the same functors: the operands alone say
\* whether a comparison is unsigned.
Set(op, truth) ==
    /\ op \in program
    /\ Written("ra", Integer(IF truth THEN 1 ELSE 0))
SetOnLess    == Set("slt", IsLess(ra, rb))
SetOnGreater == Set("sgt", IsGreater(ra, rb))
SetOnEqual   == Set("seq", IsEqual(ra, rb))
SetOnOther   == Set("sne", IsOther(ra, rb))
SetOnLeast   == Set("sge", IsLeast(ra, rb))
SetOnMost    == Set("sle", IsMost(ra, rb))

\* A narrower operand is promoted: the result is a _UINT or an _INT.
Like(v, n) == IF v.type = "UINT" THEN Unsigned(n) ELSE Integer(n)

Bits(v, type) == Field(v, type) % Word
BitsOfBoth(a, b)   == Like(a, Bits(a, a.type) & Bits(b, a.type))
BitsOfEither(a, b) == Like(a, Bits(a, a.type) | Bits(b, a.type))
BitsOfOne(a, b)    == Like(a, Bits(a, a.type) ^^ Bits(b, a.type))

LogicalAnd == "and" \in program /\ Written("ra", BitsOfBoth(ra, rb))
LogicalOr  == "or"  \in program /\ Written("ra", BitsOfEither(ra, rb))
LogicalXor == "xor" \in program /\ Written("ra", BitsOfOne(ra, rb))

\* C defines no shift by a negative amount or by the width and more: none is
\* taken.  What a shift to the right brings in is decided by the operand's
\* type: srl and sra are the same functor body.
Amount == Field(rb, ra.type)
AmountDefined == Amount \in 0..(4 * ByteBits - 1)
ShiftedLeft(v, n)  == Like(v, Bits(v, v.type) * 2^n)
ShiftedRight(v, n) == Like(v, Field(v, v.type) \div 2^n)

ShiftLeft ==
    /\ "sll" \in program
    /\ AmountDefined
    /\ Written("ra", ShiftedLeft(ra, Amount))
ShiftRight ==
    /\ "sra" \in program
    /\ AmountDefined
    /\ Written("ra", ShiftedRight(ra, Amount))

-----------------------------------------------------------------------------
StoreWord ==
    /\ "sw" \in program
    /\ mem' = WordArray(ra)
    /\ UNCHANGED <<ra, rb, hilo, program>>

\* The tag is overwritten: the narrow field of whatever the union holds.
StoreHalf(b) ==
    /\ "sh" \in program
    /\ mem' = [mem EXCEPT ![b] = ByteOf(ra.as, 1), ![b + 1] = ByteOf(ra.as, 0)]
    /\ UNCHANGED <<ra, rb, hilo, program>>

StoreByte(b) ==
    /\ "sb" \in program
    /\ mem' = [mem EXCEPT ![b] = ByteOf(ra.as, 0)]
    /\ UNCHANGED <<ra, rb, hilo, program>>

\* ArrayToData: the bytes read as the type of their own width, then changed to
\* the type asked for.  An unsigned short becomes a _UINT on its way.
ReadWord == Integer(HalfAt(0) * Half + HalfAt(2))
ReadHalf(b) == Short(HalfAt(b))
ReadHalfUnsigned(b) == Unsigned(HalfAt(b))
ReadByte(b) == Integer(Signed(mem[b], Byte))
ReadByteUnsigned(b) == Unsigned(mem[b])

LoadWord(reg) == "lw" \in program /\ Written(reg, ReadWord)
LoadHalf(reg, b) == "lh" \in program /\ Written(reg, ReadHalf(b))
LoadHalfUnsigned(reg, b) == "lhu" \in program /\ Written(reg, ReadHalfUnsigned(b))
LoadByte(reg, b) == "lb" \in program /\ Written(reg, ReadByte(b))
LoadByteUnsigned(reg, b) == "lbu" \in program /\ Written(reg, ReadByteUnsigned(b))

Next ==
    \/ \E reg \in Register :
         \/ LoadConstant(reg)
         \/ LoadWord(reg)
         \/ \E b \in {0, 2} : LoadHalf(reg, b) \/ LoadHalfUnsigned(reg, b)
         \/ \E b \in 0..3 : LoadByte(reg, b) \/ LoadByteUnsigned(reg, b)
    \/ Move \/ Add \/ Subtract
    \/ SetOnLess \/ SetOnGreater \/ SetOnEqual \/ SetOnOther \/ SetOnLeast \/ SetOnMost
    \/ LogicalAnd \/ LogicalOr \/ LogicalXor \/ ShiftLeft \/ ShiftRight
    \/ Multiply \/ Divide \/ MoveFromHi \/ MoveFromLo
    \/ StoreWord
    \/ \E b \in {0, 2} : StoreHalf(b)
    \/ \E b \in 0..3 : StoreByte(b)

Spec == Init /\ [][Next]_vars

-----------------------------------------------------------------------------
\* A multiplication leaves the low word of the product in LO whatever the signs;
\* for signed operands whose product is not negative HI holds the high word too
\* (the halves' carries are all accounted for).
ProductsExact ==
    [][Multiply =>
         LET product == Number(ra) * Number(rb) IN
         /\ hilo'.lo = product % Word
         /\ ra.type = "INT" /\ product >= 0 => hilo'.hi = product \div Word]_vars

\* Multiplication of negative integers is handled: HI:LO is the 64-bit product
\* of signed operands.
SignedProductsExact ==
    [][Multiply /\ ra.type = "INT" =>
         hilo'.hi = ((Number(ra) * Number(rb)) \div Word) % Word]_vars

\* The instructions agree with each other on four-byte operands.
\* What a division leaves in HI and LO is put together again by a
\* multiplication and an addition: LO * divisor + HI = dividend, with a
\* remainder smaller than the divisor and of the dividend's sign.
\* A shift to the left leaves the low word that mult64 leaves for the power of
\* two; one to the right leaves what div64 leaves, one less for a negative
\* number that is not divided evenly, and brings no sign into a _UINT.
\* slt answers with the sign of the difference subu makes, corrected for its
\* overflow, and sge and sle with the negation of slt, the operands as they are or
\* swapped.  Unsigned operands compare by the borrow, when both are.
\* A bit-wise or is the sum without the bits of both, and an exclusive or without
\* them twice: no carry is lost or made.
Width4(v) == v.type # "SHORT"
DivisionRecombines ==
    Divide =>
      LET q == Signed(hilo'.lo, Word)  r == Signed(hilo'.hi, Word) IN
      /\ q * Number(rb) + r = Number(ra)
      /\ Magnitude(Integer(r)) < Magnitude(rb)
      /\ r # 0 => (r < 0) = (Number(ra) < 0)
ShiftsScale ==
    LET power == 2^Amount IN
    /\ ShiftLeft /\ Width4(ra) => ra'.as = ProductSum(ra.as, power % Word).lo
    /\ ShiftRight /\ ra.type = "UINT" => ra.as - ra'.as * power \in 0..(power - 1)
    /\ ShiftRight /\ ra.type = "INT" =>
         Number(ra') = Quotient(Number(ra), power)
                       - (IF Number(ra) < 0 /\ Number(ra) % power # 0 THEN 1 ELSE 0)
ComparisonsSubtract ==
    (SetOnLess \/ SetOnLeast \/ SetOnMost) /\ Width4(ra) /\ Width4(rb) =>
      LET d == Signed(ra.as - rb.as, Word)
          negative(v) == Signed(v.as, Word) < 0
          less == IF ra.type = "UINT" /\ rb.type = "UINT"
                  THEN ra.as - rb.as < 0
                  ELSE (d < 0) # (negative(ra) # negative(rb) /\ (d < 0) # negative(ra))
      IN /\ SetOnLess => (ra'.as = 1) = less
         /\ SetOnLeast => (ra'.as = 1) = ~less
         /\ SetOnMost => (ra'.as = 0) = IsLess(rb, ra)
BitsAdd ==
    Width4(ra) /\ Width4(rb) =>
      LET both == BitsOfBoth(ra, rb).as IN
      /\ LogicalOr => ra'.as + both = ra.as + rb.as
      /\ LogicalXor => ra'.as + 2 * both = ra.as + rb.as
InstructionsAgree ==
    [][DivisionRecombines /\ ShiftsScale /\ ComparisonsSubtract /\ BitsAdd]_vars

\* A store writes its own bytes and no other, and the load of its width gives
\* the number back, cut to that width and extended as the load says.  A word
\* store is asked this of the four-byte types only: see StoreWord.  The byte
\* loaded with its sign is the one without it under a mask, or the one without
\* it as an _INT shifted up and down again.
StoresKeepNumbers ==
    [][/\ StoreWord /\ ra.type # "SHORT" => ReadWord' = Integer(ra.as)
       /\ \A b \in {0, 2} : StoreHalf(b) =>
            /\ Number(ReadHalf(b)') = Signed(ra.as, Half)
            /\ Number(ReadHalfUnsigned(b)') = ra.as % Half
            /\ \A c \in 0..3 \ {b, b + 1} : mem'[c] = mem[c]
       /\ \A b \in 0..3 : StoreByte(b) =>
            /\ Number(ReadByte(b)') = Signed(ra.as, Byte)
            /\ Number(ReadByteUnsigned(b)') = ra.as % Byte
            /\ BitsOfBoth(ReadByte(b)', Integer(Byte - 1)).as = ra.as % Byte
            /\ LET up == ShiftedLeft(Integer(ReadByteUnsigned(b)'.as), 3 * ByteBits)
               IN ShiftedRight(up, 3 * ByteBits) = ReadByte(b)'
            /\ \A c \in 0..3 \ {b} : mem'[c] = mem[c]]_vars
=============================================================================
