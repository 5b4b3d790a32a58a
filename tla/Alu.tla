---------------------------------- MODULE Alu ----------------------------------
(***************************************************************************)
(* The CPU's arithmetic (internal/arm/arithmetic.go) and the way words of  *)
(* memory arrive in a register (internal/arm/memory.go), as functions of   *)
(* their operands.  A word is the natural number its bits stand for; its   *)
(* width is a parameter, 32 in the program, a multiple of four so that     *)
(* halfwords and bytes exist, with room for the bits of a status register. *)
(***************************************************************************)
EXTENDS Integers, FiniteSetsExt

CONSTANTS
  Width,        \* bits of a word: 32 in the program
  Top,          \* the weight of a word's sign bit
  AmountWidth   \* bits of a shift amount kept from a register: 8, a uint8

ASSUME TopAssumption == Top \in Nat \ {0}
ASSUME WidthAssumption ==
  /\ Width \in Nat /\ Width >= 12 /\ Width % 4 = 0 /\ Top = 2 ^ (Width - 1)
  /\ AmountWidth \in Nat

Size == 2 * Top
Word == 0 .. Size - 1
Wrap(x) == x % Size                     \* uint32 arithmetic wraps around
Negative(x) == x >= Top
Signed(x) == IF Negative(x) THEN x - Size ELSE x          \* int32(x)

Bit(x, i) == (x \div 2 ^ i) % 2 = 1
Bits == 0 .. Width - 1
OfBits(S) ==
  LET sum[n \in 0 .. Width] ==
        IF n = 0 THEN 0 ELSE sum[n - 1] + (IF n - 1 \in S THEN 2 ^ (n - 1) ELSE 0)
  IN  sum[Width]
And(x, y) == OfBits({i \in Bits : Bit(x, i) /\ Bit(y, i)})
Or(x, y) == OfBits({i \in Bits : Bit(x, i) \/ Bit(y, i)})
Xor(x, y) == OfBits({i \in Bits : Bit(x, i) # Bit(y, i)})
Not(x) == Size - 1 - x

Aligned(x, n) == n * (x \div n)
-----------------------------------------------------------------------------
\* What an addition or a subtraction computes: the word and the flags.
\* ADD and ADC (c the carry that comes in; ADD without one is c = 0).
Added(a, b, c) ==
  LET r == Wrap(a + b + c) IN
    [value |-> r, n |-> Negative(r), z |-> r = 0, c |-> a + b + c >= Size,
     v |-> Negative(a) = Negative(b) /\ Negative(b) # Negative(r)]

\* A bug: the carry of a subtraction without the borrow that comes in.
SubtractedUnborrowed(a, b, c) ==
  LET r == Wrap((a - b) - c) IN
    [value |-> r, n |-> Negative(r), z |-> r = 0, c |-> a >= b,
     v |-> Negative(a) # Negative(b) /\ Negative(a) # Negative(r)]

\* SUB and SBC (c the borrow that comes in).
Subtracted(a, b, c) ==
  LET r == Wrap((a - b) - c) IN
    [value |-> r, n |-> Negative(r), z |-> r = 0, c |-> a >= b + c,
     v |-> Negative(a) # Negative(b) /\ Negative(a) # Negative(r)]

\* SetZeroAndSignFlag, beside a carry and an overflow that come from elsewhere.
Logical(r, carry, overflow) ==
  [value |-> r, n |-> Negative(r), z |-> r = 0, c |-> carry, v |-> overflow]

\* The carry a multiplication leaves depends on the Booth recoding of its
\* operands: any value (the handlers take it from the step).  Only the low
\* word of a product, or its two halves, reach the registers.
Product(a, b) == Wrap(a * b)

LongProduct(signed, a, b, hi, lo) ==
  LET p == IF signed THEN Signed(a) * Signed(b) ELSE a * b
      r == (p + hi * Size + lo) % (Size * Size)
  IN  [hi |-> r \div Size, lo |-> r % Size]
-----------------------------------------------------------------------------
\* Amounts beyond the width are all alike.  A bug: the width too.
AdjustedToWidth(amount) == IF amount > Width THEN Width ELSE amount
Adjusted(amount) == IF amount > Width THEN Width + 1 ELSE amount

Shift(r, c) == [value |-> r, carry |-> c]

LSL(x, amount, c) ==
  LET adj == Adjusted(amount) IN
    IF adj = 0 THEN Shift(x, c)
    ELSE Shift(Wrap(x * 2 ^ adj), Negative(Wrap(x * 2 ^ (adj - 1))))

\* An immediate amount of 0 stands for Width.
Effective(amount, immediate) ==
  IF immediate /\ amount = 0 THEN Width ELSE Adjusted(amount)

LSR(x, amount, c, immediate) ==
  LET adj == Effective(amount, immediate) IN
    IF adj = 0 THEN Shift(x, c) ELSE Shift(x \div 2 ^ adj, Bit(x, adj - 1))

ASR(x, amount, c, immediate) ==
  LET adj == Effective(amount, immediate) IN
    IF adj = 0 THEN Shift(x, c)
    ELSE Shift(Wrap(Signed(x) \div 2 ^ adj), Bit(Signed(x), adj - 1))

Rotated(x, n) == (x \div 2 ^ n) + Wrap(x * 2 ^ (Width - n))

\* An immediate amount of 0 rotates by one through the carry.
ROR(x, amount, c, immediate) ==
  IF amount = 0
  THEN IF immediate
       THEN Shift((x \div 2) + (IF c THEN Top ELSE 0), Bit(x, 0))
       ELSE Shift(x, c)
  ELSE LET r == Rotated(x, amount % Width) IN Shift(r, Negative(r))

ShiftKind == {"LSL", "LSR", "ASR", "ROR"}

\* Only the low AmountWidth bits of a register count as an amount.
DoShift(kind, x, amount, c, immediate) ==
  LET n == amount % 2 ^ AmountWidth IN
    CASE kind = "LSL" -> LSL(x, n, c)
      [] kind = "LSR" -> LSR(x, n, c, immediate)
      [] kind = "ASR" -> ASR(x, n, c, immediate)
      [] kind = "ROR" -> ROR(x, n, c, immediate)

\* An operand that is part of the instruction: a value rotated by an even
\* amount; the last bit rotated out is the carry.
Immediate(value, rot, c) ==
  IF rot = 0 THEN Shift(value, c) ELSE Shift(Rotated(value, rot), Bit(value, rot - 1))
-----------------------------------------------------------------------------
\* Loads: `word` is the aligned word of memory that holds the address.
HalfBits == Width \div 2
ByteBits == Width \div 4

HalfOf(word, address) ==
  (word \div 2 ^ (HalfBits * ((address \div 2) % 2))) % 2 ^ HalfBits
ByteOf(word, address) == (word \div 2 ^ (ByteBits * (address % 4))) % 2 ^ ByteBits

Extended(x, n) == IF Bit(x, n - 1) THEN x + Size - 2 ^ n ELSE x

Loaded(kind, word, address) ==
  CASE kind = "word" -> word
    [] kind = "byte" -> ByteOf(word, address)
    [] kind = "wordRotate" -> Rotated(word, ByteBits * (address % 4))
    [] kind = "byteSigned" -> Extended(ByteOf(word, address), ByteBits)
    [] kind = "halfRotate" ->
         LET half == HalfOf(word, address) IN
           IF address % 2 = 1 THEN Rotated(half, ByteBits) ELSE half
    [] kind = "halfSigned" ->
         IF address % 2 = 1 THEN Extended(ByteOf(word, address), ByteBits)
         ELSE Extended(HalfOf(word, address), HalfBits)
=============================================================================
