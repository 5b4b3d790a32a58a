------------------------------ MODULE EepromProofs ------------------------------
(***************************************************************************)
(* An EEPROM of any geometry takes the frames of its program for what they *)
(* are: a block that is written has the bits that were sent, an answer has *)
(* the bits of the block, and nothing else is touched.  The chip is always *)
(* as far in a frame as the program is, live and saved.                    *)
(***************************************************************************)
EXTENDS CartridgeProofs

\* What is added below a place does not change what is above it.
LEMMA AddedBelow ==
  ASSUME NEW u \in Nat, u > 0, NEW r \in Nat, r > 0, NEW q \in Nat, NEW v \in Nat, v < u
  PROVE  (u * q + v) \div (u * r) = q \div r
<1> DEFINE k == q \div r
           s == q % r
<1>1. k \in Nat /\ s \in 0 .. r - 1 /\ q = r * k + s
  OBVIOUS
<1> HIDE DEF k, s
<1> DEFINE d == u * r
           x == u * s + v
<1>2. d \in Nat /\ d > 0 /\ u * r \in Nat
  BY DEF d
<1>3. u * q = d * k + u * s
  <2>1. u * q = u * (r * k) + u * s
    <3> DEFINE y == r * k
    <3>1. y \in Nat /\ q = y + s
      BY <1>1
    <3> HIDE DEF y
    <3>2. u * (y + s) = u * y + u * s
      BY <1>1, <3>1
    <3>3. QED
      BY <3>1, <3>2 DEF y
  <2>2. u * (r * k) = (u * r) * k
    BY <1>1
  <2>3. QED
    BY <2>1, <2>2
<1>4. x \in 0 .. d - 1
  <2>1. s + 1 <= r
    BY <1>1
  <2>2. u * (s + 1) <= u * r
    BY <2>1, <1>1
  <2>3. u * (s + 1) = u * s + u
    BY <1>1
  <2>4. u * s \in Nat
    BY <1>1
  <2>5. QED
    BY <1>2, <2>2, <2>3, <2>4
<1>5. u * q + v = d * k + x
  <2> DEFINE a == d * k
             b == u * s
             c == u * q
  <2>1. a \in Nat /\ b \in Nat /\ c \in Nat /\ c = a + b /\ x = b + v
    BY <1>1, <1>2, <1>3
  <2> HIDE DEF a, b, c, x
  <2>2. c + v = a + x
    BY <2>1
  <2>3. QED
    BY <2>2 DEF a, c
<1> HIDE DEF d, x
<1>6. (d * k + x) \div d = k
  BY <1>1, <1>2, <1>4
<1>7. QED
  BY <1>5, <1>6 DEF d, k

\* A power is a power of another times a third.
LEMMA PowersMultiply ==
  ASSUME NEW a \in Nat, NEW b \in Nat
  PROVE  2 ^ (a + b) = 2 ^ a * 2 ^ b
<1> DEFINE T == {n \in Nat : 2 ^ (a + n) # 2 ^ a * 2 ^ n}
<1>1. T = {}
  <2> SUFFICES ASSUME T # {} PROVE FALSE
    OBVIOUS
  <2>1. PICK n \in T : \A y \in T : n <= y
    BY NatLeast
  <2>2. n \in Nat /\ 2 ^ (a + n) # 2 ^ a * 2 ^ n
    BY <2>1
  <2>3. 2 ^ a \in Nat
    BY Powers
  <2>4. n # 0
    <3>1. 2 ^ (a + 0) = 2 ^ a /\ 2 ^ 0 = 1 /\ 2 ^ a * 1 = 2 ^ a
      BY <2>3
    <3>2. QED
      BY <2>2, <3>1
  <2>5. n - 1 \in Nat /\ n - 1 \notin T
    BY <2>1, <2>2, <2>4
  <2> DEFINE m == n - 1
  <2>6. m \in Nat /\ 2 ^ (a + m) = 2 ^ a * 2 ^ m /\ n = m + 1 /\ a + n = (a + m) + 1 /\ a + m \in Nat
    BY <2>5, <2>2
  <2> HIDE DEF m, T
  <2>7. 2 ^ (m + 1) = 2 * 2 ^ m /\ 2 ^ ((a + m) + 1) = 2 * 2 ^ (a + m) /\ 2 ^ m \in Nat
    BY <2>6, Powers
  <2>8. 2 * (2 ^ a * 2 ^ m) = 2 ^ a * (2 * 2 ^ m)
    <3> DEFINE x == 2 ^ a
               y == 2 ^ m
    <3>1. x \in Nat /\ y \in Nat
      BY <2>3, <2>7
    <3> HIDE DEF x, y
    <3>2. 2 * (x * y) = x * (2 * y)
      BY <3>1
    <3>3. QED
      BY <3>2 DEF x, y
  <2>9. 2 ^ (a + n) = 2 ^ a * 2 ^ n
    BY <2>6, <2>7, <2>8
  <2>10. QED
    BY <2>2, <2>9
<1>2. b \notin T
  BY <1>1
<1>3. QED
  BY <1>2

\* Halving once more, for a power of any size.
LEMMA HalvedOnce ==
  ASSUME NEW x \in Nat, NEW n \in Nat
  PROVE  /\ x \div 2 ^ n \in Nat
         /\ 2 * (x \div 2 ^ (n + 1)) + ((x \div 2 ^ n) % 2) = x \div 2 ^ n
<1> DEFINE p == 2 ^ n
           q == x \div p
           r == x % p
<1>1. p \in Nat /\ p >= 1 /\ 2 ^ (n + 1) = 2 * p
  BY Powers
<1> HIDE DEF p
<1>2. q \in Nat /\ r \in 0 .. p - 1 /\ x = p * q + r
  BY <1>1
<1> HIDE DEF q, r
<1>3. (p * q + r) \div (p * 2) = q \div 2
  BY <1>1, <1>2, AddedBelow
<1>4. p * 2 = 2 * p
  BY <1>1
<1>5. x \div 2 ^ (n + 1) = q \div 2
  BY <1>1, <1>2, <1>3, <1>4
<1>6. 2 * (q \div 2) + (q % 2) = q
  <2>1. \A m \in Nat : 2 * (m \div 2) + (m % 2) = m
    OBVIOUS
  <2>2. QED
    BY <1>2, <2>1
<1>7. QED
  BY <1>2, <1>5, <1>6 DEF q, p

\* The next bit of a cell: it is set, those before it stay, and those after
\* it are still 0.
LEMMA BitAdded ==
  ASSUME NEW p \in 0 .. CellBits - 1, NEW old \in Nat, old % 2 ^ (CellBits - p) = 0, NEW value \in {0, 1},
         NEW new, new = IF value = 1 THEN old + 2 ^ (CellBits - 1 - p) ELSE old
  PROVE  /\ new \in Nat
         /\ (old \div 2 ^ (CellBits - 1 - p)) % 2 = 0
         /\ (new \div 2 ^ (CellBits - 1 - p)) % 2 = value
         /\ \A i \in 0 .. p - 1 : (new \div 2 ^ (CellBits - 1 - i)) % 2 = (old \div 2 ^ (CellBits - 1 - i)) % 2
         /\ p < CellBits - 1 => new % 2 ^ (CellBits - (p + 1)) = 0
<1> DEFINE n == CellBits - 1 - p
           w == 2 ^ n
           u == 2 ^ (n + 1)
           q == old \div u
<1>1. CellBits \in Nat \ {0} /\ n \in Nat /\ n + 1 = CellBits - p /\ CellBits - (p + 1) = n
  <2>1. CellBits \in Nat \ {0}
    BY EepromAssumption DEF EepromGeometry
  <2>2. QED
    BY <2>1
<1>2. w \in Nat /\ w > 0 /\ u = 2 * w
  BY <1>1, Powers
<1>3. old % u = 0
  BY <1>1
<1>4. q \in Nat /\ old = u * q
  <2>1. u \in Nat /\ u > 0
    BY <1>2
  <2> HIDE DEF u
  <2>2. QED
    BY <1>3, <2>1
<1>5. new = u * q + value * w /\ value * w \in Nat /\ value * w < u
  <2>1. new = IF value = 1 THEN old + w ELSE old
    OBVIOUS
  <2> HIDE DEF w, u, q
  <2>2. CASE value = 1
    BY <1>2, <1>4, <2>1, <2>2
  <2>3. CASE value = 0
    BY <1>2, <1>4, <2>1, <2>3
  <2>4. QED
    BY <2>2, <2>3
<1> HIDE DEF w, u, q, n
<1>6. new = w * (2 * q + value) /\ old = w * (2 * q)
  <2>1. (2 * w) * q = w * (2 * q)
    BY <1>2, <1>4
  <2>2. w * (2 * q + value) = w * (2 * q) + w * value
    BY <1>2, <1>4
  <2>3. w * value = value * w
    BY <1>2
  <2>4. QED
    BY <1>2, <1>4, <1>5, <2>1, <2>2, <2>3
<1>7. \A x \in Nat : (w * x) \div w = x /\ (w * x) % w = 0
  BY <1>2
<1>8. new \div w = 2 * q + value /\ old \div w = 2 * q /\ new % w = 0 /\ new \in Nat
  <2>1. 2 * q + value \in Nat /\ 2 * q \in Nat
    BY <1>4
  <2>2. new \in Nat
    BY <1>2, <1>6, <2>1
  <2>3. QED
    BY <1>6, <1>7, <2>1, <2>2
<1>9. (2 * q + value) % 2 = value /\ (2 * q) % 2 = 0
  BY <1>4
<1>10. ASSUME NEW i \in 0 .. p - 1
       PROVE  new \div 2 ^ (CellBits - 1 - i) = old \div 2 ^ (CellBits - 1 - i)
  <2> DEFINE m == p - 1 - i
             r == 2 ^ m
  <2>1. m \in Nat /\ CellBits - 1 - i = (n + 1) + m
    <3>1. p \in Nat /\ i \in Nat /\ i <= p - 1
      BY <1>1
    <3>2. QED
      BY <1>1, <3>1 DEF n
  <2>2. r \in Nat /\ r > 0
    BY <2>1, Powers
  <2>3. 2 ^ (CellBits - 1 - i) = u * r
    BY <1>1, <2>1, PowersMultiply DEF u
  <2> HIDE DEF m, r
  <2>4. u \in Nat /\ u > 0
    BY <1>2
  <2>5. (u * q + value * w) \div (u * r) = q \div r
    BY <1>4, <1>5, <2>2, <2>4, AddedBelow
  <2>6. (u * q + 0) \div (u * r) = q \div r
    BY <1>4, <2>2, <2>4, AddedBelow
  <2>7. u * q + 0 = old
    BY <1>4, <2>4
  <2>8. QED
    BY <1>5, <2>3, <2>5, <2>6, <2>7
<1>11. CellBits - (p + 1) = n /\ CellBits - 1 - p = n
  BY <1>1 DEF n
<1>12. (old \div 2 ^ (CellBits - 1 - p)) % 2 = 0 /\ (new \div 2 ^ (CellBits - 1 - p)) % 2 = value
  BY <1>8, <1>9, <1>11 DEF w
<1>13. new % 2 ^ (CellBits - (p + 1)) = 0
  BY <1>8, <1>11 DEF w
<1>14. QED
  BY <1>8, <1>10, <1>12, <1>13

\* A bit is at its place in its cell.
LEMMA BitPlace ==
  ASSUME NEW j \in Nat, j < BlockBits
  PROVE  /\ j \div CellBits \in 0 .. BlockSize - 1 /\ (j % CellBits) \in 0 .. CellBits - 1
         /\ j = CellBits * (j \div CellBits) + (j % CellBits)
<1>1. CellBits \in Nat \ {0}
  BY EepromAssumption DEF EepromGeometry
<1>2. j % CellBits \in 0 .. CellBits - 1 /\ j = CellBits * (j \div CellBits) + (j % CellBits)
  BY <1>1
<1>3. QED
  BY <1>2, BitInBlock

\* The states of a chip within a frame.
AddressToWrite == {"WriteMode", "GetAddress", "Writing", "EatDummy"}
AddressToRead == {"ReadMode", "GetAddress", "EatDummy"}
BitsToWrite == {"WriteMode", "Writing", "EatDummy"}
EndToWrite == {"WriteMode", "EatDummy"}
EndToRead == {"ReadMode", "EatDummy"}
DummiesToRead == Reading \cup {"DummyNibble"}

\* The bits of an address.
Width == Sizes[chip].bits

\* Of a block at `b`, the first `t` bits are those of `d`, and the others are 0.
Holds(m, b, d, t) ==
  /\ \A c \in 0 .. BlockSize - 1 : m[b + c] \in Nat
  /\ \A j \in 0 .. t - 1 : CellBit(m, b, j) = d[j + 1]
  /\ \A c \in 0 .. BlockSize - 1 : t <= CellBits * c => m[b + c] = 0
  /\ t < BlockBits => m[b + t \div CellBits] % 2 ^ (CellBits - (t % CellBits)) = 0

\* How far a chip `e` with the memory `m` is in the frame `f`: it is at rest,
\* or it has taken what was sent of the command, of the address or of the
\* block, or it has given what was received of the answer.
AtRest(e, f) ==
  f = NoFrame /\ e.state \in {AcceptCommand, Busy} /\ e.serialBuffer = 0 /\ e.transmittedBits = 0

InCommand(e, f) ==
  /\ f.sent \in {0, 1} /\ f.got = <<>>
  /\ e.state = AcceptCommand /\ e.transmittedBits = f.sent /\ e.serialBuffer = f.sent

InAddress(e, f) ==
  /\ f.sent \in 2 .. Width + 1 /\ f.got = <<>>
  /\ e.state = IF f.op = "write" THEN AddressToWrite ELSE AddressToRead
  /\ e.transmittedBits = f.sent - 2
  /\ e.serialBuffer = f.block \div 2 ^ (Width - e.transmittedBits)

InBlock(e, f, m) ==
  /\ f.op = "write" /\ f.sent \in Width + 2 .. Width + 1 + BlockBits
  /\ e.state = BitsToWrite /\ e.transmittedBits = f.sent - 2 - Width
  /\ e.size = chip =>
       e.address = f.block * BlockSize /\ Holds(m, e.address, f.data, e.transmittedBits)

AtEndToWrite(e, f, m) ==
  /\ f.op = "write" /\ f.sent = Width + 2 + BlockBits /\ e.state = EndToWrite
  /\ e.size = chip => Holds(m, f.block * BlockSize, f.data, BlockBits)

AtEndToRead(e, f) ==
  /\ f.op = "read" /\ f.sent = Width + 2 /\ f.got = <<>> /\ e.state = EndToRead
  /\ e.size = chip => e.address = f.block * BlockSize

InDummies(e, f) ==
  /\ f.op = "read" /\ f.sent \in Width + 3 .. Width + 2 + DummyBits /\ f.got = <<>>
  /\ e.state = DummiesToRead /\ e.transmittedBits = f.sent - 3 - Width
  /\ e.size = chip => e.address = f.block * BlockSize

InAnswer(e, f, m) ==
  /\ f.op = "read" /\ f.sent \in Width + 3 + DummyBits .. Width + 2 + DummyBits + BlockBits
  /\ e.state = Reading /\ e.transmittedBits = f.sent - 3 - Width - DummyBits
  /\ e.size = chip =>
       /\ e.address = f.block * BlockSize
       /\ f.got = [k \in 1 .. e.transmittedBits |-> CellBit(m, e.address, k - 1)]

\* A frame that the program sends.
SomeFrame(f) == f.op \in {"read", "write"} /\ f.block * BlockSize < Sizes[chip].size

InFrame(e, f, m) ==
  /\ SomeFrame(f)
  /\ \/ InCommand(e, f)
     \/ InAddress(e, f)
     \/ InBlock(e, f, m)
     \/ AtEndToWrite(e, f, m)
     \/ AtEndToRead(e, f)
     \/ InDummies(e, f)
     \/ InAnswer(e, f, m)

Stage(e, f, m) == AtRest(e, f) \/ InFrame(e, f, m)

\* The bits of a frame, one after the other.
LEMMA FrameBitsAre ==
  ASSUME NEW f, IsFrame(f), chip \in {"4K", "64K"}
  PROVE  /\ Width \in Nat \ {0} /\ BlockBits \in Nat \ {0}
         /\ Len(FrameBits(f)) = IF f.op = "write" THEN Width + BlockBits + 3 ELSE Width + 3
         /\ FrameBits(f)[1] = 1 /\ FrameBits(f)[2] = IF f.op = "write" THEN 0 ELSE 1
         /\ \A k \in 1 .. Width : FrameBits(f)[k + 2] = (f.block \div 2 ^ (Width - k)) % 2
         /\ f.op = "write" =>
              \A k \in 1 .. BlockBits : FrameBits(f)[k + 2 + Width] = f.data[k] /\ f.data[k] \in {0, 1}
<1> DEFINE b == BitsOf(f.block, Width)
<1>1. /\ BlockSize \in Nat \ {0} /\ CellBits \in Nat \ {0} /\ BlockBits = BlockSize * CellBits
      /\ Width \in Nat \ {0}
  BY EepromAssumption DEF EepromGeometry, BlockBits, Width
<1>2. BlockBits \in Nat \ {0}
  BY <1>1
<1>3. b \in Seq({0, 1})
  BY <1>1, BitsAreBits DEF IsFrame
<1>4. /\ Len(b) = Width
      /\ \A k \in 1 .. Width : b[k] = (f.block \div 2 ^ (Width - k)) % 2
  <2>1. b = [k \in 1 .. Width |-> (f.block \div 2 ^ (Width - k)) % 2]
    BY Zenon DEF BitsOf
  <2>2. DOMAIN b = 1 .. Width
    BY <2>1
  <2>3. Len(b) = Width
    BY <1>1, <1>3, <2>2
  <2>4. QED
    BY <2>1, <2>3
<1>5. ASSUME f.op = "write"
      PROVE  f.data \in Seq({0, 1}) /\ Len(f.data) = BlockBits
  <2>1. f.data \in [1 .. BlockBits -> {0, 1}]
    BY <1>5, EepromAssumption DEF EepromGeometry, IsFrame
  <2>2. QED
    BY <1>2, <2>1
<1>6. f.op = "write" => FrameBits(f) = <<1, 0>> \o b \o f.data \o <<0>>
  BY DEF FrameBits, Width
<1>7. f.op # "write" => FrameBits(f) = <<1, 1>> \o b \o <<0>>
  BY DEF FrameBits, Width
<1> HIDE DEF b
<1>8. CASE f.op = "write"
  <2> DEFINE d == f.data
             s == <<1, 0>> \o b
             u == s \o d
  <2>1. d \in Seq({0, 1}) /\ Len(d) = BlockBits
    BY <1>5, <1>8
  <2> HIDE DEF d
  <2>2. /\ s \in Seq({0, 1}) /\ Len(s) = Width + 2 /\ s[1] = 1 /\ s[2] = 0
        /\ \A k \in 1 .. Width : s[k + 2] = b[k]
    BY <1>1, <1>3, <1>4
  <2> HIDE DEF s
  <2>3. /\ u \in Seq({0, 1}) /\ Len(u) = Width + 2 + BlockBits
        /\ \A k \in 1 .. Width + 2 : u[k] = s[k]
        /\ \A k \in 1 .. BlockBits : u[k + 2 + Width] = d[k]
    BY <1>1, <1>2, <2>1, <2>2
  <2> HIDE DEF u
  <2>4. FrameBits(f) = u \o <<0>>
    BY <1>6, <1>8 DEF u, s, d
  <2>5. /\ Len(FrameBits(f)) = Width + BlockBits + 3
        /\ \A k \in 1 .. Width + 2 + BlockBits : FrameBits(f)[k] = u[k]
    <3> DEFINE g == u \o <<0>>
    <3>1. Len(u) \in Nat /\ <<0>> \in Seq({0, 1}) /\ Len(<<0>>) = 1
      BY <2>3
    <3>2. Len(g) = Len(u) + 1 /\ \A k \in 1 .. Len(u) : g[k] = u[k]
      BY <2>3, <3>1
    <3> HIDE DEF g
    <3>3. Len(g) = Width + BlockBits + 3
      BY <1>1, <1>2, <2>3, <3>2
    <3>4. FrameBits(f) = g
      BY <2>4 DEF g
    <3>5. QED
      BY <2>3, <3>2, <3>3, <3>4
  <2>6. \A k \in 1 .. Width + 2 : FrameBits(f)[k] = s[k]
    BY <1>1, <1>2, <2>3, <2>5
  <2>7. FrameBits(f)[1] = 1 /\ FrameBits(f)[2] = 0
    BY <1>1, <2>2, <2>6
  <2>8. \A k \in 1 .. Width : FrameBits(f)[k + 2] = (f.block \div 2 ^ (Width - k)) % 2
    <3>1. \A k \in 1 .. Width : k + 2 \in 1 .. Width + 2
      BY <1>1
    <3>2. QED
      BY <1>4, <2>2, <2>6, <3>1
  <2>9. \A k \in 1 .. BlockBits : FrameBits(f)[k + 2 + Width] = d[k] /\ d[k] \in {0, 1}
    <3>1. \A k \in 1 .. BlockBits : k + 2 + Width \in 1 .. Width + 2 + BlockBits
      BY <1>1, <1>2
    <3>2. \A k \in 1 .. BlockBits : d[k] \in {0, 1}
      BY <2>1
    <3>3. QED
      BY <2>3, <2>5, <3>1, <3>2
  <2>10. QED
    BY <1>1, <1>2, <1>8, <2>5, <2>7, <2>8, <2>9 DEF d
<1>9. CASE f.op # "write"
  <2> DEFINE s == <<1, 1>> \o b
  <2>1. /\ s \in Seq({0, 1}) /\ Len(s) = Width + 2 /\ s[1] = 1 /\ s[2] = 1
        /\ \A k \in 1 .. Width : s[k + 2] = b[k]
    BY <1>1, <1>3, <1>4
  <2> HIDE DEF s
  <2>2. FrameBits(f) = s \o <<0>>
    BY <1>7, <1>9 DEF s
  <2>3. Len(FrameBits(f)) = Width + 3 /\ \A k \in 1 .. Width + 2 : FrameBits(f)[k] = s[k]
    BY <1>1, <2>1, <2>2
  <2>4. FrameBits(f)[1] = 1 /\ FrameBits(f)[2] = 1
    BY <1>1, <2>1, <2>3
  <2>5. \A k \in 1 .. Width : FrameBits(f)[k + 2] = (f.block \div 2 ^ (Width - k)) % 2
    <3>1. \A k \in 1 .. Width : k + 2 \in 1 .. Width + 2
      BY <1>1
    <3>2. QED
      BY <1>4, <2>1, <2>3, <3>1
  <2>6. QED
    BY <1>1, <1>2, <1>9, <2>3, <2>4, <2>5
<1>10. QED
  BY <1>8, <1>9

\* What a bit does to a chip, in each of its states.
LEMMA WriteIs ==
  ASSUME NEW value, NEW ok, EEPROMWrite(value, ok), IsEeprom(eeprom),
         NEW n, n = Shifted(eeprom, value)
  PROVE  /\ eeprom.state = AcceptCommand =>
              /\ eeprom' = IF n.transmittedBits = 2 THEN CommandTaken(n) ELSE n
              /\ store' = store /\ eepromReady' = eepromReady
         /\ eeprom.state = AddressToWrite =>
              /\ eeprom' = IF AddressComplete(n) THEN AddressTaken(n) ELSE n
              /\ store' = IF AddressComplete(n)
                          THEN MemorySet(store, AddressOf(n) .. AddressOf(n) + BlockSize - 1, 0, ok) ELSE store
              /\ eepromReady' = eepromReady
         /\ eeprom.state = AddressToRead =>
              /\ eeprom' = IF AddressComplete(n) THEN AddressTaken(n) ELSE n
              /\ store' = store /\ eepromReady' = eepromReady
         /\ eeprom.state = EndToRead =>
              /\ eeprom' = ResetSerialBuffer([n EXCEPT !.state = DummiesToRead])
              /\ store' = store /\ eepromReady' = eepromReady
         /\ eeprom.state = EndToWrite =>
              /\ eeprom' = ResetSerialBuffer([n EXCEPT !.state = Busy])
              /\ store' = store
<1> DEFINE st == eeprom.state
<1>1. n.state = st
  <2> DEFINE F(x) == EepromOf(eeprom.size, eeprom.detectSize, eeprom.state, eeprom.address, x, eeprom.transmittedBits + 1)
  <2>1. n = F(2 * eeprom.serialBuffer + value)
    BY EepromIs, ShiftedOf
  <2>2. \A x : F(x).state = eeprom.state
    BY DEF EepromOf
  <2>3. QED
    BY <2>1, <2>2
<1>2. /\ st \cap {"Reading", "Busy"} # {} => st \notin {AcceptCommand, AddressToWrite, AddressToRead, EndToRead, EndToWrite}
      /\ st = AcceptCommand => st \notin {AddressToWrite, AddressToRead, EndToRead, EndToWrite}
      /\ "GetAddress" \in st => st \notin {AcceptCommand, EndToRead, EndToWrite}
      /\ "Writing" \in st => st \notin {AcceptCommand, AddressToRead, EndToRead, EndToWrite}
      /\ EndToRead # EndToWrite /\ "GetAddress" \in AddressToRead /\ "GetAddress" \in AddressToWrite
      /\ "WriteMode" \in AddressToWrite /\ "WriteMode" \notin AddressToRead
  BY DEF AcceptCommand, AddressToWrite, AddressToRead, EndToRead, EndToWrite
<1>3. \/ /\ st \cap {"Reading", "Busy"} # {}
         /\ UNCHANGED <<eeprom, store, eepromReady>>
      \/ /\ st = AcceptCommand
         /\ eeprom' = IF n.transmittedBits = 2 THEN CommandTaken(n) ELSE n
         /\ UNCHANGED <<store, eepromReady>>
      \/ /\ "GetAddress" \in st
         /\ eeprom' = IF AddressComplete(n) THEN AddressTaken(n) ELSE n
         /\ store' = IF AddressComplete(n) /\ "WriteMode" \in n.state
                     THEN Cleared(store, AddressOf(n) .. AddressOf(n) + BlockSize - 1, ok) ELSE store
         /\ UNCHANGED eepromReady
      \/ "GetAddress" \notin st /\ "Writing" \in st
      \/ /\ st = EndToRead
         /\ eeprom' = ResetSerialBuffer([n EXCEPT !.state = DummiesToRead])
         /\ UNCHANGED <<store, eepromReady>>
      \/ /\ st = EndToWrite
         /\ eeprom' = ResetSerialBuffer([n EXCEPT !.state = Busy])
         /\ store' = store
  BY Zenon DEF EEPROMWrite, EndToRead, EndToWrite, DummiesToRead
<1>4. CASE st = AcceptCommand
  BY <1>2, <1>3, <1>4, Zenon
<1>5. CASE st = AddressToWrite
  <2>1. /\ eeprom' = IF AddressComplete(n) THEN AddressTaken(n) ELSE n
        /\ store' = IF AddressComplete(n) /\ "WriteMode" \in n.state
                    THEN Cleared(store, AddressOf(n) .. AddressOf(n) + BlockSize - 1, ok) ELSE store
        /\ UNCHANGED eepromReady
    BY <1>2, <1>3, <1>5
  <2>2. "WriteMode" \in n.state
    BY <1>1, <1>2, <1>5
  <2>3. QED
    BY <1>2, <1>5, <2>1, <2>2, Zenon DEF Cleared
<1>6. CASE st = AddressToRead
  <2>1. /\ eeprom' = IF AddressComplete(n) THEN AddressTaken(n) ELSE n
        /\ store' = IF AddressComplete(n) /\ "WriteMode" \in n.state
                    THEN Cleared(store, AddressOf(n) .. AddressOf(n) + BlockSize - 1, ok) ELSE store
        /\ UNCHANGED eepromReady
    BY <1>2, <1>3, <1>6
  <2>2. "WriteMode" \notin n.state
    BY <1>1, <1>2, <1>6
  <2>3. QED
    BY <1>2, <1>6, <2>1, <2>2, Zenon
<1>7. CASE st = EndToRead
  BY <1>2, <1>3, <1>7, Zenon
<1>8. CASE st = EndToWrite
  BY <1>2, <1>3, <1>8, Zenon
<1>9. QED
  BY <1>4, <1>5, <1>6, <1>7, <1>8

\* A block has an address, and is in the chip.
LEMMA BlockHasAddress ==
  ASSUME NEW f, IsFrame(f), SomeFrame(f), chip \in {"4K", "64K"}
  PROVE  /\ f.block \in Nat /\ f.block < 2 ^ Width /\ f.block \div 2 ^ Width = 0
         /\ (f.block * BlockSize) % Sizes["64K"].size = f.block * BlockSize
         /\ f.block * BlockSize \in Nat /\ f.block * BlockSize + BlockSize <= Sizes[chip].size
<1> DEFINE k == f.block
           S == Sizes["64K"].size
           s == Sizes["4K"].size
           c == Sizes[chip].size
           p == 2 ^ Width
           x == k * BlockSize
<1>1. /\ BlockSize \in Nat \ {0} /\ s \in Nat /\ S \in Nat /\ s < S
      /\ Sizes["4K"].bits \in Nat /\ Sizes["64K"].bits \in Nat
      /\ s = BlockSize * 2 ^ Sizes["4K"].bits /\ S <= BlockSize * 2 ^ Sizes["64K"].bits
  BY EepromAssumption DEF EepromGeometry
<1>2. k \in Nat /\ x < c /\ c \in {s, S}
  BY DEF IsFrame, SomeFrame
<1>3. Width \in Nat
  BY <1>1 DEF Width
<1>4. p \in Nat /\ p >= 1
  BY <1>3, Powers
<1>5. c <= BlockSize * p
  <2>1. CASE chip = "4K"
    <3>1. Width = Sizes["4K"].bits
      BY <2>1 DEF Width
    <3>2. c = BlockSize * p
      BY <2>1, <3>1, <1>1
    <3> DEFINE y == BlockSize * p
    <3>3. y \in Nat
      BY <1>1, <1>4
    <3> HIDE DEF y, c
    <3>4. QED
      BY <3>2, <3>3 DEF y
  <2>2. CASE chip = "64K"
    BY <2>2, <1>1 DEF Width
  <2>3. QED
    BY <2>1, <2>2
<1> HIDE DEF k, S, s, c, p
<1>6. k < p
  <2>1. k >= p => BlockSize * k >= BlockSize * p
    BY <1>1, <1>2, <1>4
  <2>2. x = BlockSize * k /\ x \in Nat
    BY <1>1, <1>2
  <2>3. BlockSize * p \in Nat /\ c \in Nat
    BY <1>1, <1>2, <1>4
  <2>4. BlockSize * k < BlockSize * p
    <3> DEFINE u == BlockSize * k
               v == BlockSize * p
    <3> HIDE DEF u, v, x
    <3>1. u \in Nat /\ v \in Nat /\ u = x /\ x < c /\ c <= v /\ c \in Nat
      BY <1>2, <1>5, <2>2, <2>3 DEF u, v
    <3>2. QED
      BY <3>1 DEF u, v
  <2>5. ~(BlockSize * k >= BlockSize * p)
    <3> DEFINE u == BlockSize * k
               v == BlockSize * p
    <3>1. u \in Nat /\ v \in Nat /\ u < v
      BY <2>2, <2>3, <2>4
    <3> HIDE DEF u, v
    <3>2. ~(u >= v)
      BY <3>1
    <3>3. QED
      BY <3>2 DEF u, v
  <2>6. QED
    BY <1>2, <1>4, <2>1, <2>5
<1>7. k \div p = 0
  BY <1>2, <1>4, <1>6
<1>8. x \in Nat /\ x < S
  <2>1. x \in Nat
    BY <1>1, <1>2
  <2> HIDE DEF x
  <2>2. QED
    BY <1>1, <1>2, <2>1
<1>9. x % S = x
  <2> HIDE DEF x
  <2>1. QED
    BY <1>1, <1>8
<1>10. x + BlockSize <= c
  <2>1. ((k * BlockSize) % Sizes["64K"].size) + BlockSize <= Sizes[chip].size
    BY <1>2, <1>6, AddressFits DEF p, Width
  <2>2. QED
    BY <2>1, <1>9 DEF S, c
<1>11. QED
  BY <1>2, <1>6, <1>7, <1>8, <1>9, <1>10 DEF k, S, c, p

\* A command for what it is.
LEMMA CommandIs ==
  ASSUME NEW z, NEW d, NEW a, NEW t
  PROVE  /\ CommandTaken(EepromOf(z, d, AcceptCommand, a, 2, t)) = EepromOf(z, d, AddressToWrite, a, 0, 0)
         /\ CommandTaken(EepromOf(z, d, AcceptCommand, a, 3, t)) = EepromOf(z, d, AddressToRead, a, 0, 0)
<1> DEFINE e(sb) == EepromOf(z, d, AcceptCommand, a, sb, t)
           st(sb) == CASE sb = 2 -> AddressToWrite [] sb = 3 -> AddressToRead [] OTHER -> AcceptCommand
<1>1. \A sb : e(sb).serialBuffer = sb /\ e(sb).state = AcceptCommand
  BY DEF EepromOf
<1>2. ASSUME NEW sb
      PROVE  CommandTaken(e(sb)) = ResetSerialBuffer([e(sb) EXCEPT !.state = st(sb)])
  <2>1. CommandTaken(e(sb)) =
          ResetSerialBuffer([e(sb) EXCEPT !.state = CASE e(sb).serialBuffer = 2 -> AddressToWrite
                               [] e(sb).serialBuffer = 3 -> AddressToRead [] OTHER -> e(sb).state])
    BY DEF CommandTaken, AddressToWrite, AddressToRead
  <2>2. e(sb).serialBuffer = sb /\ e(sb).state = AcceptCommand
    BY <1>1
  <2> HIDE DEF e
  <2>3. QED
    BY <2>1, <2>2, Zenon
<1>3. \A sb, new : [e(sb) EXCEPT !.state = new] = EepromOf(z, d, new, a, sb, t)
  BY StateOf
<1>4. \A sb, new : ResetSerialBuffer(EepromOf(z, d, new, a, sb, t)) = EepromOf(z, d, new, a, 0, 0)
  BY ResetOf
<1>5. st(2) = AddressToWrite /\ st(3) = AddressToRead
  OBVIOUS
<1> HIDE DEF e, st
<1>6. CommandTaken(e(2)) = EepromOf(z, d, AddressToWrite, a, 0, 0)
  BY <1>2, <1>3, <1>4, <1>5
<1>7. CommandTaken(e(3)) = EepromOf(z, d, AddressToRead, a, 0, 0)
  BY <1>2, <1>3, <1>4, <1>5
<1>8. QED
  BY <1>6, <1>7 DEF e

\* A frame whose fields are given.
FrameOf(op, block, data, sent, got) == [op |-> op, block |-> block, data |-> data, sent |-> sent, got |-> got]

\* What becomes of the frame when a bit is sent.
LEMMA UnitIs ==
  ASSUME NEW ok, Unit(ok), IsFrame(frame), SomeFrame(frame), chip \in {"4K", "64K"}
  PROVE  /\ frame.sent \in Nat /\ frame.sent < Len(FrameBits(frame))
         /\ EEPROMWrite(FrameBits(frame)[frame.sent + 1], ok)
         /\ FrameBits(frame)[frame.sent + 1] \in {0, 1}
         /\ IF frame.op = "write" /\ LastUnit THEN frame' = NoFrame
            ELSE frame' = FrameOf(frame.op, frame.block, frame.data, frame.sent + 1, frame.got)
<1>1. /\ frame.sent < Len(FrameBits(frame)) /\ EEPROMWrite(FrameBits(frame)[frame.sent + 1], ok)
      /\ frame' = IF LastUnit /\ frame.op = "write" THEN NoFrame ELSE [frame EXCEPT !.sent = @ + 1]
  BY DEF Unit
<1>2. [frame EXCEPT !.sent = @ + 1] = FrameOf(frame.op, frame.block, frame.data, frame.sent + 1, frame.got)
  BY DEF IsFrame, FrameOf
<1>3. frame.sent \in Nat
  BY DEF IsFrame
<1>4. FrameBits(frame)[frame.sent + 1] \in {0, 1}
  BY <1>1, FrameBitsAreBits
<1>5. QED
  BY <1>1, <1>2, <1>3, <1>4

\* The two bits of a command.
LEMMA CommandBit ==
  ASSUME IsEeprom(eeprom), IsFrame(frame), SomeFrame(frame), chip \in {"4K", "64K"},
         NEW ok, Unit(ok), InCommand(eeprom, frame), NEW m
  PROVE  store' = store /\ eepromReady' = eepromReady /\ InFrame(eeprom', frame', m)
         /\ ~(LastUnit /\ frame.op = "write")
<1> DEFINE z == eeprom.size
           d == eeprom.detectSize
           a == eeprom.address
           i == frame.sent
           v == FrameBits(frame)[i + 1]
           n == Shifted(eeprom, v)
<1>1. eeprom = EepromOf(z, d, AcceptCommand, a, i, i) /\ i \in {0, 1} /\ frame.got = <<>>
  BY EepromIs DEF InCommand
<1>2. n = EepromOf(z, d, AcceptCommand, a, 2 * i + v, i + 1)
  BY <1>1, ShiftedOf
<1>3. EEPROMWrite(v, ok) /\ v \in {0, 1}
  BY UnitIs
<1>4. /\ Width \in Nat \ {0} /\ BlockBits \in Nat \ {0}
      /\ Len(FrameBits(frame)) = IF frame.op = "write" THEN Width + BlockBits + 3 ELSE Width + 3
      /\ FrameBits(frame)[1] = 1 /\ FrameBits(frame)[2] = IF frame.op = "write" THEN 0 ELSE 1
  BY FrameBitsAre
<1>5. frame.op \in {"read", "write"}
  BY DEF SomeFrame
<1>6. v = IF i = 0 \/ frame.op = "read" THEN 1 ELSE 0
  <2>1. i = 0 => i + 1 = 1
    BY <1>1
  <2>2. i = 1 => i + 1 = 2
    BY <1>1
  <2>3. QED
    BY <1>1, <1>4, <1>5, <2>1, <2>2
<1>7. ~(LastUnit /\ frame.op = "write")
  <2> SUFFICES ASSUME frame.op = "write"
               PROVE  i # Len(FrameBits(frame)) - 1
    BY DEF LastUnit
  <2>1. QED
    BY <1>1, <1>4
<1> DEFINE g == FrameOf(frame.op, frame.block, frame.data, i + 1, frame.got)
<1>8. frame' = g
  BY <1>7, UnitIs
<1>9. SomeFrame(g)
  BY DEF SomeFrame, FrameOf
<1>10. /\ eeprom' = IF n.transmittedBits = 2 THEN CommandTaken(n) ELSE n
       /\ store' = store /\ eepromReady' = eepromReady
  BY <1>3, WriteIs DEF InCommand
<1>11. g.op = frame.op /\ g.block = frame.block /\ g.sent = i + 1 /\ g.got = <<>>
  BY <1>1 DEF FrameOf
<1> HIDE DEF g, n, v
<1>12. n.transmittedBits = i + 1
  BY <1>2 DEF EepromOf
<1>13. CASE i = 0
  <2>1. eeprom' = EepromOf(z, d, AcceptCommand, a, 1, 1)
    BY <1>2, <1>6, <1>10, <1>12, <1>13
  <2>2. InCommand(EepromOf(z, d, AcceptCommand, a, 1, 1), g)
    BY <1>11, <1>13 DEF InCommand, EepromOf
  <2>3. QED
    BY <1>7, <1>8, <1>9, <1>10, <2>1, <2>2 DEF InFrame
<1>14. CASE i = 1
  <2> DEFINE st == IF frame.op = "write" THEN AddressToWrite ELSE AddressToRead
             e == EepromOf(z, d, st, a, 0, 0)
  <2>1. n.transmittedBits = 2
    BY <1>12, <1>14
  <2>2. eeprom' = CommandTaken(n)
    BY <1>10, <2>1
  <2>3. ASSUME frame.op = "write"
        PROVE  eeprom' = e
    <3>1. n = EepromOf(z, d, AcceptCommand, a, 2, i + 1)
      <4>1. 2 * i + v = 2
        BY <1>6, <1>14, <2>3
      <4>2. QED
        BY <1>2, <4>1
    <3>2. CommandTaken(n) = EepromOf(z, d, AddressToWrite, a, 0, 0)
      BY <3>1, CommandIs
    <3>3. QED
      BY <2>2, <2>3, <3>2
  <2>4. ASSUME frame.op = "read"
        PROVE  eeprom' = e
    <3>1. n = EepromOf(z, d, AcceptCommand, a, 3, i + 1)
      <4>1. 2 * i + v = 3
        BY <1>6, <1>14, <2>4
      <4>2. QED
        BY <1>2, <4>1
    <3>2. CommandTaken(n) = EepromOf(z, d, AddressToRead, a, 0, 0)
      BY <3>1, CommandIs
    <3>3. QED
      BY <2>2, <2>4, <3>2
  <2>5. eeprom' = e
    BY <1>5, <2>3, <2>4
  <2>6. e.state = st /\ e.transmittedBits = 0 /\ e.serialBuffer = 0
    BY DEF EepromOf
  <2>7. frame.block \div 2 ^ Width = 0
    BY BlockHasAddress
  <2>8. InAddress(e, g)
    <3>1. g.sent \in 2 .. Width + 1 /\ e.transmittedBits = g.sent - 2
      BY <1>4, <1>11, <1>14, <2>6
    <3>2. Width - e.transmittedBits = Width
      BY <1>4, <2>6
    <3>3. e.state = IF g.op = "write" THEN AddressToWrite ELSE AddressToRead
      BY <1>11, <2>6
    <3> HIDE DEF e, st
    <3>4. e.serialBuffer = g.block \div 2 ^ (Width - e.transmittedBits)
      BY <1>11, <2>6, <2>7, <3>2
    <3>5. QED
      BY <1>11, <3>1, <3>3, <3>4, Zenon DEF InAddress
  <2>9. QED
    BY <1>7, <1>8, <1>9, <1>10, <2>5, <2>8 DEF InFrame
<1>15. QED
  BY <1>1, <1>13, <1>14

\* A memory whose block is 0 holds the first 0 bits of anything.
LEMMA HoldsNone ==
  ASSUME NEW m, NEW b \in Nat, NEW d, \A i \in b .. b + BlockSize - 1 : m[i] = 0
  PROVE  Holds(m, b, d, 0)
<1>1. BlockSize \in Nat \ {0} /\ CellBits \in Nat \ {0}
  BY EepromAssumption DEF EepromGeometry
<1>2. \A c \in 0 .. BlockSize - 1 : b + c \in b .. b + BlockSize - 1
  BY <1>1
<1>3. \A c \in 0 .. BlockSize - 1 : m[b + c] = 0
  BY <1>2
<1>4. 0 \div CellBits = 0 /\ 0 % CellBits = 0 /\ 0 \in 0 .. BlockSize - 1
  BY <1>1
<1>5. m[b + 0 \div CellBits] = 0
  BY <1>3, <1>4
<1>6. 2 ^ CellBits \in Nat /\ 2 ^ CellBits >= 1
  BY <1>1, Powers
<1> DEFINE p == 2 ^ CellBits
<1> HIDE DEF p
<1>7. 0 % p = 0
  BY <1>6 DEF p
<1>8. CellBits - (0 % CellBits) = CellBits
  BY <1>1, <1>4
<1>9. m[b + 0 \div CellBits] % 2 ^ (CellBits - (0 % CellBits)) = 0
  BY <1>5, <1>7, <1>8 DEF p
<1>10. \A j \in 0 .. 0 - 1 : CellBit(m, b, j) = d[j + 1]
  OBVIOUS
<1>11. \A c \in 0 .. BlockSize - 1 : m[b + c] \in Nat
  BY <1>3
<1>12. QED
  BY <1>3, <1>9, <1>10, <1>11 DEF Holds

\* Setting the cells of a block leaves those of the other blocks.
OtherCells ==
  \A i \in DOMAIN store.memory :
    (frame.op = "write" /\ i \in FrameCells) \/ store'.memory[i] = store.memory[i]

\* The address that a chip has taken.
LEMMA TakenOf ==
  ASSUME NEW z, NEW d, NEW st, NEW a, NEW sb, NEW t, NEW b, b = (sb * BlockSize) % Sizes["64K"].size
  PROVE  /\ AddressTaken(EepromOf(z, d, st, a, sb, t)) = EepromOf(z, d, st \ {"GetAddress"}, b, 0, 0)
         /\ AddressOf(EepromOf(z, d, st, a, sb, t)) = b
<1>1. AddressTaken(EepromOf(z, d, st, a, sb, t)) = EepromOf(z, d, st \ {"GetAddress"}, b, 0, 0)
  BY AddressTakenOf
<1> DEFINE e == EepromOf(z, d, st, a, sb, t)
<1>2. e.serialBuffer = sb
  BY DEF EepromOf
<1> HIDE DEF e
<1>3. AddressOf(e) = b
  BY <1>2 DEF AddressOf
<1>4. QED
  BY <1>1, <1>3 DEF e

\* The bits of an address.
LEMMA AddressBit ==
  ASSUME Good(store), IsEeprom(eeprom), IsFrame(frame), SomeFrame(frame), chip \in {"4K", "64K"},
         Sizes[eeprom.size].size = Size(store), eeprom.size = chip,
         NEW ok \in BOOLEAN, Unit(ok), InAddress(eeprom, frame)
  PROVE  /\ eepromReady' = eepromReady /\ InFrame(eeprom', frame', store'.memory)
         /\ OtherCells /\ ~(LastUnit /\ frame.op = "write")
<1> DEFINE z == eeprom.size
           d == eeprom.detectSize
           a == eeprom.address
           st == IF frame.op = "write" THEN AddressToWrite ELSE AddressToRead
           sb == eeprom.serialBuffer
           t == eeprom.transmittedBits
           v == FrameBits(frame)[frame.sent + 1]
           n == Shifted(eeprom, v)
           k == frame.block
           r == Width - (t + 1)
           b == k * BlockSize
           g == FrameOf(frame.op, frame.block, frame.data, frame.sent + 1, frame.got)
           two == 2 * sb + v
<1>1. eeprom = EepromOf(z, d, st, a, sb, t) /\ eeprom.state = st
  BY EepromIs DEF InAddress
<1>2. n = EepromOf(z, d, st, a, two, t + 1)
  BY <1>1, ShiftedOf
<1>3. EEPROMWrite(v, ok) /\ v \in {0, 1}
  BY UnitIs
<1>4. /\ Width \in Nat \ {0} /\ BlockBits \in Nat \ {0}
      /\ Len(FrameBits(frame)) = IF frame.op = "write" THEN Width + BlockBits + 3 ELSE Width + 3
      /\ \A j \in 1 .. Width : FrameBits(frame)[j + 2] = (frame.block \div 2 ^ (Width - j)) % 2
  BY FrameBitsAre
<1>5. frame.op \in {"read", "write"} /\ k \in Nat
  BY DEF SomeFrame, IsFrame
<1>6. /\ frame.sent \in 2 .. Width + 1 /\ frame.got = <<>> /\ t = frame.sent - 2
      /\ sb = k \div 2 ^ (Width - t)
  BY DEF InAddress
<1> HIDE DEF z, d, a, sb, t, k
<1>7. t \in 0 .. Width - 1 /\ frame.sent = t + 2 /\ r \in Nat /\ r + 1 = Width - t /\ t + 1 \in 1 .. Width
  <2> DEFINE s == frame.sent
  <2>1. s \in 2 .. Width + 1 /\ t = s - 2 /\ Width \in Nat
    BY <1>4, <1>6
  <2> HIDE DEF s
  <2>2. t \in 0 .. Width - 1 /\ s = t + 2 /\ Width - (t + 1) \in Nat /\ (Width - (t + 1)) + 1 = Width - t
        /\ t + 1 \in 1 .. Width
    BY <2>1
  <2>3. QED
    BY <2>2 DEF s
<1>8. v = (k \div 2 ^ r) % 2
  <2>1. frame.sent + 1 = (t + 1) + 2
    BY <1>7
  <2>2. FrameBits(frame)[(t + 1) + 2] = (frame.block \div 2 ^ (Width - (t + 1))) % 2
    BY <1>4, <1>7
  <2>3. QED
    BY <2>1, <2>2 DEF k
<1>9. two = k \div 2 ^ r
  <2>1. 2 * (k \div 2 ^ (r + 1)) + ((k \div 2 ^ r) % 2) = k \div 2 ^ r
    BY <1>5, <1>7, HalvedOnce
  <2>2. sb = k \div 2 ^ (r + 1)
    BY <1>6, <1>7
  <2>3. QED
    BY <1>8, <2>1, <2>2
<1>10. ~(LastUnit /\ frame.op = "write")
  <2> SUFFICES ASSUME frame.op = "write"
               PROVE  frame.sent # Len(FrameBits(frame)) - 1
    BY DEF LastUnit
  <2>1. QED
    BY <1>4, <1>6
<1>11. frame' = g
  BY <1>10, UnitIs
<1>12. SomeFrame(g) /\ g.op = frame.op /\ g.block = k /\ g.data = frame.data /\ g.sent = t + 3 /\ g.got = <<>>
  <2>1. SomeFrame(g) /\ g.op = frame.op /\ g.block = k /\ g.data = frame.data /\ g.sent = frame.sent + 1
        /\ g.got = frame.got
    BY DEF SomeFrame, FrameOf, k
  <2> HIDE DEF g
  <2>2. frame.sent + 1 = t + 3
    BY <1>7
  <2>3. QED
    BY <1>6, <2>1, <2>2
<1>13. /\ frame.op = "write" =>
            /\ eeprom' = IF AddressComplete(n) THEN AddressTaken(n) ELSE n
            /\ store' = IF AddressComplete(n)
                        THEN MemorySet(store, AddressOf(n) .. AddressOf(n) + BlockSize - 1, 0, ok) ELSE store
            /\ eepromReady' = eepromReady
       /\ frame.op # "write" =>
            /\ eeprom' = IF AddressComplete(n) THEN AddressTaken(n) ELSE n
            /\ store' = store /\ eepromReady' = eepromReady
  BY <1>1, <1>3, WriteIs
<1> HIDE DEF g, n, v, two, r
<1>14. AddressComplete(n) <=> t + 1 = Width
  <2>1. n.transmittedBits = t + 1 /\ n.size = z
    BY <1>2 DEF EepromOf
  <2>2. z = chip
    BY DEF z
  <2>3. QED
    BY <2>1, <2>2, Zenon DEF AddressComplete, Width
<1>15. CASE t + 1 # Width
  <2>1. eeprom' = n /\ store' = store /\ eepromReady' = eepromReady
    BY <1>13, <1>14, <1>15
  <2>2. n.state = st /\ n.transmittedBits = t + 1 /\ n.serialBuffer = two
    BY <1>2 DEF EepromOf
  <2>3. g.sent \in 2 .. Width + 1 /\ n.transmittedBits = g.sent - 2 /\ Width - n.transmittedBits = r
    <3> DEFINE i == g.sent
               j == n.transmittedBits
    <3>1. i = t + 3 /\ j = t + 1 /\ Width \in Nat /\ t \in 0 .. Width - 1
      BY <1>4, <1>7, <1>12, <2>2
    <3> HIDE DEF i, j
    <3>2. i \in 2 .. Width + 1 /\ j = i - 2 /\ Width - j = Width - (t + 1)
      BY <3>1, <1>15
    <3>3. QED
      BY <3>2 DEF i, j, r
  <2>4. InAddress(n, g)
    BY <1>9, <1>12, <2>2, <2>3, Zenon DEF InAddress
  <2>5. QED
    BY <1>10, <1>11, <1>12, <2>1, <2>4 DEF InFrame, OtherCells
<1>16. CASE t + 1 = Width
  <2>1. r = 0
    BY <1>4, <1>16 DEF r
  <2>2. two = k
    <3>1. 2 ^ 0 = 1 /\ k \div 1 = k
      BY <1>5
    <3>2. QED
      BY <1>9, <2>1, <3>1
  <2>3. /\ b = (k * BlockSize) % Sizes["64K"].size
        /\ b \in Nat /\ b + BlockSize <= Sizes[chip].size
    BY BlockHasAddress DEF k
  <2> DEFINE e == EepromOf(z, d, st \ {"GetAddress"}, b, 0, 0)
  <2>4. AddressTaken(n) = e /\ AddressOf(n) = b
    BY <1>2, <2>2, <2>3, TakenOf
  <2>5. eeprom' = e /\ eepromReady' = eepromReady
    BY <1>13, <1>14, <1>16, <2>4
  <2>6. e.state = st \ {"GetAddress"} /\ e.address = b /\ e.transmittedBits = 0
    BY DEF EepromOf
  <2>7. b = g.block * BlockSize
    BY <1>12
  <2> HIDE DEF e
  <2>8. CASE frame.op = "write"
    <3> DEFINE span == b .. b + BlockSize - 1
               m == [i \in DOMAIN store.memory |-> IF i \in span THEN 0 ELSE store.memory[i]]
    <3>1. store' = MemorySet(store, span, 0, ok)
      BY <1>13, <1>14, <1>16, <2>4, <2>8
    <3>2. span \subseteq DOMAIN store.memory
      <4>1. Size(store) \in Nat /\ DOMAIN store.memory = Cells(Size(store)) /\ BlockSize \in Nat
        BY StoreCells, EepromAssumption DEF EepromGeometry
      <4>2. Sizes[chip].size = Size(store)
        OBVIOUS
      <4> HIDE DEF b
      <4>3. QED
        BY <2>3, <4>1, <4>2 DEF Cells
    <3>3. store'.memory = m
      <4>1. m = [i \in DOMAIN store.memory |-> IF i \in span THEN 0 ELSE store.memory[i]]
        OBVIOUS
      <4> HIDE DEF m, span
      <4>2. MemorySet(store, span, 0, ok).memory = m
        BY <3>2, <4>1, SpanSet
      <4>3. QED
        BY <3>1, <4>2
    <3>4. OtherCells
      <4>1. FrameCells = span
        BY DEF FrameCells, k
      <4>2. QED
        BY <2>8, <3>3, <4>1 DEF OtherCells
    <3>5. \A i \in b .. b + BlockSize - 1 : m[i] = 0
      BY <3>2
    <3>6. Holds(store'.memory, b, g.data, 0)
      BY <2>3, <3>3, <3>5, HoldsNone
    <3>7. e.state = BitsToWrite
      BY <2>6, <2>8 DEF AddressToWrite, BitsToWrite
    <3>8. g.sent \in Width + 2 .. Width + 1 + BlockBits /\ e.transmittedBits = g.sent - 2 - Width
      BY <1>4, <1>12, <1>16, <1>7, <2>6
    <3> HIDE DEF b, m, span
    <3>9. InBlock(e, g, store'.memory)
      <4>1. Holds(store'.memory, e.address, g.data, e.transmittedBits)
        BY <3>6, <2>6
      <4>2. e.address = g.block * BlockSize /\ g.op = "write"
        BY <1>12, <2>6, <2>7, <2>8
      <4>3. QED
        BY <3>7, <3>8, <4>1, <4>2, Zenon DEF InBlock
    <3>10. QED
      BY <1>10, <1>11, <1>12, <2>5, <3>4, <3>9 DEF InFrame
  <2>9. CASE frame.op = "read"
    <3>1. store' = store
      BY <1>13, <2>9
    <3>2. e.state = EndToRead
      BY <2>6, <2>9 DEF AddressToRead, EndToRead
    <3>3. g.sent = Width + 2
      BY <1>4, <1>7, <1>12, <1>16
    <3> HIDE DEF b
    <3>4. AtEndToRead(e, g)
      BY <1>12, <2>6, <2>7, <2>9, <3>2, <3>3 DEF AtEndToRead
    <3>5. QED
      BY <1>10, <1>11, <1>12, <2>5, <3>1, <3>4 DEF InFrame, OtherCells
  <2>10. QED
    BY <1>5, <2>8, <2>9
<1>17. QED
  BY <1>15, <1>16

\* The place of the next bit.
LEMMA NextPlace ==
  ASSUME NEW t \in Nat, t + 1 < BlockBits, NEW q, NEW p, q = t \div CellBits, p = t % CellBits
  PROVE  /\ p + 1 < CellBits => (t + 1) \div CellBits = q /\ ((t + 1) % CellBits) = p + 1
         /\ p + 1 >= CellBits => /\ (t + 1) \div CellBits = q + 1 /\ ((t + 1) % CellBits) = 0
                                 /\ t + 1 = CellBits * (q + 1) /\ q + 1 \in 0 .. BlockSize - 1
<1>1. CellBits \in Nat \ {0}
  BY EepromAssumption DEF EepromGeometry
<1>2. t < BlockBits /\ BlockBits \in Nat
  BY EepromAssumption DEF EepromGeometry, BlockBits
<1>3. q \in Nat /\ p \in 0 .. CellBits - 1 /\ t = CellBits * q + p
  BY <1>1
<1>4. ASSUME p + 1 < CellBits
      PROVE  (t + 1) \div CellBits = q /\ ((t + 1) % CellBits) = p + 1
  <2> DEFINE r == p + 1
  <2>1. r \in 0 .. CellBits - 1 /\ t + 1 = CellBits * q + r
    BY <1>1, <1>3, <1>4
  <2> HIDE DEF r
  <2>2. (CellBits * q + r) \div CellBits = q /\ ((CellBits * q + r) % CellBits) = r
    BY <1>1, <1>3, <2>1
  <2>3. QED
    BY <2>1, <2>2 DEF r
<1>5. ASSUME p + 1 >= CellBits
      PROVE  /\ (t + 1) \div CellBits = q + 1 /\ ((t + 1) % CellBits) = 0
             /\ t + 1 = CellBits * (q + 1) /\ q + 1 \in 0 .. BlockSize - 1
  <2> DEFINE s == q + 1
             x == CellBits * q
             y == CellBits * s
  <2>1. p + 1 = CellBits
    BY <1>1, <1>3, <1>5
  <2>2. y = x + CellBits /\ s \in Nat /\ x \in Nat
    BY <1>1, <1>3
  <2>3. t + 1 = y
    <3>1. t = x + p
      BY <1>3
    <3> HIDE DEF x, y
    <3>2. QED
      BY <1>1, <1>3, <2>1, <2>2, <3>1
  <2> HIDE DEF s
  <2>4. y \div CellBits = s /\ (y % CellBits) = 0
    <3>1. \A k \in Nat : (CellBits * k) \div CellBits = k /\ ((CellBits * k) % CellBits) = 0
      BY <1>1
    <3>2. QED
      BY <2>2, <3>1
  <2>5. (t + 1) \div CellBits \in 0 .. BlockSize - 1
    BY BitInBlock
  <2>6. s \in 0 .. BlockSize - 1
    BY <2>3, <2>4, <2>5
  <2>7. QED
    BY <2>3, <2>4, <2>6 DEF s
<1>6. QED
  BY <1>4, <1>5

\* One bit more of a block.
LEMMA HoldsMore ==
  ASSUME NEW m, NEW b \in Nat, NEW d, NEW t \in Nat, t < BlockBits, Holds(m, b, d, t),
         d[t + 1] \in {0, 1}, NEW at, at = b + t \div CellBits,
         NEW weight, weight = 2 ^ (CellBits - 1 - (t % CellBits)),
         NEW with, with = IF d[t + 1] = 1 /\ (m[at] \div weight) % 2 = 0 THEN m[at] + weight ELSE m[at],
         NEW m2, m2[at] = with, \A i \in b .. b + BlockSize - 1 : i # at => m2[i] = m[i]
  PROVE  Holds(m2, b, d, t + 1)
<1> DEFINE q == t \div CellBits
           p == t % CellBits
           old == m[at]
           In(c) == c \in 0 .. BlockSize - 1
<1>1. CellBits \in Nat \ {0} /\ BlockSize \in Nat \ {0} /\ BlockBits \in Nat
  BY EepromAssumption DEF EepromGeometry, BlockBits
<1>2. In(q) /\ p \in 0 .. CellBits - 1 /\ t = CellBits * q + p /\ q \in Nat
  BY <1>1, BitPlace
<1>3. at = b + q
  OBVIOUS
<1>4. /\ \A c \in 0 .. BlockSize - 1 : m[b + c] \in Nat
      /\ \A j \in 0 .. t - 1 : CellBit(m, b, j) = d[j + 1]
      /\ \A c \in 0 .. BlockSize - 1 : t <= CellBits * c => m[b + c] = 0
      /\ old % 2 ^ (CellBits - p) = 0
  BY DEF Holds
<1>5. old \in Nat
  BY <1>2, <1>3, <1>4
<1>6. \A c \in 0 .. BlockSize - 1 : c # q => m2[b + c] = m[b + c]
  <2>1. ASSUME NEW c \in 0 .. BlockSize - 1, c # q
        PROVE  b + c \in b .. b + BlockSize - 1 /\ b + c # at
    BY <1>1, <1>2, <1>3, <2>1
  <2>2. QED
    BY <2>1
<1> HIDE DEF q, p, old, In
<1> DEFINE value == d[t + 1]
           new == IF value = 1 THEN old + weight ELSE old
<1>7. weight = 2 ^ (CellBits - 1 - p) /\ value \in {0, 1}
  BY DEF p
<1>8. /\ new \in Nat
      /\ (old \div weight) % 2 = 0
      /\ (new \div weight) % 2 = value
      /\ \A i \in 0 .. p - 1 : (new \div 2 ^ (CellBits - 1 - i)) % 2 = (old \div 2 ^ (CellBits - 1 - i)) % 2
      /\ p < CellBits - 1 => new % 2 ^ (CellBits - (p + 1)) = 0
  <2>1. new = IF value = 1 THEN old + 2 ^ (CellBits - 1 - p) ELSE old
    BY <1>7
  <2> HIDE DEF new, value
  <2>2. QED
    BY <1>2, <1>4, <1>5, <1>7, <2>1, BitAdded
<1>9. m2[b + q] = new
  BY <1>3, <1>8 DEF old
<1> HIDE DEF value, new
<1>10. \A c \in 0 .. BlockSize - 1 : m2[b + c] \in Nat
  BY <1>4, <1>6, <1>8, <1>9
<1>11. ASSUME NEW j \in 0 .. t
       PROVE  CellBit(m2, b, j) = d[j + 1]
  <2> DEFINE jq == j \div CellBits
             jp == j % CellBits
             w == 2 ^ (CellBits - 1 - jp)
  <2>1. j \in Nat /\ j < BlockBits
    BY <1>1
  <2>2. In(jq) /\ jp \in 0 .. CellBits - 1 /\ j = CellBits * jq + jp /\ jq \in Nat
    <3>1. /\ jq \in 0 .. BlockSize - 1 /\ jp \in 0 .. CellBits - 1
          /\ j = CellBits * jq + jp
      BY <2>1, BitPlace
    <3> HIDE DEF jq, jp
    <3>2. QED
      BY <1>1, <3>1 DEF In
  <2>3. CellBit(m2, b, j) = (m2[b + jq] \div w) % 2 /\ CellBit(m, b, j) = (m[b + jq] \div w) % 2
    BY DEF CellBit
  <2> HIDE DEF jq, jp
  <2>4. CASE jq # q
    <3>1. j # t
      BY <2>4 DEF jq, q
    <3>2. CellBit(m, b, j) = d[j + 1]
      BY <1>4, <3>1
    <3>3. QED
      BY <1>6, <2>2, <2>3, <2>4, <3>2 DEF In
  <2>5. CASE jq = q /\ j = t
    <3>1. w = weight
      BY <1>7, <2>5 DEF jp, p
    <3>2. QED
      BY <1>8, <1>9, <2>3, <2>5, <3>1 DEF value
  <2>6. CASE jq = q /\ j # t
    <3>1. jp \in 0 .. p - 1
      <4> DEFINE x == CellBits * q
      <4>1. x \in Nat /\ j = x + jp /\ t = x + p /\ j < t
        BY <1>1, <1>2, <2>1, <2>2, <2>6
      <4> HIDE DEF x
      <4>2. QED
        BY <1>1, <1>2, <2>2, <4>1
    <3>2. (new \div w) % 2 = (old \div w) % 2
      BY <1>8, <3>1
    <3>3. CellBit(m, b, j) = d[j + 1]
      BY <1>4, <2>6
    <3>4. old = m[b + jq]
      BY <1>3, <2>6 DEF old
    <3>5. QED
      BY <1>9, <2>3, <2>6, <3>2, <3>3, <3>4
  <2>7. QED
    BY <2>4, <2>5, <2>6
<1>12. ASSUME NEW c \in 0 .. BlockSize - 1, t + 1 <= CellBits * c
       PROVE  m2[b + c] = 0
  <2> DEFINE x == CellBits * c
             y == CellBits * q
  <2>1. x \in Nat /\ y \in Nat /\ t = y + p /\ t + 1 <= x
    BY <1>1, <1>2, <1>12
  <2>2. c # q
    <3>1. y < x
      <4> HIDE DEF x, y
      <4>1. QED
        BY <1>1, <1>2, <2>1
    <3> SUFFICES ASSUME c = q PROVE FALSE
      OBVIOUS
    <3>2. x = y
      OBVIOUS
    <3> HIDE DEF x, y
    <3>3. QED
      BY <2>1, <3>1, <3>2
  <2>3. t <= x
    <3> HIDE DEF x, y
    <3>1. QED
      BY <1>1, <1>2, <2>1
  <2>4. QED
    BY <1>4, <1>6, <2>2, <2>3
<1>13. ASSUME t + 1 < BlockBits
       PROVE  m2[b + (t + 1) \div CellBits] % 2 ^ (CellBits - ((t + 1) % CellBits)) = 0
  <2>1. /\ p + 1 < CellBits => (t + 1) \div CellBits = q /\ ((t + 1) % CellBits) = p + 1
        /\ p + 1 >= CellBits => /\ (t + 1) \div CellBits = q + 1 /\ ((t + 1) % CellBits) = 0
                                /\ t + 1 = CellBits * (q + 1) /\ q + 1 \in 0 .. BlockSize - 1
    BY <1>13, NextPlace DEF p, q
  <2>2. CASE p + 1 < CellBits
    <3>1. p < CellBits - 1
      BY <1>1, <1>2, <2>2
    <3>2. QED
      BY <1>8, <1>9, <2>1, <2>2, <3>1
  <2>3. CASE p + 1 >= CellBits
    <3>1. m2[b + (q + 1)] = 0
      <4>1. t + 1 <= CellBits * (q + 1)
        <5> DEFINE x == CellBits * (q + 1)
        <5>1. x = t + 1
          BY <2>1, <2>3
        <5> HIDE DEF x
        <5>2. x <= x
          BY <5>1
        <5>3. QED
          BY <5>1, <5>2 DEF x
      <4>2. QED
        BY <1>12, <2>1, <2>3, <4>1
    <3>2. CellBits - 0 = CellBits
      BY <1>1
    <3>3. 0 % 2 ^ CellBits = 0
      <4>1. 2 ^ CellBits \in Nat /\ 2 ^ CellBits >= 1
        BY <1>1, Powers
      <4> DEFINE x == 2 ^ CellBits
      <4> HIDE DEF x
      <4>2. 0 % x = 0
        BY <4>1 DEF x
      <4>3. QED
        BY <4>2 DEF x
    <3>4. QED
      BY <2>1, <2>3, <3>1, <3>2, <3>3
  <2>4. QED
    BY <1>1, <1>2, <2>2, <2>3
<1>14. \A j \in 0 .. (t + 1) - 1 : CellBit(m2, b, j) = d[j + 1]
  BY <1>11
<1>15. QED
  BY <1>10, <1>12, <1>13, <1>14 DEF Holds

\* What a bit of a block does.
LEMMA WritingIs ==
  ASSUME NEW value, NEW ok, EEPROMWrite(value, ok), IsEeprom(eeprom), eeprom.state = BitsToWrite,
         NEW n, n = Shifted(eeprom, value),
         NEW at, at = eeprom.address + eeprom.transmittedBits \div CellBits,
         NEW weight, weight = 2 ^ (CellBits - 1 - (eeprom.transmittedBits % CellBits))
  PROVE  /\ store' = MemorySet(store, {at},
                       IF value = 1 /\ (store.memory[at] \div weight) % 2 = 0
                       THEN store.memory[at] + weight ELSE store.memory[at], ok)
         /\ eeprom' = IF n.transmittedBits = BlockBits
                      THEN ResetSerialBuffer([n EXCEPT !.state = @ \ {"Writing"}]) ELSE n
         /\ eepromReady' = eepromReady
<1> DEFINE st == eeprom.state
           with == IF value = 1 /\ (store.memory[at] \div weight) % 2 = 0
                   THEN store.memory[at] + weight ELSE store.memory[at]
<1>1. /\ st \cap {"Reading", "Busy"} = {} /\ st # AcceptCommand /\ "GetAddress" \notin st
      /\ st # {"ReadMode", "EatDummy"} /\ st # {"WriteMode", "EatDummy"}
  <2>1. "Writing" \in st /\ st \cap {"Reading", "Busy"} = {} /\ "GetAddress" \notin st
    BY DEF BitsToWrite
  <2>2. "Writing" \notin AcceptCommand
    BY DEF AcceptCommand
  <2>3. "Writing" \notin {"ReadMode", "EatDummy"} /\ "Writing" \notin {"WriteMode", "EatDummy"}
    OBVIOUS
  <2>4. QED
    BY <2>1, <2>2, <2>3
<1>2. /\ store' = Write(store, at, with, ok)
      /\ eeprom' = IF n.transmittedBits = BlockBits
                   THEN ResetSerialBuffer([n EXCEPT !.state = @ \ {"Writing"}]) ELSE n
      /\ eepromReady' = eepromReady
  BY <1>1, Zenon DEF EEPROMWrite
<1>3. QED
  BY <1>2 DEF Write

\* The bits of a block.
LEMMA BlockBit ==
  ASSUME Good(store), IsEeprom(eeprom), IsFrame(frame), SomeFrame(frame), chip \in {"4K", "64K"},
         Sizes[eeprom.size].size = Size(store), eeprom.size = chip,
         NEW ok \in BOOLEAN, Unit(ok), InBlock(eeprom, frame, store.memory)
  PROVE  /\ eepromReady' = eepromReady /\ InFrame(eeprom', frame', store'.memory)
         /\ OtherCells /\ ~(LastUnit /\ frame.op = "write")
<1> DEFINE z == eeprom.size
           d == eeprom.detectSize
           a == eeprom.address
           sb == eeprom.serialBuffer
           t == eeprom.transmittedBits
           v == FrameBits(frame)[frame.sent + 1]
           n == Shifted(eeprom, v)
           two == 2 * sb + v
           g == FrameOf(frame.op, frame.block, frame.data, frame.sent + 1, frame.got)
           at == a + t \div CellBits
           weight == 2 ^ (CellBits - 1 - (t % CellBits))
           m == store.memory
           with == IF v = 1 /\ (m[at] \div weight) % 2 = 0 THEN m[at] + weight ELSE m[at]
           m2 == store'.memory
<1>1. eeprom = EepromOf(z, d, BitsToWrite, a, sb, t) /\ eeprom.state = BitsToWrite
  BY EepromIs DEF InBlock
<1>2. n = EepromOf(z, d, BitsToWrite, a, two, t + 1)
  BY <1>1, ShiftedOf
<1>3. EEPROMWrite(v, ok) /\ v \in {0, 1}
  BY UnitIs
<1>4. /\ Width \in Nat \ {0} /\ BlockBits \in Nat \ {0}
      /\ frame.op = "write" => Len(FrameBits(frame)) = Width + BlockBits + 3
      /\ frame.op = "write" =>
           \A k \in 1 .. BlockBits : FrameBits(frame)[k + 2 + Width] = frame.data[k] /\ frame.data[k] \in {0, 1}
  BY FrameBitsAre
<1>5. /\ frame.op = "write" /\ frame.sent \in Width + 2 .. Width + 1 + BlockBits
      /\ t = frame.sent - 2 - Width /\ a = frame.block * BlockSize /\ Holds(m, a, frame.data, t)
  BY DEF InBlock
<1>6. /\ a \in Nat /\ a + BlockSize <= Sizes[chip].size
  BY <1>5, BlockHasAddress
<1>7. /\ store' = MemorySet(store, {at}, with, ok)
      /\ eeprom' = IF n.transmittedBits = BlockBits
                   THEN ResetSerialBuffer([n EXCEPT !.state = @ \ {"Writing"}]) ELSE n
      /\ eepromReady' = eepromReady
  BY <1>1, <1>3, WritingIs
<1> HIDE DEF z, d, a, sb, t, n, two
<1>8. t \in 0 .. BlockBits - 1 /\ frame.sent = t + 2 + Width /\ t \in Nat /\ t < BlockBits
  <2> DEFINE s == frame.sent
  <2>1. s \in Width + 2 .. Width + 1 + BlockBits /\ t = s - 2 - Width
    BY <1>5
  <2> HIDE DEF s
  <2>2. t \in 0 .. BlockBits - 1 /\ s = t + 2 + Width
    BY <1>4, <2>1
  <2>3. QED
    BY <1>4, <2>2 DEF s
<1>9. v = frame.data[t + 1]
  <2>1. frame.sent + 1 = (t + 1) + 2 + Width /\ t + 1 \in 1 .. BlockBits
    BY <1>4, <1>8
  <2>2. QED
    BY <1>4, <1>5, <2>1
<1>10. ~(LastUnit /\ frame.op = "write")
  <2>1. frame.sent # Len(FrameBits(frame)) - 1
    BY <1>4, <1>5, <1>8
  <2>2. QED
    BY <2>1 DEF LastUnit
<1>11. frame' = g
  BY <1>10, UnitIs
<1>12. /\ SomeFrame(g) /\ g.op = "write" /\ g.block = frame.block /\ g.data = frame.data
       /\ g.sent = t + 3 + Width
  <2>1. SomeFrame(g) /\ g.op = frame.op /\ g.block = frame.block /\ g.data = frame.data /\ g.sent = frame.sent + 1
    BY DEF SomeFrame, FrameOf
  <2> HIDE DEF g
  <2>2. frame.sent + 1 = t + 3 + Width
    BY <1>4, <1>8
  <2>3. QED
    BY <1>5, <2>1, <2>2
<1> HIDE DEF g, v
<1>13. t \div CellBits \in 0 .. BlockSize - 1
  BY <1>8, BitInBlock
<1>14. BlockSize \in Nat \ {0}
  BY EepromAssumption DEF EepromGeometry
<1>15. at \in a .. a + BlockSize - 1
  <2> DEFINE q == t \div CellBits
  <2>1. q \in 0 .. BlockSize - 1
    BY <1>13
  <2> HIDE DEF q
  <2>2. a + q \in a .. a + BlockSize - 1
    BY <1>6, <1>14, <2>1
  <2>3. QED
    BY <2>2 DEF q
<1>16. {at} \subseteq DOMAIN store.memory
  <2>1. Size(store) \in Nat /\ DOMAIN store.memory = Cells(Size(store)) /\ Sizes[chip].size = Size(store)
    BY StoreCells
  <2> HIDE DEF at
  <2>2. at \in 0 .. Size(store) - 1
    BY <1>6, <1>14, <1>15, <2>1
  <2>3. QED
    BY <2>1, <2>2 DEF Cells
<1> DEFINE mm == [i \in DOMAIN store.memory |-> IF i \in {at} THEN with ELSE store.memory[i]]
<1>17. m2 = mm
  <2>1. mm = [i \in DOMAIN store.memory |-> IF i \in {at} THEN with ELSE store.memory[i]]
    OBVIOUS
  <2> HIDE DEF mm, at, with
  <2>2. MemorySet(store, {at}, with, ok).memory = mm
    BY <1>16, <2>1, SpanSet
  <2>3. QED
    BY <1>7, <2>2
<1> HIDE DEF at, with, weight
<1>18. m2[at] = with
  BY <1>16, <1>17
<1>19. \A i \in DOMAIN store.memory : i # at => m2[i] = m[i]
  BY <1>17
<1>20. DOMAIN store.memory = Cells(Size(store)) /\ \A i \in a .. a + BlockSize - 1 : i \in DOMAIN store.memory
  <2>1. Size(store) \in Nat /\ DOMAIN store.memory = Cells(Size(store)) /\ Sizes[chip].size = Size(store)
    BY StoreCells
  <2>2. \A i \in a .. a + BlockSize - 1 : i \in 0 .. Size(store) - 1
    BY <1>6, <1>14, <2>1
  <2>3. QED
    BY <2>1, <2>2 DEF Cells
<1>21. \A i \in a .. a + BlockSize - 1 : i # at => m2[i] = m[i]
  BY <1>19, <1>20
<1>22. OtherCells
  <2>1. at \in FrameCells
    BY <1>5, <1>15 DEF FrameCells
  <2>2. QED
    BY <1>5, <1>19, <2>1 DEF OtherCells
<1> HIDE DEF m, m2, mm
<1>23. Holds(m2, a, frame.data, t + 1)
  <2>1. with = IF frame.data[t + 1] = 1 /\ (m[at] \div weight) % 2 = 0 THEN m[at] + weight ELSE m[at]
    BY <1>9 DEF with, m
  <2>2. frame.data[t + 1] \in {0, 1}
    BY <1>3, <1>9 DEF v
  <2>3. at = a + t \div CellBits /\ weight = 2 ^ (CellBits - 1 - (t % CellBits))
    BY DEF at, weight
  <2>4. Holds(m, a, frame.data, t)
    BY <1>5 DEF m
  <2>5. QED
    BY <1>6, <1>8, <1>18, <1>21, <2>1, <2>2, <2>3, <2>4, HoldsMore
<1>24. n.transmittedBits = t + 1 /\ n.state = BitsToWrite /\ n.address = a
  BY <1>2 DEF EepromOf
<1>25. CASE t + 1 # BlockBits
  <2>1. eeprom' = n
    BY <1>7, <1>24, <1>25
  <2>2. g.sent \in Width + 2 .. Width + 1 + BlockBits /\ n.transmittedBits = g.sent - 2 - Width
    <3> DEFINE i == g.sent
               j == n.transmittedBits
    <3>1. i = t + 3 + Width /\ j = t + 1
      BY <1>12, <1>24
    <3> HIDE DEF i, j
    <3>2. i \in Width + 2 .. Width + 1 + BlockBits /\ j = i - 2 - Width
      BY <1>4, <1>8, <1>25, <3>1
    <3>3. QED
      BY <3>2 DEF i, j
  <2>3. Holds(m2, n.address, g.data, n.transmittedBits)
    BY <1>12, <1>23, <1>24
  <2>4. n.address = g.block * BlockSize
    BY <1>5, <1>12, <1>24
  <2>5. InBlock(n, g, m2)
    BY <1>12, <1>24, <2>2, <2>3, <2>4, Zenon DEF InBlock
  <2>6. QED
    BY <1>7, <1>10, <1>11, <1>12, <1>22, <2>1, <2>5 DEF InFrame, m2
<1>26. CASE t + 1 = BlockBits
  <2> DEFINE st == BitsToWrite \ {"Writing"}
             e == EepromOf(z, d, st, a, 0, 0)
  <2>1. eeprom' = ResetSerialBuffer([n EXCEPT !.state = @ \ {"Writing"}])
    BY <1>7, <1>24, <1>26
  <2>2. [n EXCEPT !.state = @ \ {"Writing"}] = [n EXCEPT !.state = st]
    BY <1>2 DEF EepromOf
  <2>3. [n EXCEPT !.state = st] = EepromOf(z, d, st, a, two, t + 1)
    <3>1. \A new : [EepromOf(z, d, BitsToWrite, a, two, t + 1) EXCEPT !.state = new]
                     = EepromOf(z, d, new, a, two, t + 1)
      BY StateOf
    <3>2. QED
      BY <1>2, <3>1
  <2>4. eeprom' = e
    BY <2>1, <2>2, <2>3, ResetOf
  <2>5. e.state = EndToWrite
    BY DEF EepromOf, BitsToWrite, EndToWrite
  <2> HIDE DEF e
  <2>6. g.sent = Width + 2 + BlockBits
    BY <1>4, <1>8, <1>12, <1>26
  <2>7. Holds(m2, g.block * BlockSize, g.data, BlockBits)
    BY <1>5, <1>12, <1>23, <1>26
  <2>8. AtEndToWrite(e, g, m2)
    BY <1>12, <2>5, <2>6, <2>7, Zenon DEF AtEndToWrite
  <2>9. QED
    BY <1>7, <1>10, <1>11, <1>12, <1>22, <2>4, <2>8 DEF InFrame, m2
<1>27. QED
  BY <1>25, <1>26

\* A block that holds all the bits of a frame is what the frame says.
LEMMA HoldsAll ==
  ASSUME NEW m, IsFrame(frame), frame.op = "write", Holds(m, frame.block * BlockSize, frame.data, BlockBits)
  PROVE  BlockIn(m) = frame.data
<1> DEFINE b == frame.block * BlockSize
<1>1. BlockBits \in Nat /\ frame.data \in [1 .. BlockBits -> {0, 1}]
  BY EepromAssumption DEF EepromGeometry, IsFrame, BlockBits
<1>2. \A j \in 0 .. BlockBits - 1 : CellBit(m, b, j) = frame.data[j + 1]
  BY DEF Holds
<1>3. BlockIn(m) = [k \in 1 .. BlockBits |-> CellBit(m, b, k - 1)]
  BY DEF BlockIn
<1> HIDE DEF b
<1>4. \A k \in 1 .. BlockBits : CellBit(m, b, k - 1) = frame.data[k]
  <2>1. ASSUME NEW k \in 1 .. BlockBits
        PROVE  CellBit(m, b, k - 1) = frame.data[k]
    <3>1. k - 1 \in 0 .. BlockBits - 1 /\ (k - 1) + 1 = k
      BY <1>1
    <3>2. QED
      BY <1>2, <3>1
  <2>2. QED
    BY <2>1
<1>5. QED
  BY <1>1, <1>3, <1>4

\* The bit after a block.
LEMMA LastBit ==
  ASSUME IsEeprom(eeprom), IsFrame(frame), SomeFrame(frame), chip \in {"4K", "64K"}, eeprom.size = chip,
         NEW ok, Unit(ok), AtEndToWrite(eeprom, frame, store.memory)
  PROVE  /\ AtRest(eeprom', frame') /\ frame' = NoFrame /\ eeprom'.state = Busy
         /\ store' = store /\ BlockIn(store'.memory) = frame.data
<1> DEFINE v == FrameBits(frame)[frame.sent + 1]
           n == Shifted(eeprom, v)
           e == EepromOf(eeprom.size, eeprom.detectSize, Busy, eeprom.address, 0, 0)
<1>1. /\ frame.op = "write" /\ frame.sent = Width + 2 + BlockBits /\ eeprom.state = EndToWrite
      /\ Holds(store.memory, frame.block * BlockSize, frame.data, BlockBits)
  BY DEF AtEndToWrite
<1>2. eeprom' = ResetSerialBuffer([n EXCEPT !.state = Busy]) /\ store' = store
  BY <1>1, UnitIs, WriteIs
<1>3. eeprom' = e
  <2>1. n = EepromOf(eeprom.size, eeprom.detectSize, eeprom.state, eeprom.address,
                     2 * eeprom.serialBuffer + v, eeprom.transmittedBits + 1)
    BY EepromIs, ShiftedOf
  <2>2. [n EXCEPT !.state = Busy] = EepromOf(eeprom.size, eeprom.detectSize, Busy, eeprom.address,
                     2 * eeprom.serialBuffer + v, eeprom.transmittedBits + 1)
    BY <2>1, StateOf
  <2>3. QED
    BY <1>2, <2>2, ResetOf
<1>4. e.state = Busy /\ e.serialBuffer = 0 /\ e.transmittedBits = 0
  BY DEF EepromOf
<1>5. LastUnit
  <2>1. Len(FrameBits(frame)) = Width + BlockBits + 3 /\ Width \in Nat /\ BlockBits \in Nat
    BY <1>1, FrameBitsAre
  <2>2. QED
    BY <1>1, <2>1 DEF LastUnit
<1>6. frame' = NoFrame
  BY <1>1, <1>5, UnitIs
<1>7. BlockIn(store.memory) = frame.data
  BY <1>1, HoldsAll
<1>8. BlockIn(store'.memory) = frame.data
  BY <1>2, <1>7
<1> HIDE DEF e
<1>9. QED
  BY <1>2, <1>3, <1>4, <1>6, <1>8 DEF AtRest

\* The bit after an address that is to be read.
LEMMA TurnBit ==
  ASSUME IsEeprom(eeprom), IsFrame(frame), SomeFrame(frame), chip \in {"4K", "64K"},
         NEW ok, Unit(ok), AtEndToRead(eeprom, frame), NEW m
  PROVE  InFrame(eeprom', frame', m) /\ store' = store /\ eepromReady' = eepromReady
<1> DEFINE v == FrameBits(frame)[frame.sent + 1]
           n == Shifted(eeprom, v)
           e == EepromOf(eeprom.size, eeprom.detectSize, DummiesToRead, eeprom.address, 0, 0)
           g == FrameOf(frame.op, frame.block, frame.data, frame.sent + 1, frame.got)
<1>1. /\ frame.op = "read" /\ frame.sent = Width + 2 /\ frame.got = <<>> /\ eeprom.state = EndToRead
      /\ eeprom.size = chip => eeprom.address = frame.block * BlockSize
  BY DEF AtEndToRead
<1>2. eeprom' = ResetSerialBuffer([n EXCEPT !.state = DummiesToRead]) /\ store' = store
      /\ eepromReady' = eepromReady
  BY <1>1, UnitIs, WriteIs
<1>3. eeprom' = e
  <2>1. n = EepromOf(eeprom.size, eeprom.detectSize, eeprom.state, eeprom.address,
                     2 * eeprom.serialBuffer + v, eeprom.transmittedBits + 1)
    BY EepromIs, ShiftedOf
  <2>2. [n EXCEPT !.state = DummiesToRead] =
          EepromOf(eeprom.size, eeprom.detectSize, DummiesToRead, eeprom.address,
                   2 * eeprom.serialBuffer + v, eeprom.transmittedBits + 1)
    BY <2>1, StateOf
  <2>3. QED
    BY <1>2, <2>2, ResetOf
<1>4. e.state = DummiesToRead /\ e.transmittedBits = 0 /\ e.address = eeprom.address /\ e.size = eeprom.size
  BY DEF EepromOf
<1>5. frame' = g
  BY <1>1, UnitIs
<1>6. /\ SomeFrame(g) /\ g.op = "read" /\ g.sent = frame.sent + 1 /\ g.got = <<>> /\ g.block = frame.block
  BY <1>1 DEF SomeFrame, FrameOf
<1> HIDE DEF g, e
<1>7. g.sent \in Width + 3 .. Width + 2 + DummyBits /\ e.transmittedBits = g.sent - 3 - Width
  <2>1. Width \in Nat /\ DummyBits \in Nat \ {0}
    BY EepromAssumption DEF EepromGeometry, Width
  <2>2. g.sent = Width + 3
    BY <1>1, <1>6, <2>1
  <2>3. QED
    BY <1>4, <2>1, <2>2
<1>8. InDummies(e, g)
  BY <1>1, <1>4, <1>6, <1>7, Zenon DEF InDummies
<1>9. QED
  BY <1>2, <1>3, <1>5, <1>6, <1>8 DEF InFrame

\* Every bit of a frame.
LEMMA UnitGoesOn ==
  ASSUME Good(store), IsEeprom(eeprom), IsFrame(frame), chip \in {"4K", "64K"},
         Sizes[eeprom.size].size = Size(store), eeprom.size = chip,
         NEW ok \in BOOLEAN, Unit(ok), Stage(eeprom, frame, store.memory)
  PROVE  /\ Stage(eeprom', frame', store'.memory)
         /\ frame.op = "write" /\ LastUnit => BlockIn(store'.memory) = frame.data /\ eeprom'.state = Busy
         /\ OtherCells
         /\ eepromReady' = eepromReady \/ (frame' = NoFrame /\ eeprom'.state = Busy)
<1>1. InFrame(eeprom, frame, store.memory)
  BY DEF Unit, Stage, AtRest
<1>2. SomeFrame(frame)
  BY <1>1 DEF InFrame
<1>3. CASE InCommand(eeprom, frame)
  <2>1. store' = store /\ eepromReady' = eepromReady /\ ~(LastUnit /\ frame.op = "write")
        /\ \A m : InFrame(eeprom', frame', m)
    BY <1>2, <1>3, CommandBit
  <2>2. QED
    BY <2>1 DEF Stage, OtherCells
<1>4. CASE InAddress(eeprom, frame)
  BY <1>2, <1>4, AddressBit DEF Stage
<1>5. CASE InBlock(eeprom, frame, store.memory)
  BY <1>2, <1>5, BlockBit DEF Stage
<1>6. CASE AtEndToWrite(eeprom, frame, store.memory)
  BY <1>2, <1>6, LastBit DEF Stage, OtherCells
<1>7. CASE AtEndToRead(eeprom, frame)
  <2>1. store' = store /\ eepromReady' = eepromReady /\ \A m : InFrame(eeprom', frame', m)
    BY <1>2, <1>7, TurnBit
  <2>2. frame.op # "write"
    BY <1>7 DEF AtEndToRead
  <2>3. QED
    BY <2>1, <2>2 DEF Stage, OtherCells
<1>8. ~InDummies(eeprom, frame) /\ ~InAnswer(eeprom, frame, store.memory)
  <2>1. frame.op = "read" => frame.sent < Width + 3
    BY <1>2, UnitIs, FrameBitsAre
  <2>2. Width \in Nat /\ DummyBits \in Nat /\ BlockBits \in Nat /\ frame.sent \in Nat
    BY EepromAssumption DEF EepromGeometry, Width, BlockBits, IsFrame
  <2>3. ASSUME InDummies(eeprom, frame) PROVE FALSE
    <3>1. frame.op = "read" /\ frame.sent \in Width + 3 .. Width + 2 + DummyBits
      BY <2>3 DEF InDummies
    <3>2. QED
      BY <2>1, <2>2, <3>1
  <2>4. ASSUME InAnswer(eeprom, frame, store.memory) PROVE FALSE
    <3>1. frame.op = "read" /\ frame.sent \in Width + 3 + DummyBits .. Width + 2 + DummyBits + BlockBits
      BY <2>4 DEF InAnswer
    <3>2. QED
      BY <2>1, <2>2, <3>1
  <2>5. QED
    BY <2>3, <2>4
<1>9. QED
  BY <1>1, <1>3, <1>4, <1>5, <1>6, <1>7, <1>8 DEF InFrame

\* What a read does to a chip.
LEMMA AfterReadIs ==
  ASSUME NEW z, NEW d, NEW st, NEW a, NEW sb, NEW t, NEW e, e = EepromOf(z, d, st, a, sb, t)
  PROVE  /\ st = DummiesToRead =>
              AfterRead(e) = IF t + 1 = DummyBits THEN EepromOf(z, d, Reading, a, 0, 0)
                             ELSE EepromOf(z, d, st, a, sb, t + 1)
         /\ st = Reading =>
              AfterRead(e) = IF t + 1 = BlockBits THEN EepromOf(z, d, AcceptCommand, a, 0, 0)
                             ELSE EepromOf(z, d, st, a, sb, t + 1)
         /\ st = AcceptCommand => AfterRead(e) = e
<1> DEFINE n == [e EXCEPT !.transmittedBits = @ + 1]
<1>1. e.state = st /\ n = EepromOf(z, d, st, a, sb, t + 1)
  <2>1. e.state = st /\ e.transmittedBits = t
    BY DEF EepromOf
  <2>2. n = [e EXCEPT !.transmittedBits = t + 1]
    BY <2>1 DEF EepromOf
  <2>3. QED
    BY <2>1, <2>2, CountOf
<1>2. n.transmittedBits = t + 1 /\ n.state = st
  BY <1>1 DEF EepromOf
<1>3. AfterRead(e) =
        CASE "Reading" \notin e.state -> e
          [] {"Reading", "DummyNibble"} \subseteq e.state ->
               IF n.transmittedBits = DummyBits
               THEN ResetSerialBuffer([n EXCEPT !.state = @ \ {"DummyNibble"}]) ELSE n
          [] OTHER ->
               IF n.transmittedBits = BlockBits
               THEN ResetSerialBuffer([n EXCEPT !.state = AcceptCommand]) ELSE n
  BY DEF AfterRead
<1>4. ASSUME NEW new
      PROVE  ResetSerialBuffer([n EXCEPT !.state = new]) = EepromOf(z, d, new, a, 0, 0)
  <2>1. [n EXCEPT !.state = new] = EepromOf(z, d, new, a, sb, t + 1)
    <3> HIDE DEF n
    <3>1. [EepromOf(z, d, st, a, sb, t + 1) EXCEPT !.state = new] = EepromOf(z, d, new, a, sb, t + 1)
      BY StateOf
    <3>2. QED
      BY <1>1, <3>1
  <2> HIDE DEF n
  <2>2. QED
    BY <2>1, ResetOf
<1>5. [n EXCEPT !.state = @ \ {"DummyNibble"}] = [n EXCEPT !.state = st \ {"DummyNibble"}]
  BY <1>1 DEF EepromOf
<1> HIDE DEF n
<1>6. CASE st = DummiesToRead
  <2>1. "Reading" \in st /\ {"Reading", "DummyNibble"} \subseteq st /\ st \ {"DummyNibble"} = Reading
    BY <1>6 DEF DummiesToRead, Reading
  <2>2. st # Reading /\ st # AcceptCommand
    BY <2>1 DEF Reading, AcceptCommand
  <2>3. AfterRead(e) = IF n.transmittedBits = DummyBits
                       THEN ResetSerialBuffer([n EXCEPT !.state = @ \ {"DummyNibble"}]) ELSE n
    BY <1>1, <1>3, <2>1, Zenon
  <2>4. ResetSerialBuffer([n EXCEPT !.state = @ \ {"DummyNibble"}]) = EepromOf(z, d, Reading, a, 0, 0)
    BY <1>4, <1>5, <2>1
  <2>5. QED
    BY <1>1, <1>2, <2>2, <2>3, <2>4
<1>7. CASE st = Reading
  <2>1. "Reading" \in st /\ ~({"Reading", "DummyNibble"} \subseteq st)
    BY <1>7 DEF Reading
  <2>2. st # DummiesToRead /\ st # AcceptCommand
    BY <2>1 DEF DummiesToRead, AcceptCommand
  <2>3. AfterRead(e) = IF n.transmittedBits = BlockBits
                       THEN ResetSerialBuffer([n EXCEPT !.state = AcceptCommand]) ELSE n
    BY <1>1, <1>3, <2>1, Zenon
  <2>4. QED
    BY <1>1, <1>2, <1>4, <2>2, <2>3
<1>8. CASE st = AcceptCommand
  <2>1. "Reading" \notin st
    BY <1>8 DEF AcceptCommand
  <2>2. AfterRead(e) = e
    BY <1>1, <1>3, <2>1, Zenon
  <2>3. st # DummiesToRead /\ st # Reading
    BY <2>1 DEF DummiesToRead, Reading
  <2>4. QED
    BY <2>2, <2>3
<1>9. QED
  BY <1>6, <1>7, <1>8

\* What becomes of the frame when a bit is read.
LEMMA AnswerIs ==
  ASSUME Answer, IsFrame(frame), SomeFrame(frame), chip \in {"4K", "64K"}
  PROVE  /\ frame.op = "read" /\ frame.sent \in Nat /\ frame.sent >= Width + 3
         /\ eeprom' = AfterRead(eeprom) /\ eepromReady' = eepromReady
         /\ store' = IF ReadPanics(eeprom, store) THEN Panicked(store) ELSE store
         /\ LastAnswer <=> frame.sent = Width + 2 + DummyBits + BlockBits
         /\ frame' = IF LastAnswer \/ ReadPanics(eeprom, store) THEN NoFrame
                     ELSE FrameOf(frame.op, frame.block, frame.data, frame.sent + 1,
                                  IF frame.sent < Width + 3 + DummyBits THEN frame.got
                                  ELSE Append(frame.got, ReadBit(eeprom, store)))
<1>1. frame.op = "read" /\ frame.sent >= Len(FrameBits(frame))
  BY DEF Answer
<1>2. Len(FrameBits(frame)) = Width + 3 /\ Width \in Nat /\ BlockBits \in Nat
  BY <1>1, FrameBitsAre
<1>3. DummyBits \in Nat /\ frame.sent \in Nat
  BY EepromAssumption DEF EepromGeometry, IsFrame
<1>4. LastAnswer <=> frame.sent = Width + 2 + DummyBits + BlockBits
  BY <1>2, <1>3 DEF LastAnswer, AnswerBits
<1> DEFINE more == IF frame.sent < Len(FrameBits(frame)) + DummyBits THEN frame.got
                   ELSE Append(frame.got, ReadBit(eeprom, store))
<1>5. frame' = IF LastAnswer \/ ReadPanics(eeprom, store) THEN NoFrame
               ELSE [frame EXCEPT !.sent = @ + 1, !.got = more]
  <2>1. frame' = IF LastAnswer \/ ReadPanics(eeprom, store) THEN NoFrame
                 ELSE [frame EXCEPT !.sent = @ + 1,
                         !.got = IF frame.sent < Len(FrameBits(frame)) + DummyBits THEN @
                                 ELSE Append(@, ReadBit(eeprom, store))]
    BY DEF Answer
  <2>2. [frame EXCEPT !.sent = @ + 1,
                         !.got = IF frame.sent < Len(FrameBits(frame)) + DummyBits THEN @
                                 ELSE Append(@, ReadBit(eeprom, store))]
         = [frame EXCEPT !.sent = @ + 1, !.got = more]
    BY DEF IsFrame
  <2> HIDE DEF more
  <2>3. QED
    BY <2>1, <2>2, Zenon
<1> HIDE DEF more
<1>6. [frame EXCEPT !.sent = @ + 1, !.got = more] = FrameOf(frame.op, frame.block, frame.data, frame.sent + 1, more)
  <2> DEFINE h == [frame EXCEPT !.sent = @ + 1]
  <2>1. h = FrameOf(frame.op, frame.block, frame.data, frame.sent + 1, frame.got)
    BY DEF IsFrame, FrameOf
  <2>2. [frame EXCEPT !.sent = @ + 1, !.got = more] = [h EXCEPT !.got = more]
    BY DEF IsFrame
  <2> HIDE DEF h
  <2>3. QED
    BY <2>1, <2>2 DEF FrameOf
<1>7. more = IF frame.sent < Width + 3 + DummyBits THEN frame.got
             ELSE Append(frame.got, ReadBit(eeprom, store))
  BY <1>2 DEF more
<1>8. eeprom' = AfterRead(eeprom) /\ eepromReady' = eepromReady
      /\ store' = IF ReadPanics(eeprom, store) THEN Panicked(store) ELSE store
  BY DEF Answer
<1>9. QED
  BY <1>1, <1>2, <1>3, <1>4, <1>5, <1>6, <1>7, <1>8

\* The bits before an answer.
LEMMA DummyBit ==
  ASSUME IsEeprom(eeprom), IsFrame(frame), SomeFrame(frame), chip \in {"4K", "64K"},
         Answer, InDummies(eeprom, frame), NEW m
  PROVE  InFrame(eeprom', frame', m) /\ store' = store /\ eepromReady' = eepromReady /\ ~LastAnswer
<1> DEFINE z == eeprom.size
           d == eeprom.detectSize
           a == eeprom.address
           sb == eeprom.serialBuffer
           t == eeprom.transmittedBits
           i == frame.sent
           g == FrameOf(frame.op, frame.block, frame.data, frame.sent + 1, frame.got)
<1>1. /\ frame.op = "read" /\ i \in Width + 3 .. Width + 2 + DummyBits /\ frame.got = <<>>
      /\ eeprom.state = DummiesToRead /\ t = i - 3 - Width
      /\ z = chip => a = frame.block * BlockSize
  BY DEF InDummies
<1>2. ~ReadPanics(eeprom, store)
  BY <1>1 DEF ReadPanics, DummiesToRead
<1>3. Width \in Nat /\ DummyBits \in Nat \ {0} /\ BlockBits \in Nat \ {0}
  <2>1. Width \in Nat /\ BlockBits \in Nat \ {0}
    BY FrameBitsAre
  <2>2. DummyBits \in Nat \ {0}
    BY EepromAssumption DEF EepromGeometry
  <2>3. QED
    BY <2>1, <2>2
<1>4. /\ eeprom' = AfterRead(eeprom) /\ eepromReady' = eepromReady /\ store' = store
      /\ LastAnswer <=> i = Width + 2 + DummyBits + BlockBits
      /\ ~LastAnswer => frame' = FrameOf(frame.op, frame.block, frame.data, frame.sent + 1,
                                         IF i < Width + 3 + DummyBits THEN frame.got
                                         ELSE Append(frame.got, ReadBit(eeprom, store)))
  BY <1>2, AnswerIs
<1>5. eeprom = EepromOf(z, d, DummiesToRead, a, sb, t)
  BY <1>1, EepromIs
<1>6. AfterRead(eeprom) = IF t + 1 = DummyBits THEN EepromOf(z, d, Reading, a, 0, 0)
                          ELSE EepromOf(z, d, DummiesToRead, a, sb, t + 1)
  BY <1>5, AfterReadIs
<1>7. SomeFrame(g) /\ g.op = "read" /\ g.block = frame.block /\ g.sent = i + 1 /\ g.got = <<>>
  BY <1>1 DEF SomeFrame, FrameOf
<1> HIDE DEF g, z, d, a, sb, t, i
<1>8. ~LastAnswer /\ i < Width + 3 + DummyBits
  BY <1>1, <1>3, <1>4
<1>9. frame' = g
  BY <1>4, <1>8 DEF g
<1>10. CASE t + 1 = DummyBits
  <2> DEFINE e == EepromOf(z, d, Reading, a, 0, 0)
  <2>1. eeprom' = e
    BY <1>4, <1>6, <1>10
  <2>2. e.state = Reading /\ e.transmittedBits = 0 /\ e.address = a /\ e.size = z
    BY DEF EepromOf
  <2> HIDE DEF e
  <2>3. g.sent \in Width + 3 + DummyBits .. Width + 2 + DummyBits + BlockBits
        /\ e.transmittedBits = g.sent - 3 - Width - DummyBits
    <3> DEFINE j == g.sent
    <3>1. j = i + 1
      BY <1>7
    <3> HIDE DEF j
    <3>2. j = Width + 3 + DummyBits
      BY <1>1, <1>3, <1>10, <3>1
    <3>3. j \in Width + 3 + DummyBits .. Width + 2 + DummyBits + BlockBits /\ 0 = j - 3 - Width - DummyBits
      BY <1>3, <3>2
    <3>4. QED
      BY <2>2, <3>3 DEF j
  <2>4. g.got = [k \in 1 .. e.transmittedBits |-> CellBit(m, e.address, k - 1)]
    <3>1. 1 .. e.transmittedBits = {}
      BY <2>2
    <3>2. [k \in 1 .. e.transmittedBits |-> CellBit(m, e.address, k - 1)] = <<>>
      BY <3>1
    <3>3. QED
      BY <1>7, <3>2
  <2>5. e.size = chip => e.address = g.block * BlockSize
    BY <1>1, <1>7, <2>2
  <2>6. InAnswer(e, g, m)
    BY <1>7, <2>2, <2>3, <2>4, <2>5, Zenon DEF InAnswer
  <2>7. QED
    BY <1>4, <1>7, <1>8, <1>9, <2>1, <2>6 DEF InFrame
<1>11. CASE t + 1 # DummyBits
  <2> DEFINE e == EepromOf(z, d, DummiesToRead, a, sb, t + 1)
  <2>1. eeprom' = e
    BY <1>4, <1>6, <1>11
  <2>2. e.state = DummiesToRead /\ e.transmittedBits = t + 1 /\ e.address = a /\ e.size = z
    BY DEF EepromOf
  <2> HIDE DEF e
  <2>3. g.sent \in Width + 3 .. Width + 2 + DummyBits /\ e.transmittedBits = g.sent - 3 - Width
    <3> DEFINE j == g.sent
    <3>1. j = i + 1
      BY <1>7
    <3> HIDE DEF j
    <3>2. j \in Width + 3 .. Width + 2 + DummyBits /\ t + 1 = j - 3 - Width
      BY <1>1, <1>3, <1>11, <3>1
    <3>3. QED
      BY <2>2, <3>2 DEF j
  <2>4. e.size = chip => e.address = g.block * BlockSize
    BY <1>1, <1>7, <2>2
  <2>5. InDummies(e, g)
    BY <1>7, <2>2, <2>3, <2>4, Zenon DEF InDummies
  <2>6. QED
    BY <1>4, <1>7, <1>8, <1>9, <2>1, <2>5 DEF InFrame
<1>12. QED
  BY <1>10, <1>11

\* What a block was answered with, and the next bit of it.
LEMMA OneBitMore ==
  ASSUME NEW m, NEW a, NEW t \in Nat, NEW got, got = [k \in 1 .. t |-> CellBit(m, a, k - 1)]
  PROVE  Append(got, CellBit(m, a, t)) = [k \in 1 .. t + 1 |-> CellBit(m, a, k - 1)]
<1> DEFINE F(k) == CellBit(m, a, k - 1)
           S == {CellBit(m, a, k) : k \in Nat}
<1>1. \A k \in 1 .. t + 1 : F(k) \in S
  <2>1. ASSUME NEW k \in 1 .. t + 1
        PROVE  CellBit(m, a, k - 1) \in S
    <3>1. k - 1 \in Nat
      OBVIOUS
    <3>2. QED
      BY <3>1
  <2>2. QED
    BY <2>1
<1>2. F(t + 1) = CellBit(m, a, t)
  <2>1. (t + 1) - 1 = t
    OBVIOUS
  <2>2. QED
    BY <2>1
<1>3. got = [k \in 1 .. t |-> F(k)]
  OBVIOUS
<1> HIDE DEF F, S
<1>4. got \in Seq(S) /\ Len(got) = t
  <2>1. \A k \in 1 .. t : F(k) \in S
    <3>1. \A k \in 1 .. t : k \in 1 .. t + 1
      OBVIOUS
    <3>2. QED
      BY <1>1, <3>1
  <2>2. got \in [1 .. t -> S]
    BY <1>3, <2>1
  <2>3. QED
    BY <2>2
<1>5. F(t + 1) \in S
  BY <1>1
<1>6. Append(got, F(t + 1)) = [k \in 1 .. t + 1 |-> F(k)]
  <2> DEFINE l == Append(got, F(t + 1))
             r == [k \in 1 .. t + 1 |-> F(k)]
  <2>1. l \in Seq(S) /\ Len(l) = t + 1
    BY <1>4, <1>5
  <2>2. r \in Seq(S) /\ Len(r) = t + 1
    BY <1>1
  <2>3. \A k \in 1 .. t + 1 : l[k] = r[k]
    BY <1>3, <1>4, <1>5
  <2> HIDE DEF l, r
  <2>4. l = r
    BY <2>1, <2>2, <2>3, SeqEqual
  <2>5. QED
    BY <2>4 DEF l, r
<1>7. QED
  BY <1>2, <1>6 DEF F

\* The bits of an answer.
LEMMA AnswerBit ==
  ASSUME Good(store), IsEeprom(eeprom), IsFrame(frame), SomeFrame(frame), chip \in {"4K", "64K"},
         Answer, InAnswer(eeprom, frame, store.memory)
  PROVE  /\ eepromReady' = eepromReady
         /\ ~store'.panicked => Stage(eeprom', frame', store'.memory)
         /\ LastAnswer => eeprom'.state = AcceptCommand
         /\ LastAnswer /\ eeprom.size = chip =>
              Append(frame.got, ReadBit(eeprom, store)) = BlockIn(store.memory)
         /\ ~ReadPanics(eeprom, store) => store' = store
<1> DEFINE z == eeprom.size
           d == eeprom.detectSize
           a == eeprom.address
           sb == eeprom.serialBuffer
           t == eeprom.transmittedBits
           i == frame.sent
           m == store.memory
           bit == CellBit(m, a, t)
           more == Append(frame.got, bit)
           g == FrameOf(frame.op, frame.block, frame.data, frame.sent + 1, more)
           Panics == ReadPanics(eeprom, store)
<1>1. /\ frame.op = "read" /\ i \in Width + 3 + DummyBits .. Width + 2 + DummyBits + BlockBits
      /\ eeprom.state = Reading /\ t = i - 3 - Width - DummyBits
      /\ z = chip => a = frame.block * BlockSize /\ frame.got = [k \in 1 .. t |-> CellBit(m, a, k - 1)]
  BY DEF InAnswer
<1>2. ReadBit(eeprom, store) = bit
  <2>1. "Reading" \in eeprom.state /\ "DummyNibble" \notin eeprom.state
    BY <1>1 DEF Reading
  <2>2. QED
    BY <2>1, Zenon DEF ReadBit
<1>3. Width \in Nat /\ DummyBits \in Nat \ {0} /\ BlockBits \in Nat \ {0}
  <2>1. Width \in Nat /\ BlockBits \in Nat \ {0}
    BY FrameBitsAre
  <2>2. DummyBits \in Nat \ {0}
    BY EepromAssumption DEF EepromGeometry
  <2>3. QED
    BY <2>1, <2>2
<1>4. /\ eeprom' = AfterRead(eeprom) /\ eepromReady' = eepromReady
      /\ store' = IF Panics THEN Panicked(store) ELSE store
      /\ LastAnswer <=> i = Width + 2 + DummyBits + BlockBits
      /\ frame' = IF LastAnswer \/ Panics THEN NoFrame
                  ELSE FrameOf(frame.op, frame.block, frame.data, frame.sent + 1,
                               IF i < Width + 3 + DummyBits THEN frame.got ELSE more)
  BY <1>2, AnswerIs
<1>5. eeprom = EepromOf(z, d, Reading, a, sb, t)
  BY <1>1, EepromIs
<1>6. AfterRead(eeprom) = IF t + 1 = BlockBits THEN EepromOf(z, d, AcceptCommand, a, 0, 0)
                          ELSE EepromOf(z, d, Reading, a, sb, t + 1)
  BY <1>5, AfterReadIs
<1>7. SomeFrame(g) /\ g.op = "read" /\ g.block = frame.block /\ g.sent = i + 1 /\ g.got = more
  BY <1>1 DEF SomeFrame, FrameOf
<1>8. Panicked(store).panicked
  BY StoreChanged DEF Good, Panicked
<1>9. BlockIn(m) = [k \in 1 .. BlockBits |-> CellBit(m, frame.block * BlockSize, k - 1)]
  BY DEF BlockIn
<1> HIDE DEF g, z, d, a, sb, t, i, m, bit, Panics
<1>10. t \in 0 .. BlockBits - 1 /\ ~(i < Width + 3 + DummyBits) /\ i = t + 3 + Width + DummyBits
  BY <1>1, <1>3
<1>11. LastAnswer <=> t + 1 = BlockBits
  BY <1>3, <1>4, <1>10
<1>12. z = chip => more = [k \in 1 .. t + 1 |-> CellBit(m, a, k - 1)]
  <2>1. t \in Nat
    BY <1>10
  <2>2. bit = CellBit(m, a, t)
    BY DEF bit
  <2>3. QED
    BY <1>1, <2>1, <2>2, OneBitMore
<1> HIDE DEF more
<1>13. CASE LastAnswer
  <2> DEFINE e == EepromOf(z, d, AcceptCommand, a, 0, 0)
  <2>1. eeprom' = e /\ frame' = NoFrame
    BY <1>4, <1>6, <1>11, <1>13
  <2>2. e.state = AcceptCommand /\ e.serialBuffer = 0 /\ e.transmittedBits = 0
    BY DEF EepromOf
  <2> HIDE DEF e
  <2>3. Stage(eeprom', frame', store'.memory)
    BY <2>1, <2>2 DEF Stage, AtRest
  <2>4. z = chip => more = BlockIn(m)
    BY <1>1, <1>9, <1>11, <1>12, <1>13
  <2>5. QED
    BY <1>2, <1>4, <2>1, <2>2, <2>3, <2>4 DEF more, m, z, Panics
<1>14. CASE ~LastAnswer
  <2> DEFINE e == EepromOf(z, d, Reading, a, sb, t + 1)
  <2>1. eeprom' = e
    BY <1>4, <1>6, <1>11, <1>14
  <2>2. e.state = Reading /\ e.transmittedBits = t + 1 /\ e.address = a /\ e.size = z
    BY DEF EepromOf
  <2> HIDE DEF e
  <2>3. ASSUME ~store'.panicked
        PROVE  Stage(eeprom', frame', store'.memory)
    <3>1. ~Panics /\ store' = store
      BY <1>4, <1>8, <2>3
    <3>2. frame' = g
      BY <1>4, <1>10, <1>14, <3>1 DEF g
    <3>3. g.sent \in Width + 3 + DummyBits .. Width + 2 + DummyBits + BlockBits
          /\ e.transmittedBits = g.sent - 3 - Width - DummyBits
      <4> DEFINE j == g.sent
      <4>1. j = i + 1
        BY <1>7
      <4> HIDE DEF j
      <4>2. j \in Width + 3 + DummyBits .. Width + 2 + DummyBits + BlockBits /\ t + 1 = j - 3 - Width - DummyBits
        <5>1. t + 1 # BlockBits
          BY <1>11, <1>14
        <5>2. t \in 0 .. BlockBits - 1 /\ i = t + 3 + Width + DummyBits
          BY <1>10
        <5>3. QED
          BY <1>3, <4>1, <5>1, <5>2
      <4>3. QED
        BY <2>2, <4>2 DEF j
    <3>4. e.size = chip => /\ e.address = g.block * BlockSize
                           /\ g.got = [k \in 1 .. e.transmittedBits |-> CellBit(m, e.address, k - 1)]
      BY <1>1, <1>7, <1>12, <2>2
    <3>5. InAnswer(e, g, m)
      BY <1>7, <2>2, <3>3, <3>4, Zenon DEF InAnswer
    <3>6. QED
      BY <1>7, <2>1, <3>1, <3>2, <3>5 DEF Stage, InFrame, m
  <2>4. QED
    BY <1>4, <1>14, <2>3 DEF Panics
<1>15. QED
  BY <1>13, <1>14

\* Every bit that is read of an answer.
LEMMA AnswerGoesOn ==
  ASSUME Good(store), IsEeprom(eeprom), IsFrame(frame), chip \in {"4K", "64K"},
         Answer, Stage(eeprom, frame, store.memory)
  PROVE  /\ eepromReady' = eepromReady /\ frame.sent > 0 /\ frame.op = "read"
         /\ ~store'.panicked => Stage(eeprom', frame', store'.memory)
         /\ LastAnswer => eeprom'.state = AcceptCommand
         /\ LastAnswer /\ eeprom.size = chip =>
              Append(frame.got, ReadBit(eeprom, store)) = BlockIn(store.memory)
<1>1. InFrame(eeprom, frame, store.memory)
  BY DEF Answer, Stage, AtRest, NoFrame
<1>2. SomeFrame(frame)
  BY <1>1 DEF InFrame
<1>3. frame.op = "read" /\ frame.sent \in Nat /\ frame.sent >= Width + 3 /\ Width \in Nat /\ BlockBits \in Nat
  BY <1>2, AnswerIs, FrameBitsAre
<1>4. frame.sent > 0
  BY <1>3
<1>5. InDummies(eeprom, frame) \/ InAnswer(eeprom, frame, store.memory)
  <2>1. ~InCommand(eeprom, frame)
    BY <1>3 DEF InCommand
  <2>2. ~InAddress(eeprom, frame)
    BY <1>3 DEF InAddress
  <2>3. ~InBlock(eeprom, frame, store.memory)
    BY <1>3 DEF InBlock
  <2>4. ~AtEndToWrite(eeprom, frame, store.memory)
    BY <1>3 DEF AtEndToWrite
  <2>5. ~AtEndToRead(eeprom, frame)
    BY <1>3 DEF AtEndToRead
  <2>6. QED
    BY <1>1, <2>1, <2>2, <2>3, <2>4, <2>5 DEF InFrame
<1>6. CASE InDummies(eeprom, frame)
  <2>1. store' = store /\ eepromReady' = eepromReady /\ ~LastAnswer
        /\ \A m : InFrame(eeprom', frame', m)
    BY <1>2, <1>6, DummyBit
  <2>2. QED
    BY <1>3, <1>4, <2>1 DEF Stage
<1>7. CASE InAnswer(eeprom, frame, store.memory)
  BY <1>2, <1>3, <1>4, <1>7, AnswerBit
<1>8. QED
  BY <1>5, <1>6, <1>7

\* A chip is ready for another frame only when it has ended one that was
\* written.
Abreast(e, f, m, ready) == Stage(e, f, m) /\ (ready => f = NoFrame /\ e.state = Busy)

\* A chip whose size is known is as far in a frame as the program is, and so
\* is the one that was saved.
LiveFrame ==
  cart.kind = "EEPROM" /\ ~misled /\ ~store.panicked =>
    /\ Abreast(eeprom, frame, store.memory, eepromReady)
    /\ saved.of = "none" /\ frame.sent > 0 => eeprom.size = chip

SavedFrame ==
  cart.kind = "EEPROM" /\ saved.of # "none" =>
    /\ DOMAIN saved.memory = Cells(Sizes[saved.eeprom.size].size)
    /\ ~saved.misled => /\ Abreast(saved.eeprom, saved.frame, saved.memory, saved.ready)
                        /\ saved.frame.sent > 0 => saved.eeprom.size = chip

Framing == LiveFrame /\ SavedFrame

\* A chip that has just been started is at rest.
LEMMA FreshAtRest ==
  ASSUME NEW c, c.kind = "EEPROM", NEW s, s.stream \in BOOLEAN, NEW m
  PROVE  Stage(EEPROMOf(c, s), NoFrame, m)
<1> DEFINE e == EEPROMOf(c, s)
<1>1. e = EEPROMFor(s, c.hint)
  BY DEF EEPROMOf
<1>2. e.state = AcceptCommand /\ e.serialBuffer = 0 /\ e.transmittedBits = 0
  <2>1. CASE s.stream
    <3>1. e = ResetEEPROM(SizeOf(s), FALSE)
      BY <1>1, <2>1 DEF EEPROMFor
    <3>2. QED
      BY <3>1 DEF ResetEEPROM
  <2>2. CASE ~s.stream /\ c.hint = "Auto"
    <3>1. e = ResetEEPROM("64K", TRUE)
      BY <1>1, <2>2 DEF EEPROMFor
    <3>2. QED
      BY <3>1 DEF ResetEEPROM
  <2>3. CASE ~s.stream /\ c.hint # "Auto"
    <3>1. e = ResetEEPROM(c.hint, FALSE)
      BY <1>1, <2>3 DEF EEPROMFor
    <3>2. QED
      BY <3>1 DEF ResetEEPROM
  <2>4. QED
    BY <2>1, <2>2, <2>3
<1> HIDE DEF e
<1>3. AtRest(e, NoFrame)
  BY <1>2 DEF AtRest
<1>4. QED
  BY <1>3 DEF Stage, e

\* A frame begins with nothing sent.
LEMMA FrameBegins ==
  ASSUME IsEeprom(eeprom), chip \in {"4K", "64K"}, NEW op \in {"read", "write"}, NEW block, NEW data,
         Begin(op, block, data), NEW m, NEW m2, Abreast(eeprom, frame, m, eepromReady)
  PROVE  Abreast(eeprom', frame', m2, eepromReady') /\ frame'.sent = 0
<1> DEFINE g == FrameOf(op, block, data, 0, <<>>)
           e(z, d) == EepromOf(z, d, eeprom.state, eeprom.address, eeprom.serialBuffer, eeprom.transmittedBits)
<1>1. /\ frame = NoFrame /\ block * BlockSize < Sizes[chip].size /\ ReadBit(eeprom, store) = 1
      /\ SetSizeHint(AfterRead(eeprom), chip) /\ eepromReady' = eepromReady
      /\ frame' = [NoFrame EXCEPT !.op = op, !.block = block, !.data = data]
  BY DEF Begin
<1>2. frame' = g
  BY <1>1 DEF NoFrame, FrameOf
<1>3. AtRest(eeprom, frame)
  BY <1>1 DEF Abreast, Stage, InFrame, SomeFrame, NoFrame
<1>4. eeprom.state = AcceptCommand
  <2>1. CASE eeprom.state = Busy
    <3>1. "Reading" \notin eeprom.state /\ "Busy" \in eeprom.state
      BY <2>1 DEF Busy
    <3>2. ReadBit(eeprom, store) = 0
      BY <3>1, Zenon DEF ReadBit
    <3>3. QED
      BY <1>1, <3>2
  <2>2. QED
    BY <1>3, <2>1 DEF AtRest
<1>5. eeprom = e(eeprom.size, eeprom.detectSize)
  BY EepromIs
<1>6. AfterRead(eeprom) = eeprom
  BY <1>4, <1>5, AfterReadIs
<1>7. eeprom' = eeprom \/ eeprom' = [eeprom EXCEPT !.size = chip, !.detectSize = FALSE]
  BY <1>1, <1>6 DEF SetSizeHint
<1>8. /\ eeprom'.state = AcceptCommand /\ eeprom'.serialBuffer = 0 /\ eeprom'.transmittedBits = 0
  <2>1. CASE eeprom' = eeprom
    BY <1>3, <1>4, <2>1 DEF AtRest
  <2>2. CASE eeprom' = [eeprom EXCEPT !.size = chip, !.detectSize = FALSE]
    <3> DEFINE h == [eeprom EXCEPT !.size = chip]
    <3>1. h = e(chip, eeprom.detectSize)
      BY DEF IsEeprom, EepromOf
    <3>2. [eeprom EXCEPT !.size = chip, !.detectSize = FALSE] = [h EXCEPT !.detectSize = FALSE]
      BY DEF IsEeprom
    <3>3. PICK no : no = FALSE
      OBVIOUS
    <3>4. \A x : [e(chip, x) EXCEPT !.detectSize = no] = e(chip, no)
      BY DetectOf
    <3> HIDE DEF h
    <3>5. eeprom' = e(chip, no)
      BY <2>2, <3>1, <3>2, <3>3, <3>4
    <3>6. /\ e(chip, no).state = eeprom.state /\ e(chip, no).serialBuffer = eeprom.serialBuffer
          /\ e(chip, no).transmittedBits = eeprom.transmittedBits
      BY DEF EepromOf
    <3> HIDE DEF e
    <3>7. QED
      BY <1>3, <1>4, <3>5, <3>6 DEF AtRest
  <2>3. QED
    BY <1>7, <2>1, <2>2
<1>9. SomeFrame(g) /\ g.sent = 0 /\ g.got = <<>>
  BY <1>1 DEF SomeFrame, FrameOf
<1> HIDE DEF g
<1>10. InCommand(eeprom', g)
  BY <1>8, <1>9 DEF InCommand
<1>11. ~eepromReady
  BY <1>4 DEF Abreast, AcceptCommand, Busy
<1>12. QED
  BY <1>1, <1>2, <1>9, <1>10, <1>11 DEF Abreast, Stage, InFrame

\* A block that reads the same holds the same.
LEMMA SameBits ==
  ASSUME NEW m, NEW m2, NEW b \in Nat, \A i \in b .. b + BlockSize - 1 : m2[i] = m[i]
  PROVE  /\ \A j \in 0 .. BlockBits - 1 : CellBit(m2, b, j) = CellBit(m, b, j)
         /\ \A d, t : t \in 0 .. BlockBits /\ Holds(m, b, d, t) => Holds(m2, b, d, t)
<1>1. BlockSize \in Nat \ {0} /\ CellBits \in Nat \ {0} /\ BlockBits \in Nat
  BY EepromAssumption DEF EepromGeometry, BlockBits
<1>2. \A c \in 0 .. BlockSize - 1 : m2[b + c] = m[b + c]
  <2>1. \A c \in 0 .. BlockSize - 1 : b + c \in b .. b + BlockSize - 1
    BY <1>1
  <2>2. QED
    BY <2>1
<1>3. \A j \in 0 .. BlockBits - 1 : j \div CellBits \in 0 .. BlockSize - 1
  BY <1>1, BitInBlock
<1>4. ASSUME NEW j \in 0 .. BlockBits - 1
      PROVE  CellBit(m2, b, j) = CellBit(m, b, j)
  <2>1. m2[b + j \div CellBits] = m[b + j \div CellBits]
    BY <1>2, <1>3
  <2>2. QED
    BY <2>1, Zenon DEF CellBit
<1>5. ASSUME NEW d, NEW t \in 0 .. BlockBits, Holds(m, b, d, t)
      PROVE  Holds(m2, b, d, t)
  <2>1. \A c \in 0 .. BlockSize - 1 : m2[b + c] \in Nat /\ (t <= CellBits * c => m2[b + c] = 0)
    BY <1>2, <1>5 DEF Holds
  <2>2. \A j \in 0 .. t - 1 : CellBit(m2, b, j) = d[j + 1]
    <3>1. \A j \in 0 .. t - 1 : j \in 0 .. BlockBits - 1
      BY <1>1
    <3>2. \A j \in 0 .. t - 1 : CellBit(m, b, j) = d[j + 1]
      BY <1>5 DEF Holds
    <3>3. QED
      BY <1>4, <3>1, <3>2
  <2>3. ASSUME t < BlockBits
        PROVE  m2[b + t \div CellBits] % 2 ^ (CellBits - (t % CellBits)) = 0
    <3>1. t \in 0 .. BlockBits - 1
      BY <1>1, <2>3
    <3>2. m2[b + t \div CellBits] = m[b + t \div CellBits]
      BY <1>2, <1>3, <3>1
    <3>3. m[b + t \div CellBits] % 2 ^ (CellBits - (t % CellBits)) = 0
      BY <1>5, <2>3 DEF Holds
    <3>4. QED
      BY <3>2, <3>3
  <2>4. QED
    BY <2>1, <2>2, <2>3 DEF Holds
<1>6. QED
  BY <1>4, <1>5

\* A chip that is given another size, and a memory with the same block if the
\* size is the same, is as far as it was.
LEMMA SameStage ==
  ASSUME NEW e, NEW e2, NEW f, NEW m, NEW m2, IsFrame(f), chip \in {"4K", "64K"}, Stage(e, f, m),
         e2.state = e.state, e2.address = e.address, e2.serialBuffer = e.serialBuffer,
         e2.transmittedBits = e.transmittedBits,
         SomeFrame(f) /\ f.sent > 0 /\ e2.size = chip =>
           /\ e.size = chip
           /\ \A i \in f.block * BlockSize .. f.block * BlockSize + BlockSize - 1 : m2[i] = m[i]
  PROVE  Stage(e2, f, m2)
<1> DEFINE b == f.block * BlockSize
           t == e.transmittedBits
<1>1. CASE AtRest(e, f)
  BY <1>1 DEF Stage, AtRest
<1> SUFFICES ASSUME InFrame(e, f, m)
             PROVE  Stage(e2, f, m2)
  BY <1>1 DEF Stage
<1>2. SomeFrame(f)
  BY DEF InFrame
<1>3. b \in Nat
  BY <1>2, BlockHasAddress
<1>4. Width \in Nat \ {0} /\ BlockBits \in Nat \ {0} /\ f.sent \in Nat
  BY FrameBitsAre DEF IsFrame
<1>5. DummyBits \in Nat \ {0}
  BY EepromAssumption DEF EepromGeometry
<1>6. f.sent > 0 /\ e2.size = chip =>
        /\ e.size = chip
        /\ \A j \in 0 .. BlockBits - 1 : CellBit(m2, b, j) = CellBit(m, b, j)
        /\ \A d, k : k \in 0 .. BlockBits /\ Holds(m, b, d, k) => Holds(m2, b, d, k)
  BY <1>2, <1>3, SameBits
<1>7. CASE InCommand(e, f)
  BY <1>2, <1>7 DEF InCommand, InFrame, Stage
<1>8. CASE InAddress(e, f)
  BY <1>2, <1>8 DEF InAddress, InFrame, Stage
<1>9. CASE InBlock(e, f, m)
  <2>1. f.sent \in Width + 2 .. Width + 1 + BlockBits /\ t = f.sent - 2 - Width
    BY <1>9 DEF InBlock
  <2>2. f.sent > 0 /\ t \in 0 .. BlockBits
    BY <1>4, <2>1
  <2>3. e2.size = chip => e2.address = b /\ Holds(m2, e2.address, f.data, e2.transmittedBits)
    BY <1>6, <1>9, <2>2 DEF InBlock
  <2>4. InBlock(e2, f, m2)
    BY <1>9, <2>3, Zenon DEF InBlock
  <2>5. QED
    BY <1>2, <2>4 DEF InFrame, Stage
<1>10. CASE AtEndToWrite(e, f, m)
  <2>1. f.sent = Width + 2 + BlockBits
    BY <1>10 DEF AtEndToWrite
  <2>2. f.sent > 0 /\ BlockBits \in 0 .. BlockBits
    BY <1>4, <2>1
  <2>3. e2.size = chip => Holds(m2, b, f.data, BlockBits)
    BY <1>6, <1>10, <2>2 DEF AtEndToWrite
  <2>4. AtEndToWrite(e2, f, m2)
    BY <1>10, <2>3, Zenon DEF AtEndToWrite
  <2>5. QED
    BY <1>2, <2>4 DEF InFrame, Stage
<1>11. CASE AtEndToRead(e, f)
  <2>1. f.sent = Width + 2
    BY <1>11 DEF AtEndToRead
  <2>2. f.sent > 0
    BY <1>4, <2>1
  <2>3. e2.size = chip => e2.address = b
    BY <1>6, <1>11, <2>2 DEF AtEndToRead
  <2>4. AtEndToRead(e2, f)
    BY <1>11, <2>3, Zenon DEF AtEndToRead
  <2>5. QED
    BY <1>2, <2>4 DEF InFrame, Stage
<1>12. CASE InDummies(e, f)
  <2>1. f.sent \in Width + 3 .. Width + 2 + DummyBits
    BY <1>12 DEF InDummies
  <2>2. f.sent > 0
    BY <1>4, <1>5, <2>1
  <2>3. e2.size = chip => e2.address = b
    BY <1>6, <1>12, <2>2 DEF InDummies
  <2>4. InDummies(e2, f)
    BY <1>12, <2>3, Zenon DEF InDummies
  <2>5. QED
    BY <1>2, <2>4 DEF InFrame, Stage
<1>13. CASE InAnswer(e, f, m)
  <2>1. /\ f.sent \in Width + 3 + DummyBits .. Width + 2 + DummyBits + BlockBits
        /\ t = f.sent - 3 - Width - DummyBits
    BY <1>13 DEF InAnswer
  <2>2. f.sent > 0 /\ t \in 0 .. BlockBits - 1
    BY <1>4, <1>5, <2>1
  <2>3. ASSUME e2.size = chip
        PROVE  e2.address = b /\ f.got = [k \in 1 .. t |-> CellBit(m2, b, k - 1)]
    <3>1. e2.address = b /\ f.got = [k \in 1 .. t |-> CellBit(m, b, k - 1)]
      BY <1>6, <1>13, <2>2, <2>3 DEF InAnswer
    <3>2. \A k \in 1 .. t : CellBit(m2, b, k - 1) = CellBit(m, b, k - 1)
      <4>1. \A k \in 1 .. t : k - 1 \in 0 .. BlockBits - 1
        BY <1>4, <2>2
      <4>2. QED
        BY <1>6, <2>2, <2>3, <4>1
    <3> HIDE DEF b, t
    <3>3. [k \in 1 .. t |-> CellBit(m2, b, k - 1)] = [k \in 1 .. t |-> CellBit(m, b, k - 1)]
      BY <3>2
    <3>4. QED
      BY <3>1, <3>3
  <2>4. InAnswer(e2, f, m2)
    <3>1. e2.size = chip => /\ e2.address = f.block * BlockSize
                            /\ f.got = [k \in 1 .. e2.transmittedBits |-> CellBit(m2, e2.address, k - 1)]
      BY <2>3
    <3>2. QED
      BY <1>13, <3>1, Zenon DEF InAnswer
  <2>5. QED
    BY <1>2, <2>4 DEF InFrame, Stage
<1>14. QED
  BY <1>7, <1>8, <1>9, <1>10, <1>11, <1>12, <1>13 DEF InFrame

\* The program is written for one chip.
LEMMA SameChip ==
  ASSUME chip' = chip
  PROVE  /\ Abreast(eeprom', frame', store'.memory, eepromReady') => Abreast(eeprom, frame, store.memory, eepromReady)'
         /\ Abreast(saved'.eeprom, saved'.frame, saved'.memory, saved'.ready)
              => Abreast(saved.eeprom, saved.frame, saved.memory, saved.ready)'
<1>1. Width' = Width
  BY DEF Width
<1>2. Abreast(eeprom', frame', store'.memory, eepromReady') => Abreast(eeprom, frame, store.memory, eepromReady)'
  <2>1. AtRest(eeprom', frame') => AtRest(eeprom, frame)'
    BY DEF AtRest
  <2>2. InCommand(eeprom', frame') => InCommand(eeprom, frame)'
    BY DEF InCommand
  <2>3. InAddress(eeprom', frame') => InAddress(eeprom, frame)'
    BY <1>1 DEF InAddress
  <2>4. InBlock(eeprom', frame', store'.memory) => InBlock(eeprom, frame, store.memory)'
    BY <1>1 DEF InBlock
  <2>5. AtEndToWrite(eeprom', frame', store'.memory) => AtEndToWrite(eeprom, frame, store.memory)'
    BY <1>1 DEF AtEndToWrite
  <2>6. AtEndToRead(eeprom', frame') => AtEndToRead(eeprom, frame)'
    BY <1>1 DEF AtEndToRead
  <2>7. InDummies(eeprom', frame') => InDummies(eeprom, frame)'
    BY <1>1 DEF InDummies
  <2>8. InAnswer(eeprom', frame', store'.memory) => InAnswer(eeprom, frame, store.memory)'
    BY <1>1 DEF InAnswer
  <2>9. SomeFrame(frame') => SomeFrame(frame)'
    BY DEF SomeFrame
  <2>10. QED
    BY <2>1, <2>2, <2>3, <2>4, <2>5, <2>6, <2>7, <2>8, <2>9 DEF Abreast, Stage, InFrame
<1>3. Abreast(saved'.eeprom, saved'.frame, saved'.memory, saved'.ready)
              => Abreast(saved.eeprom, saved.frame, saved.memory, saved.ready)'
  <2> DEFINE e == saved.eeprom
             f == saved.frame
             m == saved.memory
  <2>1. AtRest(saved'.eeprom, saved'.frame) => AtRest(e, f)'
    BY DEF AtRest
  <2>2. InCommand(saved'.eeprom, saved'.frame) => InCommand(e, f)'
    BY DEF InCommand
  <2>3. InAddress(saved'.eeprom, saved'.frame) => InAddress(e, f)'
    BY <1>1 DEF InAddress
  <2>4. InBlock(saved'.eeprom, saved'.frame, saved'.memory) => InBlock(e, f, m)'
    BY <1>1 DEF InBlock
  <2>5. AtEndToWrite(saved'.eeprom, saved'.frame, saved'.memory) => AtEndToWrite(e, f, m)'
    BY <1>1 DEF AtEndToWrite
  <2>6. AtEndToRead(saved'.eeprom, saved'.frame) => AtEndToRead(e, f)'
    BY <1>1 DEF AtEndToRead
  <2>7. InDummies(saved'.eeprom, saved'.frame) => InDummies(e, f)'
    BY <1>1 DEF InDummies
  <2>8. InAnswer(saved'.eeprom, saved'.frame, saved'.memory) => InAnswer(e, f, m)'
    BY <1>1 DEF InAnswer
  <2>9. SomeFrame(saved'.frame) => SomeFrame(f)'
    BY DEF SomeFrame
  <2>10. QED
    BY <2>1, <2>2, <2>3, <2>4, <2>5, <2>6, <2>7, <2>8, <2>9 DEF Abreast, Stage, InFrame
<1>4. QED
  BY <1>2, <1>3

\* A save that is left alone is as it was.
LEMMA SavedStays ==
  ASSUME SavedFrame, chip' = chip, cart' = cart, saved' = saved
  PROVE  SavedFrame'
<1> SUFFICES ASSUME cart'.kind = "EEPROM", saved'.of # "none"
             PROVE  /\ DOMAIN saved'.memory = Cells(Sizes[saved'.eeprom.size].size)
                    /\ ~saved'.misled => /\ Abreast(saved.eeprom, saved.frame, saved.memory, saved.ready)'
                                         /\ saved'.frame.sent > 0 => saved'.eeprom.size = chip'
  BY DEF SavedFrame, Cells
<1>1. /\ DOMAIN saved.memory = Cells(Sizes[saved.eeprom.size].size)
      /\ ~saved.misled => /\ Abreast(saved.eeprom, saved.frame, saved.memory, saved.ready)
                          /\ saved.frame.sent > 0 => saved.eeprom.size = chip
  BY DEF SavedFrame
<1>2. ~saved'.misled => Abreast(saved'.eeprom, saved'.frame, saved'.memory, saved'.ready)
  BY <1>1
<1>3. QED
  BY <1>1, <1>2, SameChip

\* What there is to show of a step.
LEMMA LiveBy ==
  ASSUME chip' = chip,
         cart'.kind = "EEPROM" /\ ~misled' /\ ~store'.panicked =>
           /\ Abreast(eeprom', frame', store'.memory, eepromReady')
           /\ saved'.of = "none" /\ frame'.sent > 0 => eeprom'.size = chip
  PROVE  LiveFrame'
<1> SUFFICES ASSUME cart'.kind = "EEPROM", ~misled', ~store'.panicked
             PROVE  /\ Abreast(eeprom, frame, store.memory, eepromReady)'
                    /\ saved'.of = "none" /\ frame'.sent > 0 => eeprom'.size = chip'
  BY DEF LiveFrame
<1>1. QED
  BY SameChip

\* At the start nothing is under way.
LEMMA FramingInit == Init => Framing
<1> SUFFICES ASSUME Init
             PROVE  Framing
  OBVIOUS
<1>1. saved.of = "none" /\ frame = NoFrame /\ eepromReady = FALSE /\ eeprom = EEPROMOf(cart, store)
  BY DEF Init
<1>2. store.stream \in BOOLEAN
  BY InvInit DEF Inv, Good, IsStore
<1>3. cart.kind = "EEPROM" => Abreast(eeprom, frame, store.memory, eepromReady)
  <2>1. cart.kind = "EEPROM" => Stage(eeprom, frame, store.memory)
    BY <1>1, <1>2, FreshAtRest
  <2>2. QED
    BY <1>1, <2>1 DEF Abreast
<1>4. ~(frame.sent > 0)
  BY <1>1 DEF NoFrame
<1>5. QED
  BY <1>1, <1>3, <1>4 DEF Framing, LiveFrame, SavedFrame

\* What a step of the program needs, and keeps.
LEMMA FramingStep ==
  ASSUME Inv, Fitting, Framing, Others("EEPROM"), EepromNext
  PROVE  Framing'
<1>1. /\ cart.kind = "EEPROM" /\ cart' = cart /\ saved' = saved /\ ~store.panicked
      /\ Good(store) /\ IsEeprom(eeprom) /\ IsFrame(frame) /\ chip \in {"4K", "64K"}
      /\ Sizes[eeprom.size].size = Size(store) /\ LiveFrame /\ SavedFrame
  BY DEF Others, Inv, Fitting, EepromPart, Framing
<1>2. ~misled => /\ Abreast(eeprom, frame, store.memory, eepromReady)
                 /\ saved.of = "none" /\ frame.sent > 0 => eeprom.size = chip
  BY <1>1 DEF LiveFrame
<1>3. ASSUME NEW op \in {"read", "write"}, NEW block \in Block, NEW data, Begin(op, block, data)
      PROVE  Framing'
  <2>1. chip' = chip /\ misled' = misled
    BY <1>3 DEF Begin
  <2>2. ~misled => Abreast(eeprom', frame', store'.memory, eepromReady') /\ frame'.sent = 0
    BY <1>1, <1>2, <1>3, FrameBegins
  <2>3. LiveFrame'
    BY <2>1, <2>2, LiveBy
  <2>4. QED
    BY <1>1, <2>1, <2>3, SavedStays DEF Framing
<1>4. ASSUME NEW ok \in BOOLEAN, Unit(ok)
      PROVE  Framing'
  <2>1. chip' = chip /\ (~misled' => ~misled /\ eeprom.size = chip) /\ frame # NoFrame
    BY <1>4 DEF Unit
  <2>2. ASSUME ~misled'
        PROVE  /\ Abreast(eeprom', frame', store'.memory, eepromReady')
               /\ eeprom'.size = chip
    <3>1. /\ Stage(eeprom', frame', store'.memory)
          /\ eepromReady' = eepromReady \/ (frame' = NoFrame /\ eeprom'.state = Busy)
      BY <1>1, <1>2, <1>4, <2>1, <2>2, UnitGoesOn DEF Abreast
    <3>2. ~eepromReady
      BY <1>2, <2>1, <2>2 DEF Abreast
    <3>3. eeprom'.size = eeprom.size
      BY <1>1, <1>4, EepromStepFits DEF KeepsEeprom
    <3>4. QED
      BY <2>1, <2>2, <3>1, <3>2, <3>3 DEF Abreast
  <2>3. LiveFrame'
    BY <2>1, <2>2, LiveBy
  <2>4. QED
    BY <1>1, <2>1, <2>3, SavedStays DEF Framing
<1>5. ASSUME Answer
      PROVE  Framing'
  <2>1. chip' = chip /\ misled' = misled /\ frame.op = "read"
    BY <1>5 DEF Answer
  <2>2. ASSUME ~misled', ~store'.panicked
        PROVE  /\ Abreast(eeprom', frame', store'.memory, eepromReady')
               /\ saved.of = "none" => eeprom'.size = chip
    <3>1. Stage(eeprom', frame', store'.memory) /\ eepromReady' = eepromReady /\ frame.sent > 0
      BY <1>1, <1>2, <1>5, <2>1, <2>2, AnswerGoesOn DEF Abreast
    <3>2. ~eepromReady
      BY <1>2, <2>1, <2>2 DEF Abreast, NoFrame
    <3>3. eeprom'.size = eeprom.size
      BY <1>1, <1>5, EepromStepFits DEF KeepsEeprom
    <3>4. QED
      BY <1>2, <2>1, <2>2, <3>1, <3>2, <3>3 DEF Abreast
  <2>3. LiveFrame'
    BY <1>1, <2>1, <2>2, LiveBy
  <2>4. QED
    BY <1>1, <2>1, <2>3, SavedStays DEF Framing
<1>6. ASSUME Ready
      PROVE  Framing'
  <2>1. /\ chip' = chip /\ misled' = misled /\ frame' = frame /\ eepromReady /\ eepromReady' = FALSE
        /\ eeprom' = [eeprom EXCEPT !.state = AcceptCommand]
    BY <1>6 DEF Ready
  <2>2. /\ eeprom'.state = AcceptCommand /\ eeprom'.serialBuffer = eeprom.serialBuffer
        /\ eeprom'.transmittedBits = eeprom.transmittedBits
    BY <1>1, <2>1 DEF IsEeprom
  <2>3. ASSUME ~misled'
        PROVE  Abreast(eeprom', frame', store'.memory, eepromReady') /\ ~(frame'.sent > 0)
    <3>1. frame = NoFrame /\ AtRest(eeprom, frame)
      BY <1>2, <2>1, <2>3 DEF Abreast, Stage, InFrame, SomeFrame, NoFrame
    <3>2. AtRest(eeprom', frame')
      BY <2>1, <2>2, <3>1 DEF AtRest
    <3>3. QED
      BY <2>1, <3>1, <3>2 DEF Abreast, Stage, NoFrame
  <2>4. LiveFrame'
    BY <2>1, <2>3, LiveBy
  <2>5. QED
    BY <1>1, <2>1, <2>4, SavedStays DEF Framing
<1>7. CASE \E block \in Block : Begin("read", block, <<>>)
  <2>1. PICK block \in Block : Begin("read", block, <<>>)
    BY <1>7
  <2>2. QED
    BY <1>3, <2>1
<1>8. CASE \E block \in Block, data \in Data : Begin("write", block, data)
  <2>1. PICK block \in Block, data \in Data : Begin("write", block, data)
    BY <1>8
  <2>2. QED
    BY <1>3, <2>1
<1>9. QED
  BY <1>4, <1>5, <1>6, <1>7, <1>8 DEF EepromNext

\* A load leaves all but a size.
LEMMA LoadedIs ==
  ASSUME NEW e, IsEeprom(e)
  PROVE  /\ EEPROMLoaded(e).state = e.state /\ EEPROMLoaded(e).address = e.address
         /\ EEPROMLoaded(e).serialBuffer = e.serialBuffer
         /\ EEPROMLoaded(e).transmittedBits = e.transmittedBits
  BY DEF EEPROMLoaded, IsEeprom

\* A memory of the size it was saved with is what was saved.
LEMMA MemoryLoadedIs ==
  ASSUME NEW s, Good(s), NEW data, NEW ok \in BOOLEAN, DOMAIN data = DOMAIN s.memory
  PROVE  \A i \in DOMAIN data : MemoryLoaded(s, data, ok).memory[i] = data[i]
<1> DEFINE m == [i \in DOMAIN s.memory |-> IF i \in DOMAIN data THEN data[i] ELSE 0]
           t == [s EXCEPT !.memory = m]
<1>1. t = [memory |-> m, stream |-> s.stream, disk |-> s.disk, missed |-> s.missed,
           panicked |-> s.panicked]
  BY StoreChanged DEF Good
<1>2. m = [i \in DOMAIN m |-> m[i]] /\ DOMAIN m = DOMAIN s.memory /\ \A i \in DOMAIN data : m[i] = data[i]
  OBVIOUS
<1>3. MemoryLoaded(s, data, ok) = Update(t, DOMAIN s.memory, ok)
  BY DEF MemoryLoaded
<1> HIDE DEF m
<1>4. IsStore(t)
  BY <1>1, <1>2 DEF Good, IsStore, IsFile
<1>5. Update(t, DOMAIN s.memory, ok).memory = m
  BY <1>1, <1>4, UpdateKeeps
<1>6. QED
  BY <1>2, <1>3, <1>5

\* A load takes the frame with the chip; if the chip has the size it was saved
\* with, the block is the one that was saved.
LEMMA FramingLoad ==
  ASSUME Inv, Fitting, Framing, NEW ok \in BOOLEAN, LoadState(ok)
  PROVE  Framing'
<1>1. /\ saved.of # "none" /\ store' = MemoryLoaded(store, saved.memory, ok)
      /\ cart' = cart /\ saved' = saved /\ chip' = chip
      /\ eeprom' = EEPROMLoaded(saved.eeprom) /\ frame' = saved.frame /\ eepromReady' = saved.ready
      /\ misled' = saved.misled
  BY DEF LoadState
<1>2. ASSUME cart.kind = "EEPROM", ~misled'
      PROVE  Abreast(eeprom', frame', store'.memory, eepromReady')
  <2> DEFINE e == saved.eeprom
             f == saved.frame
  <2>1. /\ Good(store) /\ IsEeprom(eeprom) /\ IsEeprom(e) /\ IsFrame(f) /\ chip \in {"4K", "64K"}
        /\ Sizes[eeprom.size].size = Size(store)
    BY <1>1, <1>2 DEF Inv, Fitting, EepromPart, SavedPart
  <2>2. /\ DOMAIN saved.memory = Cells(Sizes[e.size].size)
        /\ Abreast(e, f, saved.memory, saved.ready)
        /\ f.sent > 0 => e.size = chip
    BY <1>1, <1>2 DEF Framing, SavedFrame
  <2>3. /\ eeprom'.state = e.state /\ eeprom'.address = e.address /\ eeprom'.serialBuffer = e.serialBuffer
        /\ eeprom'.transmittedBits = e.transmittedBits
    BY <1>1, <2>1, LoadedIs
  <2>4. eeprom'.size = eeprom.size
    BY <1>1, <2>1, EEPROMLoadedIs
  <2>5. ASSUME SomeFrame(f), f.sent > 0, eeprom'.size = chip
        PROVE  /\ e.size = chip
               /\ \A i \in f.block * BlockSize .. f.block * BlockSize + BlockSize - 1 :
                    store'.memory[i] = saved.memory[i]
    <3>1. e.size = chip /\ Size(store) = Sizes[chip].size
      BY <2>1, <2>2, <2>4, <2>5
    <3>2. Size(store) \in Nat /\ DOMAIN store.memory = Cells(Size(store))
      BY <2>1, StoreCells
    <3>3. \A i \in DOMAIN saved.memory : store'.memory[i] = saved.memory[i]
      BY <1>1, <2>1, <2>2, <3>1, <3>2, MemoryLoadedIs
    <3>4. f.block * BlockSize \in Nat /\ f.block * BlockSize + BlockSize <= Sizes[chip].size
      BY <2>1, <2>5, BlockHasAddress
    <3>5. BlockSize \in Nat
      BY EepromAssumption DEF EepromGeometry
    <3> DEFINE b == f.block * BlockSize
    <3> HIDE DEF b
    <3>6. \A i \in b .. b + BlockSize - 1 : i \in Cells(Size(store))
      BY <3>1, <3>2, <3>4, <3>5 DEF Cells, b
    <3>7. \A i \in b .. b + BlockSize - 1 : store'.memory[i] = saved.memory[i]
      BY <2>2, <3>1, <3>3, <3>6
    <3>8. QED
      BY <3>1, <3>7 DEF b
  <2> HIDE DEF e, f
  <2>6. Stage(e, f, saved.memory)
    BY <2>2 DEF Abreast
  <2>7. Stage(eeprom', f, store'.memory)
    BY <2>1, <2>3, <2>5, <2>6, SameStage
  <2>8. frame' = f
    BY <1>1 DEF f
  <2>9. saved.ready => f = NoFrame /\ eeprom'.state = Busy
    BY <2>2, <2>3 DEF Abreast
  <2>10. QED
    BY <1>1, <2>7, <2>8, <2>9 DEF Abreast
<1>3. LiveFrame'
  BY <1>1, <1>2, LiveBy
<1>4. QED
  BY <1>1, <1>3, SavedStays DEF Framing

\* A start leaves nothing under way.
LEMMA FramingRestart ==
  ASSUME Inv, Framing, NEW opens \in BOOLEAN, NEW ok \in BOOLEAN, Restart(opens, ok)
  PROVE  Framing'
<1>1. /\ cart' = cart /\ saved' = saved /\ chip' = chip /\ eepromReady' = FALSE /\ frame' = NoFrame
      /\ eeprom' = EEPROMOf(cart, store')
  BY DEF Restart
<1>2. store'.stream \in BOOLEAN
  BY InvNext DEF Inv, Good, IsStore, Next
<1>3. cart.kind = "EEPROM" => Abreast(eeprom', frame', store'.memory, eepromReady')
  <2>1. cart.kind = "EEPROM" => Stage(eeprom', frame', store'.memory)
    BY <1>1, <1>2, FreshAtRest
  <2>2. QED
    BY <1>1, <2>1 DEF Abreast
<1>4. ~(frame'.sent > 0)
  BY <1>1 DEF NoFrame
<1>5. LiveFrame'
  BY <1>1, <1>3, <1>4, LiveBy
<1>6. QED
  BY <1>1, <1>5, SavedStays DEF Framing

\* A save is as far as the chip is.
LEMMA FramingCopy ==
  ASSUME Inv, Fitting, Framing, CopyState
  PROVE  Framing'
<1>1. /\ saved.of = "none" /\ ~store.panicked /\ store' = store /\ cart' = cart /\ chip' = chip
      /\ eeprom' = eeprom /\ eepromReady' = eepromReady /\ frame' = frame /\ misled' = misled
      /\ saved'.of = "cartridge"
      /\ saved'.memory = store.memory /\ saved'.eeprom = eeprom /\ saved'.ready = eepromReady
      /\ saved'.frame = frame /\ saved'.misled = misled
  BY DEF CopyState, eepromVars
<1>2. cart.kind = "EEPROM" /\ ~misled =>
        /\ Abreast(eeprom, frame, store.memory, eepromReady)
        /\ frame.sent > 0 => eeprom.size = chip
  BY <1>1 DEF Framing, LiveFrame
<1>3. LiveFrame'
  BY <1>1, <1>2, LiveBy
<1>4. cart.kind = "EEPROM" => DOMAIN store.memory = Cells(Sizes[eeprom.size].size)
  BY StoreCells DEF Inv, Fitting, EepromPart
<1>5. cart.kind = "EEPROM" /\ ~misled => Abreast(saved.eeprom, saved.frame, saved.memory, saved.ready)'
  <2>1. cart.kind = "EEPROM" /\ ~misled => Abreast(saved'.eeprom, saved'.frame, saved'.memory, saved'.ready)
    BY <1>1, <1>2
  <2>2. QED
    BY <1>1, <2>1, SameChip
<1>6. SavedFrame'
  <2> SUFFICES ASSUME cart'.kind = "EEPROM"
               PROVE  /\ DOMAIN saved'.memory = Cells(Sizes[saved'.eeprom.size].size)
                      /\ ~saved'.misled => /\ Abreast(saved.eeprom, saved.frame, saved.memory, saved.ready)'
                                           /\ saved'.frame.sent > 0 => saved'.eeprom.size = chip'
    BY DEF SavedFrame, Cells
  <2>1. QED
    BY <1>1, <1>2, <1>4, <1>5
<1>7. QED
  BY <1>3, <1>6 DEF Framing

\* Every step keeps the chip as far in a frame as the program is.
LEMMA FramingNext == Inv /\ Fitting /\ Framing /\ [Next]_vars => Framing'
<1> SUFFICES ASSUME Inv, Fitting, Framing, [Next]_vars
             PROVE  Framing'
  OBVIOUS
<1>1. ASSUME UNCHANGED eepromVars, cart' = cart, saved' = saved, cart.kind # "EEPROM" \/ store' = store
      PROVE  Framing'
  <2>1. chip' = chip /\ eeprom' = eeprom /\ eepromReady' = eepromReady /\ frame' = frame /\ misled' = misled
    BY <1>1 DEF eepromVars
  <2>2. cart'.kind = "EEPROM" /\ ~misled' /\ ~store'.panicked =>
           /\ Abreast(eeprom', frame', store'.memory, eepromReady')
           /\ saved'.of = "none" /\ frame'.sent > 0 => eeprom'.size = chip
    BY <1>1, <2>1 DEF Framing, LiveFrame
  <2>3. LiveFrame'
    BY <2>1, <2>2, LiveBy
  <2>4. QED
    BY <1>1, <2>1, <2>3, SavedStays DEF Framing
<1>2. CASE UNCHANGED vars
  BY <1>1, <1>2 DEF vars
<1>3. ASSUME NEW kind, kind # "EEPROM", Others(kind), UNCHANGED eepromVars
      PROVE  Framing'
  BY <1>1, <1>3 DEF Others
<1>4. CASE Others("EEPROM") /\ EepromNext
  BY <1>4, FramingStep
<1>5. CASE \E opens, ok \in BOOLEAN : Restart(opens, ok)
  BY <1>5, FramingRestart
<1>6. CASE CopyState
  BY <1>6, FramingCopy
<1>7. CASE \E ok \in BOOLEAN : LoadState(ok)
  BY <1>7, FramingLoad
<1>8. QED
  BY <1>2, <1>3, <1>4, <1>5, <1>6, <1>7 DEF Next

\* What BlocksAreWhole says of a step.
WholeBlock ==
  ~misled /\ eeprom.size = chip =>
    /\ did' = "unit" =>
         /\ OtherCells
         /\ frame.op = "write" /\ LastUnit =>
              BlockIn(store'.memory) = frame.data /\ eeprom'.state = Busy
    /\ did' = "answer" /\ LastAnswer =>
         /\ Append(frame.got, ReadBit(eeprom, store)) = BlockIn(store.memory)
         /\ eeprom'.state = AcceptCommand

\* BlocksAreWhole: a chip whose size is known takes frames for what they are
\* (EEPROM.Write, EEPROM.Read), whatever was saved, loaded or restarted before.
THEOREM BlocksComeWhole == Spec => BlocksAreWhole
<1>1. Inv /\ Fitting /\ Framing /\ [Next]_vars => [WholeBlock]_<<did, store, eeprom, frame>>
  <2> SUFFICES ASSUME Inv, Fitting, Framing, [Next]_vars
               PROVE  [WholeBlock]_<<did, store, eeprom, frame>>
    OBVIOUS
  <2>1. ASSUME Others("EEPROM"), EepromNext
        PROVE  WholeBlock
    <3> SUFFICES ASSUME ~misled, eeprom.size = chip
                 PROVE  /\ did' = "unit" =>
                             /\ OtherCells
                             /\ frame.op = "write" /\ LastUnit =>
                                  BlockIn(store'.memory) = frame.data /\ eeprom'.state = Busy
                        /\ did' = "answer" /\ LastAnswer =>
                             /\ Append(frame.got, ReadBit(eeprom, store)) = BlockIn(store.memory)
                             /\ eeprom'.state = AcceptCommand
      BY DEF WholeBlock
    <3>1. /\ Good(store) /\ IsEeprom(eeprom) /\ IsFrame(frame) /\ chip \in {"4K", "64K"}
          /\ Sizes[eeprom.size].size = Size(store) /\ Stage(eeprom, frame, store.memory)
      BY <2>1 DEF Others, Inv, Fitting, EepromPart, Framing, LiveFrame, Abreast
    <3>2. CASE \E ok \in BOOLEAN : Unit(ok)
      <4>1. PICK ok \in BOOLEAN : Unit(ok)
        BY <3>2
      <4>2. did' = "unit"
        BY <4>1 DEF Unit
      <4>3. QED
        BY <3>1, <4>1, <4>2, UnitGoesOn
    <3>3. CASE Answer
      <4>1. did' = "answer"
        BY <3>3 DEF Answer
      <4>2. QED
        BY <3>1, <3>3, <4>1, AnswerGoesOn
    <3>4. CASE did' \in {"begin", "ready"}
      BY <3>4
    <3>5. QED
      BY <2>1, <3>2, <3>3, <3>4 DEF EepromNext, Begin, Ready
  <2>2. CASE UNCHANGED <<did, store, eeprom, frame>>
    BY <2>2
  <2>3. CASE did' \notin {"unit", "answer"}
    BY <2>3 DEF WholeBlock
  <2>4. \/ Others("EEPROM") /\ EepromNext
        \/ UNCHANGED <<did, store, eeprom, frame>>
        \/ did' \notin {"unit", "answer"}
    BY DEF Next, vars, eepromVars, SRAMWrite, FlashNext, Start, Send, GiveUp, Restart, CopyState, LoadState
  <2>5. QED
    BY <2>1, <2>2, <2>3, <2>4
<1>2. Spec => [](Inv /\ Fitting /\ Framing)
  BY InvInit, InvNext, FittingInit, FittingNext, FramingInit, FramingNext, PTL DEF Spec
<1>3. BlocksAreWhole <=> [][WholeBlock]_<<did, store, eeprom, frame>>
  BY Zenon DEF BlocksAreWhole, WholeBlock, OtherCells
<1>4. QED
  BY <1>1, <1>2, <1>3, PTL DEF Spec
=============================================================================
