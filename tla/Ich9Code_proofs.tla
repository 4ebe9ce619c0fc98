----------------------------- MODULE Ich9Code_proofs -----------------------------
(***************************************************************************)
(* Theorems of Ich9Code: for every set of dumps and of addresses.          *)
(***************************************************************************)
EXTENDS Ich9Code, FiniteSetTheorems, WellFoundedInduction, SequenceTheorems, TLAPS

-----------------------------------------------------------------------------
(* Powers of two and the bits of a number                                  *)

LEMMA PowerTable ==
  /\ 2^0 = 1 /\ 2^1 = 2 /\ 2^2 = 4 /\ 2^3 = 8 /\ 2^4 = 16 /\ 2^5 = 32 /\ 2^6 = 64
  /\ 2^7 = 128 /\ 2^8 = 256 /\ 2^9 = 512 /\ 2^10 = 1024 /\ 2^11 = 2048 /\ 2^12 = 4096
  /\ 2^13 = 8192 /\ 2^14 = 16384 /\ 2^15 = 32768 /\ 2^16 = 65536 /\ 2^17 = 131072
  /\ 2^18 = 262144 /\ 2^19 = 524288 /\ 2^20 = 1048576 /\ 2^21 = 2097152
  /\ 2^22 = 4194304 /\ 2^23 = 8388608 /\ 2^24 = 16777216 /\ 2^25 = 33554432
  /\ 2^26 = 67108864 /\ 2^27 = 134217728 /\ 2^28 = 268435456 /\ 2^29 = 536870912
  /\ 2^30 = 1073741824
OBVIOUS

Pow(i) == 2^i

LEMMA Powers ==
  /\ \A i \in 0 .. 30 : Pow(i) \in Nat \ {0}
  /\ \A i, j \in 0 .. 30 : i <= j => Pow(i) <= Pow(j)
  /\ \A i \in 0 .. 30 : i > 15 => Pow(i) >= 65536
<1>1. /\ Pow(0) = 1 /\ Pow(1) = 2 /\ Pow(2) = 4 /\ Pow(3) = 8 /\ Pow(4) = 16
      /\ Pow(5) = 32 /\ Pow(6) = 64 /\ Pow(7) = 128 /\ Pow(8) = 256 /\ Pow(9) = 512
      /\ Pow(10) = 1024 /\ Pow(11) = 2048 /\ Pow(12) = 4096 /\ Pow(13) = 8192
      /\ Pow(14) = 16384 /\ Pow(15) = 32768 /\ Pow(16) = 65536 /\ Pow(17) = 131072
      /\ Pow(18) = 262144 /\ Pow(19) = 524288 /\ Pow(20) = 1048576
      /\ Pow(21) = 2097152 /\ Pow(22) = 4194304 /\ Pow(23) = 8388608
      /\ Pow(24) = 16777216 /\ Pow(25) = 33554432 /\ Pow(26) = 67108864
      /\ Pow(27) = 134217728 /\ Pow(28) = 268435456 /\ Pow(29) = 536870912
      /\ Pow(30) = 1073741824
  BY PowerTable DEF Pow
<1>2. \A i \in 0 .. 30 : Pow(i) \in Nat \ {0}
  BY <1>1
<1>3. \A i, j \in 0 .. 30 : i <= j => Pow(i) <= Pow(j)
  BY <1>1
<1>4. \A i \in 0 .. 30 : i > 15 => Pow(i) >= 65536
  BY <1>1
<1>5. QED
  BY <1>2, <1>3, <1>4

(* A value that fits into some bits sets no bit beyond them.               *)
LEMMA BitsBelow ==
  ASSUME NEW bits \in 0 .. 30, NEW v \in Nat, v < Pow(bits)
  PROVE  BitsSet(v) \subseteq 0 .. bits - 1
<1>1. Pow(bits) \in Nat
  BY Powers
<1>2. ASSUME NEW j \in 0 .. 30, (v \div 2^j) % 2 = 1 PROVE j < bits
  <2>1. (v \div Pow(j)) % 2 = 1
    BY <1>2 DEF Pow
  <2>2. Pow(j) \in Nat \ {0} /\ (bits <= j => Pow(bits) <= Pow(j))
    BY Powers
  <2>3. v < Pow(j) => v \div Pow(j) = 0
    BY <1>1, <2>2
  <2>4. QED
    BY <1>1, <2>1, <2>2, <2>3
<1>3. \A j \in BitsSet(v) : j \in 0 .. 30 /\ j < bits
  BY <1>2 DEF BitsSet
<1>4. QED
  BY <1>3

-----------------------------------------------------------------------------
(* The sum over the bits of a word.  MapThenSumSet is a recursive function *)
(* over sets; the sum of sixteen terms written out is the one solution of  *)
(* its equation, by induction on the sets.                                 *)

Bits16 == 0 .. 15

Part(f, s, i) == IF i \in s THEN f[i] ELSE 0
Total(f, s) ==
  Part(f, s, 0) + Part(f, s, 1) + Part(f, s, 2) + Part(f, s, 3) + Part(f, s, 4)
  + Part(f, s, 5) + Part(f, s, 6) + Part(f, s, 7) + Part(f, s, 8) + Part(f, s, 9)
  + Part(f, s, 10) + Part(f, s, 11) + Part(f, s, 12) + Part(f, s, 13)
  + Part(f, s, 14) + Part(f, s, 15)

LEMMA TotalStep ==
  ASSUME NEW f \in [Bits16 -> Int], NEW s \in SUBSET Bits16, NEW x \in s
  PROVE  Total(f, s) = f[x] + Total(f, s \ {x}) /\ Total(f, s) \in Int
<1> DEFINE hit(i) == IF i = x THEN f[x] ELSE 0
<1>1. \A i \in 0 .. 15 :
        /\ Part(f, s, i) = Part(f, s \ {x}, i) + hit(i)
        /\ Part(f, s \ {x}, i) \in Int /\ hit(i) \in Int
  BY DEF Part
<1>2. hit(0) + hit(1) + hit(2) + hit(3) + hit(4) + hit(5) + hit(6) + hit(7) + hit(8)
      + hit(9) + hit(10) + hit(11) + hit(12) + hit(13) + hit(14) + hit(15) = f[x]
  <2>1. x \in 0 .. 15 /\ f[x] \in Int
    BY DEF Bits16
  <2>2. QED
    BY <2>1
<1> DEFINE u(i) == Part(f, s, i)
<1> DEFINE v(i) == Part(f, s \ {x}, i)
<1> HIDE DEF hit
<1>3. /\ u(0) = v(0) + hit(0) /\ u(1) = v(1) + hit(1) /\ u(2) = v(2) + hit(2)
      /\ u(3) = v(3) + hit(3) /\ u(4) = v(4) + hit(4) /\ u(5) = v(5) + hit(5)
      /\ u(6) = v(6) + hit(6) /\ u(7) = v(7) + hit(7) /\ u(8) = v(8) + hit(8)
      /\ u(9) = v(9) + hit(9) /\ u(10) = v(10) + hit(10) /\ u(11) = v(11) + hit(11)
      /\ u(12) = v(12) + hit(12) /\ u(13) = v(13) + hit(13)
      /\ u(14) = v(14) + hit(14) /\ u(15) = v(15) + hit(15)
  BY <1>1
<1>4. \A i \in 0 .. 15 : v(i) \in Int /\ hit(i) \in Int
  BY <1>1
<1>5. /\ Total(f, s) = u(0) + u(1) + u(2) + u(3) + u(4) + u(5) + u(6) + u(7) + u(8)
                       + u(9) + u(10) + u(11) + u(12) + u(13) + u(14) + u(15)
      /\ Total(f, s \ {x}) =
           v(0) + v(1) + v(2) + v(3) + v(4) + v(5) + v(6) + v(7) + v(8)
           + v(9) + v(10) + v(11) + v(12) + v(13) + v(14) + v(15)
  BY DEF Total
<1> HIDE DEF u, v
<1>6. QED
  BY <1>2, <1>3, <1>4, <1>5

(* What the fold's equation says of a function.                            *)
Folds16(f, h) ==
  h = [s \in SUBSET Bits16 |->
         IF s = {} THEN 0
         ELSE f[CHOOSE x \in s : TRUE] + h[s \ {CHOOSE x \in s : TRUE}]]

LEMMA FoldExists ==
  ASSUME NEW f \in [Bits16 -> Int]
  PROVE  Folds16(f, [s \in SUBSET Bits16 |-> Total(f, s)])
<1> DEFINE h == [s \in SUBSET Bits16 |-> Total(f, s)]
<1>1. Total(f, {}) = 0
  BY DEF Total, Part
<1>2. ASSUME NEW s \in SUBSET Bits16, s # {}
      PROVE  Total(f, s) = f[CHOOSE x \in s : TRUE] + h[s \ {CHOOSE x \in s : TRUE}]
  <2>1. PICK y : y = CHOOSE x \in s : TRUE
    OBVIOUS
  <2>2. y \in s
    BY <1>2, <2>1
  <2>3. h[s \ {y}] = Total(f, s \ {y})
    OBVIOUS
  <2>4. Total(f, s) = f[y] + Total(f, s \ {y})
    BY <2>2, TotalStep
  <2>5. QED
    BY <2>1, <2>3, <2>4
<1>3. h = [s \in SUBSET Bits16 |->
             IF s = {} THEN 0
             ELSE f[CHOOSE x \in s : TRUE] + h[s \ {CHOOSE x \in s : TRUE}]]
  BY <1>1, <1>2
<1>4. QED
  BY <1>3 DEF Folds16

LEMMA FoldUnique ==
  ASSUME NEW f \in [Bits16 -> Int], NEW h, Folds16(f, h)
  PROVE  h[Bits16] = Total(f, Bits16)
<1> DEFINE wrong == {s \in SUBSET Bits16 : h[s] # Total(f, s)}
<1>1. SUFFICES ASSUME wrong # {} PROVE FALSE
  OBVIOUS
<1>2. IsFiniteSet(Bits16)
  <2>1. \A n \in Int : IsFiniteSet(0 .. n)
    BY FS_Interval
  <2>2. 15 \in Int
    OBVIOUS
  <2>3. QED
    BY <2>1, <2>2, Zenon DEF Bits16
<1>3. \A s \in SUBSET Bits16 : IsFiniteSet(s)
  BY <1>2, FS_Subset
<1>4. wrong \subseteq FiniteSubsetsOf(Bits16)
  BY <1>3 DEF FiniteSubsetsOf
<1>5. IsWellFoundedOn(StrictSubsetOrdering(Bits16), FiniteSubsetsOf(Bits16))
  BY FS_StrictSubsetOrderingWellFounded
<1>6. PICK s \in wrong : \A t \in wrong : <<t, s>> \notin StrictSubsetOrdering(Bits16)
  BY <1>1, <1>4, <1>5, WFMin
<1>7. s # {}
  <2>1. h[{}] = 0
    BY DEF Folds16
  <2>2. Total(f, {}) = 0
    BY DEF Total, Part
  <2>3. QED
    BY <2>1, <2>2
<1>8. PICK y : y = CHOOSE x \in s : TRUE
  OBVIOUS
<1>9. y \in s /\ s \in SUBSET Bits16
  BY <1>7, <1>8
<1>10. h[s] = f[y] + h[s \ {y}]
  BY <1>7, <1>8, <1>9 DEF Folds16
<1>11. h[s \ {y}] # Total(f, s \ {y})
  BY <1>9, <1>10, TotalStep
<1>12. <<s \ {y}, s>> \in StrictSubsetOrdering(Bits16)
  BY <1>9 DEF StrictSubsetOrdering
<1>13. QED
  BY <1>6, <1>9, <1>11, <1>12

(* The words sum to the number of bits of each weight, times the weight.   *)
BitsOf(a, g, words) ==
  [w \in Bits16 |->
     2^w * Cardinality({b \in SetBits(a, g, words) : Weight(a, b) = w})]

LEMMA SumWritten ==
  ASSUME NEW a, NEW g, NEW words, BitsOf(a, g, words) \in [Bits16 -> Int]
  PROVE  SumOfWords(a, g, words) = Total(BitsOf(a, g, words), Bits16)
<1> DEFINE f == BitsOf(a, g, words)
<1> DEFINE first(s) == CHOOSE x \in s : TRUE
<1> DEFINE term(s) ==
      2^first(s) * Cardinality({b \in SetBits(a, g, words) : Weight(a, b) = first(s)})
<1> DEFINE raw(h) ==
      h = [s \in SUBSET Bits16 |->
             IF s = {} THEN 0 ELSE term(s) + h[s \ {first(s)}]]
<1>1. SumOfWords(a, g, words) = (CHOOSE h : raw(h))[Bits16]
  BY DEF SumOfWords, MapThenSumSet, MapThenFoldSet, Bits16
<1>2. ASSUME NEW s \in SUBSET Bits16, s # {} PROVE f[first(s)] = term(s)
  <2>1. first(s) \in Bits16
    BY <1>2
  <2> HIDE DEF first
  <2>2. QED
    BY <2>1 DEF BitsOf
<1> HIDE DEF term, f
<1>3. \A h : raw(h) <=> Folds16(f, h)
  <2> DEFINE left(h) ==
        [s \in SUBSET Bits16 |-> IF s = {} THEN 0 ELSE term(s) + h[s \ {first(s)}]]
  <2> DEFINE right(h) ==
        [s \in SUBSET Bits16 |-> IF s = {} THEN 0 ELSE f[first(s)] + h[s \ {first(s)}]]
  <2>1. ASSUME NEW h PROVE left(h) = right(h)
    <3>1. \A s \in SUBSET Bits16 : s # {} => f[first(s)] = term(s)
      BY <1>2
    <3> HIDE DEF first
    <3>2. QED
      BY <3>1
  <2>2. \A h : raw(h) <=> h = left(h)
    OBVIOUS
  <2>3. \A h : Folds16(f, h) <=> h = right(h)
    BY DEF Folds16
  <2> HIDE DEF left, right, raw
  <2>4. QED
    BY <2>1, <2>2, <2>3
<1> HIDE DEF raw
<1>4. f \in [Bits16 -> Int]
  BY DEF f
<1>5. raw(CHOOSE h : raw(h))
  BY <1>3, <1>4, FoldExists
<1>6. QED
  BY <1>1, <1>3, <1>4, <1>5, FoldUnique DEF f

-----------------------------------------------------------------------------
(* The checksum of a GbE region                                            *)

LEMMA AcceptedOrder ==
  ASSUME NEW a \in Abi \ Incompatible
  PROVE  ~a.bigEndian /\ ~a.msbFirst /\ ChecksumLast(a)
<1>1. ~IsBigEndian(a)
  BY DEF Incompatible, SystemOrCompilerIncompatible
<1>2. ~a.bigEndian
  BY <1>1 DEF IsBigEndian
<1>3. QED
  BY <1>2, LayoutAssumption

PlacedOf(a)    == Range(LayoutOf[a, "GBEREGIONRECORD_4K"].placed)
BeforeOf(a)    == {p \in PlacedOf(a) : p.place < 1008}
UpTo(a)        == {p \in PlacedOf(a) : p.place < 1024}
BitsAt(p, g)   == {p.place + j : j \in BitsSet(g[p.member.name])}

LEMMA PlacedBits ==
  ASSUME NEW a \in Abi \ Incompatible, NEW g
  PROVE  /\ SetBits(a, g, 63) = UNION {BitsAt(p, g) : p \in BeforeOf(a)}
         /\ SetBits(a, g, 64) = UNION {BitsAt(p, g) : p \in UpTo(a)}
<1>1. ~a.bigEndian /\ ~a.msbFirst
  BY AcceptedOrder
<1>2. \A p, j : BitOf(a, p, j) = p.place + j
  BY <1>1 DEF BitOf
<1> DEFINE bits(p) == {BitOf(a, p, j) : j \in BitsSet(g[p.member.name])}
<1>3. \A p : bits(p) = BitsAt(p, g)
  BY <1>2 DEF BitsAt
<1>4. /\ SetBits(a, g, 63) = UNION {bits(p) : p \in {q \in PlacedOf(a) : q.place < 16 * 63}}
      /\ SetBits(a, g, 64) = UNION {bits(p) : p \in {q \in PlacedOf(a) : q.place < 16 * 64}}
  BY DEF SetBits, PlacedOf
<1> HIDE DEF bits
<1>5. 16 * 63 = 1008 /\ 16 * 64 = 1024
  OBVIOUS
<1>6. QED
  BY <1>3, <1>4, <1>5 DEF BeforeOf, UpTo

LEMMA PlacedLast ==
  ASSUME NEW a \in Abi \ Incompatible
  PROVE  /\ \E q \in UpTo(a) :
              /\ UpTo(a) = BeforeOf(a) \cup {q}
              /\ q.place = 1008 /\ q.member.name = <<"checkSum">>
         /\ \A p \in BeforeOf(a) :
              /\ p.member.name \in DOMAIN GbeMember \ {<<"checkSum">>}
              /\ p.place \in Nat /\ p.place + p.member.bits <= 1008
              /\ p.member.bits = GbeMember[p.member.name].bits
<1> DEFINE before == {p \in PlacedOf(a) : p.place < 16 * ChecksumWords}
<1> DEFINE last == {p \in PlacedOf(a) : p.place < 16 * (ChecksumWords + 1)} \ before
<1>1. 16 * ChecksumWords = 1008 /\ 16 * (ChecksumWords + 1) = 1024
  BY DEF ChecksumWords
<1>2. before = BeforeOf(a) /\ last = UpTo(a) \ BeforeOf(a)
  BY <1>1 DEF BeforeOf, UpTo
<1>3. /\ \E p \in last : last = {p}
      /\ \A p \in last : p.member.name = <<"checkSum">> /\ p.place = 16 * ChecksumWords
      /\ \A p \in before :
           /\ p.member.name \in DOMAIN GbeMember \ {<<"checkSum">>}
           /\ p.member.bits = GbeMember[p.member.name].bits
           /\ p.place \in Nat /\ p.place + p.member.bits <= 16 * ChecksumWords
  BY AcceptedOrder DEF ChecksumLast, PlacedOf
<1> HIDE DEF before, last
<1>4. BeforeOf(a) \subseteq UpTo(a)
  <2>1. \A p \in BeforeOf(a) : p.place \in Nat
    BY <1>2, <1>3
  <2>2. QED
    BY <2>1 DEF BeforeOf, UpTo
<1>5. PICK q \in last : last = {q}
  BY <1>3
<1>6. q.place = 1008 /\ q.member.name = <<"checkSum">>
  BY <1>1, <1>3, <1>5
<1>7. q \in UpTo(a) /\ UpTo(a) = BeforeOf(a) \cup {q}
  BY <1>2, <1>4, <1>5
<1>8. QED
  BY <1>1, <1>2, <1>3, <1>6, <1>7

(* What fits into the members of a GbE region before the checksum.         *)
FitsBefore(g) ==
  \A n \in DOMAIN GbeMember \ {<<"checkSum">>} :
    g[n] \in Nat /\ g[n] < Pow(GbeMember[n].bits)

LEMMA BitsBefore ==
  ASSUME NEW a \in Abi \ Incompatible, NEW g, FitsBefore(g)
  PROVE  \A b \in SetBits(a, g, 63) : b \in Nat /\ b < 1008
<1>1. SUFFICES ASSUME NEW p \in BeforeOf(a), NEW j \in BitsSet(g[p.member.name])
               PROVE  p.place + j \in Nat /\ p.place + j < 1008
  <2>1. SetBits(a, g, 63) = UNION {BitsAt(p, g) : p \in BeforeOf(a)}
    BY PlacedBits
  <2>2. QED
    BY <2>1 DEF BitsAt
<1>2. /\ p.member.name \in DOMAIN GbeMember \ {<<"checkSum">>}
      /\ p.place \in Nat /\ p.place + p.member.bits <= 1008
      /\ p.member.bits = GbeMember[p.member.name].bits
  BY PlacedLast
<1>3. p.member.bits \in 1 .. 16
  BY <1>2, BitsAssumption
<1>4. p.member.bits \in 0 .. 30
  BY <1>3
<1>5. g[p.member.name] \in Nat /\ g[p.member.name] < Pow(p.member.bits)
  BY <1>2 DEF FitsBefore
<1>6. j \in 0 .. p.member.bits - 1
  BY <1>4, <1>5, BitsBelow
<1> DEFINE bits == p.member.bits
<1>7. /\ bits \in Nat /\ p.place \in Nat /\ p.place + bits <= 1008
      /\ j \in 0 .. bits - 1
  BY <1>2, <1>3, <1>6
<1> HIDE DEF bits
<1>8. QED
  BY <1>7

(* The bits of the checksum are added to those of the words before it.     *)
LEMMA BitsAdded ==
  ASSUME NEW a \in Abi \ Incompatible, NEW g, NEW h,
         \A n \in DOMAIN GbeMember \ {<<"checkSum">>} : h[n] = g[n]
  PROVE  SetBits(a, h, 64) =
           SetBits(a, g, 63) \cup {1008 + j : j \in BitsSet(h[<<"checkSum">>])}
<1>1. PICK q \in UpTo(a) :
        /\ UpTo(a) = BeforeOf(a) \cup {q}
        /\ q.place = 1008 /\ q.member.name = <<"checkSum">>
  BY PlacedLast
<1>2. \A p \in BeforeOf(a) : BitsAt(p, h) = BitsAt(p, g)
  BY PlacedLast DEF BitsAt
<1>3. BitsAt(q, h) = {1008 + j : j \in BitsSet(h[<<"checkSum">>])}
  BY <1>1 DEF BitsAt
<1>4. \A b : b \in SetBits(a, h, 64) <=> \E p \in UpTo(a) : b \in BitsAt(p, h)
  BY PlacedBits
<1>5. \A b : b \in SetBits(a, g, 63) <=> \E p \in BeforeOf(a) : b \in BitsAt(p, g)
  BY PlacedBits
<1> DEFINE added == {1008 + j : j \in BitsSet(h[<<"checkSum">>])}
<1> HIDE DEF added
<1>6. \A b : b \in SetBits(a, h, 64) <=> b \in SetBits(a, g, 63) \/ b \in added
  BY <1>1, <1>2, <1>3, <1>4, <1>5 DEF added
<1>7. SetBits(a, h, 64) = SetBits(a, g, 63) \cup added
  BY <1>6
<1>8. QED
  BY <1>7 DEF added

CountOf(a, g, words, w) == Cardinality({b \in SetBits(a, g, words) : Weight(a, b) = w})
BitOfValue(c, w) == IF w \in BitsSet(c) THEN 1 ELSE 0

LEMMA OneMore ==
  ASSUME NEW S, IsFiniteSet(S), NEW x, x \notin S
  PROVE  Cardinality(S \cup {x}) = Cardinality(S) + 1
BY FS_AddElement

LEMMA CountFinite ==
  ASSUME NEW a \in Abi \ Incompatible, NEW g, FitsBefore(g), NEW w
  PROVE  /\ IsFiniteSet({b \in SetBits(a, g, 63) : Weight(a, b) = w})
         /\ CountOf(a, g, 63, w) \in Nat
<1> DEFINE of == {b \in SetBits(a, g, 63) : Weight(a, b) = w}
<1>1. \A n \in Int : IsFiniteSet(0 .. n)
  BY FS_Interval
<1>2. PICK n \in Int : n = 1007
  OBVIOUS
<1>3. \A b \in SetBits(a, g, 63) : b \in Nat /\ b < 1008
  BY BitsBefore
<1>4. of \subseteq 0 .. n
  BY <1>2, <1>3
<1>5. IsFiniteSet(0 .. n)
  BY <1>1
<1>6. IsFiniteSet(of)
  BY <1>4, <1>5, FS_Subset
<1> HIDE DEF of
<1>7. Cardinality(of) \in Nat
  BY <1>6, FS_CardinalityType
<1>8. QED
  BY <1>6, <1>7 DEF CountOf, of

LEMMA CountAdded ==
  ASSUME NEW a \in Abi \ Incompatible, NEW g, NEW h, FitsBefore(g),
         \A n \in DOMAIN GbeMember \ {<<"checkSum">>} : h[n] = g[n],
         h[<<"checkSum">>] \in Nat, h[<<"checkSum">>] < 65536, NEW w \in Bits16
  PROVE  /\ CountOf(a, g, 63, w) \in Nat
         /\ CountOf(a, h, 64, w) = CountOf(a, g, 63, w) + BitOfValue(h[<<"checkSum">>], w)
<1> DEFINE c == h[<<"checkSum">>]
<1> DEFINE of(g1, words) == {b \in SetBits(a, g1, words) : Weight(a, b) = w}
<1>1. \A b : Weight(a, b) = b % 16
  BY AcceptedOrder DEF Weight
<1>2. \A b \in SetBits(a, g, 63) : b \in Nat /\ b < 1008
  BY BitsBefore
<1>3. BitsSet(c) \subseteq 0 .. 15
  <2>1. PICK k \in 0 .. 30 : k = 16
    OBVIOUS
  <2>2. Pow(k) = 65536
    BY <2>1, PowerTable DEF Pow
  <2>3. c \in Nat /\ c < Pow(k)
    BY <2>2
  <2>4. BitsSet(c) \subseteq 0 .. k - 1
    BY <2>3, BitsBelow
  <2>5. QED
    BY <2>1, <2>4
<1>4. SetBits(a, h, 64) = SetBits(a, g, 63) \cup {1008 + j : j \in BitsSet(c)}
  BY BitsAdded
<1>5. \A j \in BitsSet(c) : (1008 + j) % 16 = j /\ j \in Nat
  BY <1>3
<1> HIDE DEF c
<1>6. of(h, 64) = IF w \in BitsSet(c) THEN of(g, 63) \cup {1008 + w} ELSE of(g, 63)
  BY <1>1, <1>4, <1>5
<1>7. 1008 + w \notin of(g, 63)
  BY <1>2 DEF Bits16
<1>8. IsFiniteSet(of(g, 63)) /\ Cardinality(of(g, 63)) \in Nat
  BY CountFinite DEF CountOf
<1> HIDE DEF of
<1>9. Cardinality(of(g, 63) \cup {1008 + w}) = Cardinality(of(g, 63)) + 1
  BY <1>7, <1>8, OneMore
<1>10. QED
  BY <1>6, <1>8, <1>9 DEF CountOf, BitOfValue, c, of

(* A word from its bits, the least significant first.                      *)
Nibble(p, q, r, s) == p + 2 * q + 4 * r + 8 * s
Low(b)  == Nibble(b[0], b[1], b[2], b[3]) + 16 * Nibble(b[4], b[5], b[6], b[7])
High(b) == Nibble(b[8], b[9], b[10], b[11]) + 16 * Nibble(b[12], b[13], b[14], b[15])
Weighted(b) == Low(b) + 256 * High(b)

LEMMA PowersOfWord ==
  /\ Pow(0) = 1 /\ Pow(1) = 2 /\ Pow(2) = 4 /\ Pow(3) = 8 /\ Pow(4) = 16
  /\ Pow(5) = 32 /\ Pow(6) = 64 /\ Pow(7) = 128 /\ Pow(8) = 256 /\ Pow(9) = 512
  /\ Pow(10) = 1024 /\ Pow(11) = 2048 /\ Pow(12) = 4096 /\ Pow(13) = 8192
  /\ Pow(14) = 16384 /\ Pow(15) = 32768
BY PowerTable DEF Pow

LEMMA WeightedAdds ==
  ASSUME NEW x \in [Bits16 -> Int], NEW y \in [Bits16 -> Int]
  PROVE  /\ Weighted([w \in Bits16 |-> x[w] + y[w]]) = Weighted(x) + Weighted(y)
         /\ Weighted(x) \in Int
<1> DEFINE z == [w \in Bits16 |-> x[w] + y[w]]
<1>1. \A w \in 0 .. 15 : z[w] = x[w] + y[w] /\ x[w] \in Int /\ y[w] \in Int
  BY DEF Bits16
<1> HIDE DEF z
<1>2. /\ Nibble(z[0], z[1], z[2], z[3]) =
           Nibble(x[0], x[1], x[2], x[3]) + Nibble(y[0], y[1], y[2], y[3])
      /\ Nibble(x[0], x[1], x[2], x[3]) \in Int /\ Nibble(y[0], y[1], y[2], y[3]) \in Int
  <2>1. /\ z[0] = x[0] + y[0] /\ x[0] \in Int /\ y[0] \in Int
        /\ z[1] = x[1] + y[1] /\ x[1] \in Int /\ y[1] \in Int
        /\ z[2] = x[2] + y[2] /\ x[2] \in Int /\ y[2] \in Int
        /\ z[3] = x[3] + y[3] /\ x[3] \in Int /\ y[3] \in Int
    BY <1>1
  <2>2. QED
    BY <2>1 DEF Nibble
<1>3. /\ Nibble(z[4], z[5], z[6], z[7]) =
           Nibble(x[4], x[5], x[6], x[7]) + Nibble(y[4], y[5], y[6], y[7])
      /\ Nibble(x[4], x[5], x[6], x[7]) \in Int /\ Nibble(y[4], y[5], y[6], y[7]) \in Int
  <2>1. /\ z[4] = x[4] + y[4] /\ x[4] \in Int /\ y[4] \in Int
        /\ z[5] = x[5] + y[5] /\ x[5] \in Int /\ y[5] \in Int
        /\ z[6] = x[6] + y[6] /\ x[6] \in Int /\ y[6] \in Int
        /\ z[7] = x[7] + y[7] /\ x[7] \in Int /\ y[7] \in Int
    BY <1>1
  <2>2. QED
    BY <2>1 DEF Nibble
<1>4. /\ Nibble(z[8], z[9], z[10], z[11]) =
           Nibble(x[8], x[9], x[10], x[11]) + Nibble(y[8], y[9], y[10], y[11])
      /\ Nibble(x[8], x[9], x[10], x[11]) \in Int /\ Nibble(y[8], y[9], y[10], y[11]) \in Int
  <2>1. /\ z[8] = x[8] + y[8] /\ x[8] \in Int /\ y[8] \in Int
        /\ z[9] = x[9] + y[9] /\ x[9] \in Int /\ y[9] \in Int
        /\ z[10] = x[10] + y[10] /\ x[10] \in Int /\ y[10] \in Int
        /\ z[11] = x[11] + y[11] /\ x[11] \in Int /\ y[11] \in Int
    BY <1>1
  <2>2. QED
    BY <2>1 DEF Nibble
<1>5. /\ Nibble(z[12], z[13], z[14], z[15]) =
           Nibble(x[12], x[13], x[14], x[15]) + Nibble(y[12], y[13], y[14], y[15])
      /\ Nibble(x[12], x[13], x[14], x[15]) \in Int /\ Nibble(y[12], y[13], y[14], y[15]) \in Int
  <2>1. /\ z[12] = x[12] + y[12] /\ x[12] \in Int /\ y[12] \in Int
        /\ z[13] = x[13] + y[13] /\ x[13] \in Int /\ y[13] \in Int
        /\ z[14] = x[14] + y[14] /\ x[14] \in Int /\ y[14] \in Int
        /\ z[15] = x[15] + y[15] /\ x[15] \in Int /\ y[15] \in Int
    BY <1>1
  <2>2. QED
    BY <2>1 DEF Nibble
<1>6. Low(z) = Low(x) + Low(y) /\ Low(x) \in Int /\ Low(y) \in Int
  BY <1>2, <1>3 DEF Low
<1>7. High(z) = High(x) + High(y) /\ High(x) \in Int /\ High(y) \in Int
  BY <1>4, <1>5 DEF High
<1>8. QED
  BY <1>6, <1>7 DEF Weighted, z

LEMMA Binary ==
  ASSUME NEW c \in Nat, c < 65536
  PROVE  c = Weighted([w \in Bits16 |-> (c \div Pow(w)) % 2])
<1> DEFINE b == [w \in Bits16 |-> (c \div Pow(w)) % 2]
<1>1. c \div 1 = c
  OBVIOUS
<1>2. /\ b[0] = c % 2 /\ b[1] = (c \div 2) % 2 /\ b[2] = (c \div 4) % 2
      /\ b[3] = (c \div 8) % 2 /\ b[4] = (c \div 16) % 2 /\ b[5] = (c \div 32) % 2
  BY <1>1, PowersOfWord DEF Bits16
<1>3. /\ b[6] = (c \div 64) % 2 /\ b[7] = (c \div 128) % 2 /\ b[8] = (c \div 256) % 2
      /\ b[9] = (c \div 512) % 2 /\ b[10] = (c \div 1024) % 2
      /\ b[11] = (c \div 2048) % 2
  BY PowersOfWord DEF Bits16
<1>4. /\ b[12] = (c \div 4096) % 2 /\ b[13] = (c \div 8192) % 2
      /\ b[14] = (c \div 16384) % 2 /\ b[15] = (c \div 32768) % 2
  BY PowersOfWord DEF Bits16
<1>5. /\ c = 2 * (c \div 2) + (c % 2)
      /\ c \div 2 = 2 * (c \div 4) + ((c \div 2) % 2)
      /\ c \div 4 = 2 * (c \div 8) + ((c \div 4) % 2)
      /\ c \div 8 = 2 * (c \div 16) + ((c \div 8) % 2)
  OBVIOUS
<1>6. /\ c \div 16 = 2 * (c \div 32) + ((c \div 16) % 2)
      /\ c \div 32 = 2 * (c \div 64) + ((c \div 32) % 2)
      /\ c \div 64 = 2 * (c \div 128) + ((c \div 64) % 2)
      /\ c \div 128 = 2 * (c \div 256) + ((c \div 128) % 2)
  OBVIOUS
<1>7. /\ c \div 256 = 2 * (c \div 512) + ((c \div 256) % 2)
      /\ c \div 512 = 2 * (c \div 1024) + ((c \div 512) % 2)
      /\ c \div 1024 = 2 * (c \div 2048) + ((c \div 1024) % 2)
      /\ c \div 2048 = 2 * (c \div 4096) + ((c \div 2048) % 2)
  OBVIOUS
<1>8. /\ c \div 4096 = 2 * (c \div 8192) + ((c \div 4096) % 2)
      /\ c \div 8192 = 2 * (c \div 16384) + ((c \div 8192) % 2)
      /\ c \div 16384 = 2 * (c \div 32768) + ((c \div 16384) % 2)
      /\ c \div 32768 = (c \div 32768) % 2
  OBVIOUS
<1> HIDE DEF b
<1>9. Low(b) = c - 256 * (c \div 256)
  BY <1>2, <1>3, <1>5, <1>6 DEF Low, Nibble
<1>10. High(b) = c \div 256
  BY <1>3, <1>4, <1>7, <1>8 DEF High, Nibble
<1>11. Weighted(b) = c
  BY <1>9, <1>10 DEF Weighted
<1>12. QED
  BY <1>11 DEF b

LEMMA ValueOfBits ==
  ASSUME NEW c \in Nat, c < 65536
  PROVE  c = Weighted([w \in Bits16 |-> BitOfValue(c, w)])
<1>1. \A w \in Bits16 : w \in 0 .. 30 /\ Pow(w) \in Nat \ {0}
  BY Powers DEF Bits16
<1>2. \A w \in Bits16 : (c \div Pow(w)) % 2 \in 0 .. 1
  BY <1>1
<1>3. \A w \in Bits16 : w \in BitsSet(c) <=> (c \div Pow(w)) % 2 = 1
  BY <1>1 DEF BitsSet, Pow
<1>4. \A w \in Bits16 : BitOfValue(c, w) = (c \div Pow(w)) % 2
  BY <1>2, <1>3 DEF BitOfValue
<1>5. [w \in Bits16 |-> BitOfValue(c, w)] = [w \in Bits16 |-> (c \div Pow(w)) % 2]
  BY <1>4
<1>6. QED
  BY <1>5, Binary

LEMMA SumWeighted ==
  ASSUME NEW a, NEW g, NEW words, \A w \in Bits16 : CountOf(a, g, words, w) \in Nat
  PROVE  SumOfWords(a, g, words) = Weighted([w \in Bits16 |-> CountOf(a, g, words, w)])
<1> DEFINE n == [w \in Bits16 |-> CountOf(a, g, words, w)]
<1> DEFINE f == BitsOf(a, g, words)
<1>1. \A w \in Bits16 : f[w] = Pow(w) * n[w] /\ n[w] \in Nat
  BY DEF BitsOf, CountOf, Pow
<1>2. \A w \in Bits16 : Pow(w) \in Nat
  BY Powers DEF Bits16
<1>3. f \in [Bits16 -> Int]
  <2>1. \A w \in Bits16 : f[w] \in Int
    BY <1>1, <1>2
  <2>2. QED
    BY <2>1 DEF BitsOf
<1>4. SumOfWords(a, g, words) = Total(f, Bits16)
  BY <1>3, SumWritten
<1> HIDE DEF n, f
<1>5. \A w \in 0 .. 15 : Part(f, Bits16, w) = Pow(w) * n[w] /\ n[w] \in Nat
  BY <1>1 DEF Part, Bits16
<1>6. /\ Part(f, Bits16, 0) = n[0] /\ n[0] \in Nat
      /\ Part(f, Bits16, 1) = 2 * n[1] /\ n[1] \in Nat
      /\ Part(f, Bits16, 2) = 4 * n[2] /\ n[2] \in Nat
      /\ Part(f, Bits16, 3) = 8 * n[3] /\ n[3] \in Nat
      /\ Part(f, Bits16, 4) = 16 * n[4] /\ n[4] \in Nat
      /\ Part(f, Bits16, 5) = 32 * n[5] /\ n[5] \in Nat
      /\ Part(f, Bits16, 6) = 64 * n[6] /\ n[6] \in Nat
      /\ Part(f, Bits16, 7) = 128 * n[7] /\ n[7] \in Nat
  BY <1>5, PowersOfWord
<1>7. /\ Part(f, Bits16, 8) = 256 * n[8] /\ n[8] \in Nat
      /\ Part(f, Bits16, 9) = 512 * n[9] /\ n[9] \in Nat
      /\ Part(f, Bits16, 10) = 1024 * n[10] /\ n[10] \in Nat
      /\ Part(f, Bits16, 11) = 2048 * n[11] /\ n[11] \in Nat
      /\ Part(f, Bits16, 12) = 4096 * n[12] /\ n[12] \in Nat
      /\ Part(f, Bits16, 13) = 8192 * n[13] /\ n[13] \in Nat
      /\ Part(f, Bits16, 14) = 16384 * n[14] /\ n[14] \in Nat
      /\ Part(f, Bits16, 15) = 32768 * n[15] /\ n[15] \in Nat
  BY <1>5, PowersOfWord
<1> DEFINE t(i) == Part(f, Bits16, i)
<1>8. t(0) + t(1) + t(2) + t(3) + t(4) + t(5) + t(6) + t(7) = Low(n) /\ Low(n) \in Int
  BY <1>6 DEF Low, Nibble
<1>9. /\ t(8) + t(9) + t(10) + t(11) + t(12) + t(13) + t(14) + t(15) = 256 * High(n)
      /\ High(n) \in Int
  BY <1>7 DEF High, Nibble
<1>10. /\ t(8) \in Int /\ t(9) \in Int /\ t(10) \in Int /\ t(11) \in Int
       /\ t(12) \in Int /\ t(13) \in Int /\ t(14) \in Int /\ t(15) \in Int
  BY <1>7
<1>11. Total(f, Bits16) =
         t(0) + t(1) + t(2) + t(3) + t(4) + t(5) + t(6) + t(7)
         + t(8) + t(9) + t(10) + t(11) + t(12) + t(13) + t(14) + t(15)
  BY DEF Total
<1> DEFINE low == t(0) + t(1) + t(2) + t(3) + t(4) + t(5) + t(6) + t(7)
<1>12. Total(f, Bits16) =
         low + t(8) + t(9) + t(10) + t(11) + t(12) + t(13) + t(14) + t(15)
  BY <1>11
<1> HIDE DEF low, t
<1>13. Total(f, Bits16) = Weighted(n)
  BY <1>8, <1>9, <1>10, <1>12 DEF Weighted, low
<1>14. QED
  BY <1>4, <1>13 DEF n

(* The words with the checksum sum to those before it and the checksum.    *)
LEMMA SumAdded ==
  ASSUME NEW a \in Abi \ Incompatible, NEW g, NEW h, FitsBefore(g),
         \A n \in DOMAIN GbeMember \ {<<"checkSum">>} : h[n] = g[n],
         h[<<"checkSum">>] \in Nat, h[<<"checkSum">>] < 65536
  PROVE  /\ SumOfWords(a, g, 63) \in Int
         /\ SumOfWords(a, h, 64) = SumOfWords(a, g, 63) + h[<<"checkSum">>]
<1> DEFINE x == [w \in Bits16 |-> CountOf(a, g, 63, w)]
<1> DEFINE y == [w \in Bits16 |-> BitOfValue(h[<<"checkSum">>], w)]
<1> DEFINE z == [w \in Bits16 |-> CountOf(a, h, 64, w)]
<1>1. \A w \in Bits16 :
        CountOf(a, g, 63, w) \in Nat /\ BitOfValue(h[<<"checkSum">>], w) \in Nat
  BY CountAdded DEF BitOfValue
<1>2. \A w \in Bits16 :
        CountOf(a, h, 64, w) = CountOf(a, g, 63, w) + BitOfValue(h[<<"checkSum">>], w)
  BY CountAdded
<1>3. \A w \in Bits16 : CountOf(a, h, 64, w) \in Nat
  BY <1>1, <1>2
<1>4. SumOfWords(a, g, 63) = Weighted(x)
  BY <1>1, SumWeighted
<1>5. SumOfWords(a, h, 64) = Weighted(z)
  BY <1>3, SumWeighted
<1>6. h[<<"checkSum">>] = Weighted(y)
  BY ValueOfBits
<1>7. x \in [Bits16 -> Int] /\ y \in [Bits16 -> Int]
  BY <1>1
<1>8. z = [w \in Bits16 |-> x[w] + y[w]]
  BY <1>2
<1> HIDE DEF x, y, z
<1>9. Weighted(z) = Weighted(x) + Weighted(y) /\ Weighted(x) \in Int
  BY <1>7, <1>8, WeightedAdds
<1>10. QED
  BY <1>4, <1>5, <1>6, <1>9

LEMMA SumInt ==
  ASSUME NEW a \in Abi \ Incompatible, NEW g, FitsBefore(g)
  PROVE  SumOfWords(a, g, 63) \in Int
<1> DEFINE x == [w \in Bits16 |-> CountOf(a, g, 63, w)]
<1>1. \A w \in Bits16 : CountOf(a, g, 63, w) \in Nat
  BY CountFinite
<1>2. x \in [Bits16 -> Int]
  BY <1>1
<1>3. SumOfWords(a, g, 63) = Weighted(x)
  BY <1>1, SumWeighted
<1> HIDE DEF x
<1>4. QED
  BY <1>2, <1>3, WeightedAdds

(* So the words of a region whose checksum has been set sum to 0xBABA.     *)
LEMMA SummedSums ==
  ASSUME NEW a \in Abi \ Incompatible, NEW g, NEW h, FitsBefore(g),
         \A n \in DOMAIN GbeMember \ {<<"checkSum">>} : h[n] = g[n],
         h[<<"checkSum">>] = Checksum(a, g)
  PROVE  /\ Checksum(a, g) \in Nat /\ Checksum(a, g) < 65536
         /\ SumOfWords(a, h, 64) % 65536 = \hBABA
<1> DEFINE s == SumOfWords(a, g, 63)
<1> DEFINE c == (47802 - s) % 65536
<1>1. s \in Int
  BY SumInt
<1>2. Checksum(a, g) = c
  BY DEF Checksum, ChecksumWords
<1> HIDE DEF s
<1>3. c \in Nat /\ c < 65536 /\ (s + c) % 65536 = 47802
  BY <1>1
<1> HIDE DEF c
<1>4. SumOfWords(a, h, 64) = s + c
  BY <1>2, <1>3, SumAdded DEF s
<1>5. QED
  BY <1>2, <1>3, <1>4

-----------------------------------------------------------------------------
(* Members by their names                                                  *)

LEMMA Named2 ==
  ASSUME NEW a, NEW b, NEW n
  PROVE  <<a, b>> \o <<n>> = <<a, b, n>>
<1> DEFINE S == {a, b, n}
<1>1. <<a, b>> \in Seq(S) /\ <<n>> \in Seq(S) /\ <<a, b, n>> \in Seq(S)
  OBVIOUS
<1>2. <<a, b>> \o <<n>> \in Seq(S)
  BY <1>1
<1>3. Len(<<a, b>> \o <<n>>) = 3 /\ Len(<<a, b, n>>) = 3
  BY <1>1
<1>4. \A i \in 1 .. 3 : (<<a, b>> \o <<n>>)[i] = <<a, b, n>>[i]
  BY <1>1
<1> HIDE DEF S
<1>5. QED
  BY <1>1, <1>2, <1>3, <1>4, SeqEqual

LEMMA Named1 ==
  ASSUME NEW a, NEW n
  PROVE  <<a>> \o <<n>> = <<a, n>>
<1> DEFINE S == {a, n}
<1>1. <<a>> \in Seq(S) /\ <<n>> \in Seq(S) /\ <<a, n>> \in Seq(S)
  OBVIOUS
<1>2. <<a>> \o <<n>> \in Seq(S)
  BY <1>1
<1>3. Len(<<a>> \o <<n>>) = 2 /\ Len(<<a, n>>) = 2
  BY <1>1
<1>4. \A i \in 1 .. 2 : (<<a>> \o <<n>>)[i] = <<a, n>>[i]
  BY <1>1
<1> HIDE DEF S
<1>5. QED
  BY <1>1, <1>2, <1>3, <1>4, SeqEqual

LEMMA In2 ==
  ASSUME NEW a, NEW b, NEW names
  PROVE  In(<<a, b>>, names) = {<<a, b, n>> : n \in names}
BY Named2 DEF In

LEMMA In1 ==
  ASSUME NEW a, NEW names
  PROVE  In(<<a>>, names) = {<<a, n>> : n \in names}
BY Named1 DEF In

LEMMA In0 ==
  ASSUME NEW names
  PROVE  In(<<>>, names) = {<<n>> : n \in names}
<1>1. \A n : <<>> \o <<n>> = <<n>>
  OBVIOUS
<1>2. QED
  BY <1>1 DEF In

(* What Set does to the members it names, and that it keeps the others.    *)
LEMMA Set2 ==
  ASSUME NEW values, NEW a, NEW b, NEW changes
  PROVE  /\ DOMAIN Set(values, <<a, b>>, changes) = DOMAIN values
         /\ \A n \in DOMAIN changes : <<a, b, n>> \in DOMAIN values =>
              Set(values, <<a, b>>, changes)[<<a, b, n>>] = changes[n]
         /\ \A m \in DOMAIN values : (\A n \in DOMAIN changes : m # <<a, b, n>>) =>
              Set(values, <<a, b>>, changes)[m] = values[m]
<1> DEFINE at == At(<<a, b>>, changes)
<1>1. Len(<<a, b>>) + 1 = 3
  OBVIOUS
<1>2. at = [m \in {<<a, b, n>> : n \in DOMAIN changes} |-> changes[m[3]]]
  BY <1>1, In2 DEF At
<1>3. /\ DOMAIN at = {<<a, b, n>> : n \in DOMAIN changes}
      /\ \A n \in DOMAIN changes : at[<<a, b, n>>] = changes[n]
  <2> HIDE DEF at
  <2> DEFINE names == {<<a, b, n>> : n \in DOMAIN changes}
  <2>1. \A n \in DOMAIN changes : <<a, b, n>> \in names /\ <<a, b, n>>[3] = n
    OBVIOUS
  <2>2. at = [m \in names |-> changes[m[3]]]
    BY <1>2
  <2> HIDE DEF names
  <2>3. DOMAIN at = names /\ \A n \in DOMAIN changes : at[<<a, b, n>>] = changes[n]
    BY <2>1, <2>2
  <2>4. QED
    BY <2>3 DEF names
<1> HIDE DEF at
<1>4. Set(values, <<a, b>>, changes) =
        [m \in DOMAIN values |-> IF m \in DOMAIN at THEN at[m] ELSE values[m]]
  BY DEF Set, Changed, at
<1>5. QED
  BY <1>3, <1>4

LEMMA Set1 ==
  ASSUME NEW values, NEW a, NEW changes
  PROVE  /\ DOMAIN Set(values, <<a>>, changes) = DOMAIN values
         /\ \A n \in DOMAIN changes : <<a, n>> \in DOMAIN values =>
              Set(values, <<a>>, changes)[<<a, n>>] = changes[n]
         /\ \A m \in DOMAIN values : (\A n \in DOMAIN changes : m # <<a, n>>) =>
              Set(values, <<a>>, changes)[m] = values[m]
<1> DEFINE at == At(<<a>>, changes)
<1>1. at = [m \in {<<a, n>> : n \in DOMAIN changes} |-> changes[m[Len(<<a>>) + 1]]]
  BY In1 DEF At
<1>2. Len(<<a>>) + 1 = 2
  OBVIOUS
<1>3. /\ DOMAIN at = {<<a, n>> : n \in DOMAIN changes}
      /\ \A n \in DOMAIN changes : at[<<a, n>>] = changes[n]
  BY <1>1, <1>2
<1> HIDE DEF at
<1>4. Set(values, <<a>>, changes) =
        [m \in DOMAIN values |-> IF m \in DOMAIN at THEN at[m] ELSE values[m]]
  BY DEF Set, Changed, at
<1>5. QED
  BY <1>3, <1>4

LEMMA Set0 ==
  ASSUME NEW values, NEW changes
  PROVE  /\ DOMAIN Set(values, <<>>, changes) = DOMAIN values
         /\ \A n \in DOMAIN changes : <<n>> \in DOMAIN values =>
              Set(values, <<>>, changes)[<<n>>] = changes[n]
         /\ \A m \in DOMAIN values : (\A n \in DOMAIN changes : m # <<n>>) =>
              Set(values, <<>>, changes)[m] = values[m]
<1> DEFINE at == At(<<>>, changes)
<1>1. at = [m \in {<<n>> : n \in DOMAIN changes} |-> changes[m[Len(<<>>) + 1]]]
  BY In0 DEF At
<1>2. Len(<<>>) + 1 = 1
  OBVIOUS
<1>3. /\ DOMAIN at = {<<n>> : n \in DOMAIN changes}
      /\ \A n \in DOMAIN changes : at[<<n>>] = changes[n]
  BY <1>1, <1>2
<1> HIDE DEF at
<1>4. Set(values, <<>>, changes) =
        [m \in DOMAIN values |-> IF m \in DOMAIN at THEN at[m] ELSE values[m]]
  BY DEF Set, Changed, at
<1>5. QED
  BY <1>3, <1>4

-----------------------------------------------------------------------------
(* The members that the tools set                                          *)

AccessNames ==
  {"fdRegionReadAccess", "biosRegionReadAccess", "meRegionReadAccess",
   "gbeRegionReadAccess", "pdRegionReadAccess", "fdRegionWriteAccess",
   "biosRegionWriteAccess", "meRegionWriteAccess", "gbeRegionWriteAccess",
   "pdRegionWriteAccess"}

LEMMA AccessesAre == Accesses = AccessNames
<1>1. /\ DOMAIN ReadAccess = 1 .. 5 /\ ReadAccess[1] = "fdRegionReadAccess"
      /\ ReadAccess[2] = "biosRegionReadAccess" /\ ReadAccess[3] = "meRegionReadAccess"
      /\ ReadAccess[4] = "gbeRegionReadAccess" /\ ReadAccess[5] = "pdRegionReadAccess"
  BY DEF ReadAccess
<1>2. /\ DOMAIN WriteAccess = 1 .. 5 /\ WriteAccess[1] = "fdRegionWriteAccess"
      /\ WriteAccess[2] = "biosRegionWriteAccess"
      /\ WriteAccess[3] = "meRegionWriteAccess"
      /\ WriteAccess[4] = "gbeRegionWriteAccess"
      /\ WriteAccess[5] = "pdRegionWriteAccess"
  BY DEF WriteAccess
<1>3. Range(ReadAccess) = {ReadAccess[1], ReadAccess[2], ReadAccess[3], ReadAccess[4],
                           ReadAccess[5]}
  BY <1>1 DEF Range
<1>4. Range(WriteAccess) = {WriteAccess[1], WriteAccess[2], WriteAccess[3],
                            WriteAccess[4], WriteAccess[5]}
  BY <1>2 DEF Range
<1>5. QED
  BY <1>1, <1>2, <1>3, <1>4 DEF Accesses, AccessNames

LEMMA ComputedOnce == \A c, e \in Computed : c[1] = e[1] => c = e
BY DEF Computed

LEMMA ArgumentOf ==
  ASSUME NEW n, NEW argument, <<n, argument>> \in Computed
  PROVE  n \in DOMAIN ByArguments /\ ByArguments[n] = From(argument)
<1> DEFINE the == CHOOSE e \in Computed : e[1] = n
<1>1. \E e \in Computed : e[1] = n
  OBVIOUS
<1>2. the \in Computed /\ the[1] = n
  BY <1>1
<1>3. n \in {e[1] : e \in Computed}
  OBVIOUS
<1>4. ByArguments[n] = From(the[2]) /\ n \in DOMAIN ByArguments
  BY <1>3 DEF ByArguments
<1> HIDE DEF the
<1>5. the = <<n, argument>>
  BY <1>2, ComputedOnce
<1>6. the[2] = argument
  BY <1>5
<1>7. QED
  BY <1>4, <1>6

(* The names in a descriptor that this proof speaks of.                    *)
NR        == <<"flMaps", "flMap0", "NR">>
Density(i) == <<"componentSection", "flcomp",
                IF i = 1 THEN "component1Density" ELSE "component2Density">>
Reg(r, n) == <<"regionSection", FlReg[r], n>>
Mstr(m, n) == <<"masterAccessSection", FlMstr[m], n>>
Ich(n)    == <<"ichStraps", "ichStrap0", n>>
Mch(n)    == <<"mchStraps", "mchStrap0", n>>
Magic(i)  == <<"oemSection", "magicString", ToString(i)>>

LEMMA Registers ==
  /\ D!Region = {"fd", "bios", "me", "gbe", "pd"}
  /\ FlReg["fd"] = "flReg0" /\ FlReg["bios"] = "flReg1" /\ FlReg["me"] = "flReg2"
  /\ FlReg["gbe"] = "flReg3" /\ FlReg["pd"] = "flReg4"
  /\ D!Master = {"host", "me", "gbe"}
  /\ FlMstr["host"] = "flMstr1" /\ FlMstr["me"] = "flMstr2" /\ FlMstr["gbe"] = "flMstr3"
BY DEF D!Region, D!Master, FlReg, FlMstr

LEMMA RegistersApart ==
  /\ \A r, q \in D!Region : FlReg[r] = FlReg[q] => r = q
  /\ \A m, l \in D!Master : FlMstr[m] = FlMstr[l] => m = l
BY Registers

LEMMA ReadsWrites ==
  \A r \in D!Region : Reads[r] \in AccessNames /\ Writes[r] \in AccessNames
BY DEF D!Region, Reads, Writes, AccessNames

LEMMA NamesComputed ==
  /\ <<NR, "regions">> \in Computed
  /\ <<Density(1), "density">> \in Computed /\ <<Density(2), "density">> \in Computed
  /\ <<Reg("bios", "BASE"), "biosBase">> \in Computed
  /\ <<Reg("bios", "LIMIT"), "biosLimit">> \in Computed
  /\ <<Reg("gbe", "BASE"), "gbeBase">> \in Computed
  /\ <<Reg("gbe", "LIMIT"), "gbeLimit">> \in Computed
  /\ <<Ich("integratedGbe"), "onboard">> \in Computed
  /\ <<Ich("lanPhy"), "onboard">> \in Computed
BY DEF Computed, NR, Density, Reg, Ich, FlReg

LEMMA NamesWritten ==
  /\ NR \in DOMAIN FdMember
  /\ Density(1) \in DOMAIN FdMember /\ Density(2) \in DOMAIN FdMember
  /\ \A r \in D!Region : Reg(r, "BASE") \in DOMAIN FdMember
                         /\ Reg(r, "LIMIT") \in DOMAIN FdMember
  /\ \A m \in D!Master, n \in AccessNames : Mstr(m, n) \in DOMAIN FdMember
  /\ Ich("integratedGbe") \in DOMAIN FdMember /\ Ich("lanPhy") \in DOMAIN FdMember
  /\ Ich("meDisable") \in DOMAIN FdMember /\ Mch("meDisable") \in DOMAIN FdMember
  /\ Mch("tpmDisable") \in DOMAIN FdMember
  /\ \A i \in 0 .. 7 : Magic(i) \in DOMAIN FdMember
<1>1. DOMAIN FdMember = DescriptorWritten
  BY WrittenAssumption
<1>2. \A n, argument : <<n, argument>> \in Computed => n \in DOMAIN FdMember
  BY <1>1, ArgumentOf DEF DescriptorWritten
<1>3. /\ NR \in DOMAIN FdMember
      /\ Density(1) \in DOMAIN FdMember /\ Density(2) \in DOMAIN FdMember
      /\ Ich("integratedGbe") \in DOMAIN FdMember /\ Ich("lanPhy") \in DOMAIN FdMember
      /\ \A r \in {"bios", "gbe"} : Reg(r, "BASE") \in DOMAIN FdMember
                                    /\ Reg(r, "LIMIT") \in DOMAIN FdMember
  BY <1>2, NamesComputed
<1>4. \A r \in {"fd", "me", "pd"} : Reg(r, "BASE") \in RegionWritten
                                    /\ Reg(r, "LIMIT") \in RegionWritten
  BY In2, Registers DEF RegionWritten, Register, Reg
<1>5. \A m \in D!Master, n \in AccessNames : Mstr(m, n) \in MasterWritten
  BY In2, Registers, AccessesAre DEF MasterWritten, Mstr
<1>6. /\ Ich("meDisable") \in StrapsWritten /\ Mch("meDisable") \in StrapsWritten
      /\ Mch("tpmDisable") \in StrapsWritten
  BY In2 DEF StrapsWritten, Ich, Mch
<1>7. \A i \in 0 .. 7 : Magic(i) \in TailWritten
  BY In2 DEF TailWritten, Magic, Indices
<1>8. QED
  BY <1>1, <1>3, <1>4, <1>5, <1>6, <1>7, Registers DEF DescriptorWritten

(* No member of one part of the descriptor is one of another.              *)
Apart == /\ \A r, q, n, k : Reg(r, n) = Reg(q, k) => FlReg[r] = FlReg[q] /\ n = k
         /\ \A m, l, n, k : Mstr(m, n) = Mstr(l, k) => FlMstr[m] = FlMstr[l] /\ n = k
         /\ \A n, k : (Ich(n) = Ich(k) => n = k) /\ (Mch(n) = Mch(k) => n = k)
         /\ \A r, m, n, k : Reg(r, n) # Mstr(m, k) /\ Reg(r, n) # Ich(k)
                            /\ Reg(r, n) # Mch(k) /\ Reg(r, n) # NR
         /\ \A m, n, k : Mstr(m, n) # Ich(k) /\ Mstr(m, n) # Mch(k) /\ Mstr(m, n) # NR
         /\ \A n, k : Ich(n) # Mch(k) /\ Ich(n) # NR /\ Mch(n) # NR
         /\ \A i, r, m, n : Magic(i) # Reg(r, n) /\ Magic(i) # Mstr(m, n)
                            /\ Magic(i) # Ich(n) /\ Magic(i) # Mch(n) /\ Magic(i) # NR
         /\ \A j, r, m, n : Density(j) # Reg(r, n) /\ Density(j) # Mstr(m, n)
                            /\ Density(j) # Ich(n) /\ Density(j) # Mch(n)
         /\ \A i, j : Density(j) # NR /\ Density(j) # Magic(i)
         /\ Density(1) # Density(2)

LEMMA NamesApart == Apart
<1>1. /\ \A r, q, n, k : Reg(r, n) = Reg(q, k) => FlReg[r] = FlReg[q] /\ n = k
      /\ \A m, l, n, k : Mstr(m, n) = Mstr(l, k) => FlMstr[m] = FlMstr[l] /\ n = k
      /\ \A n, k : (Ich(n) = Ich(k) => n = k) /\ (Mch(n) = Mch(k) => n = k)
  BY DEF Reg, Mstr, Ich, Mch
<1>2. /\ \A r, m, n, k : Reg(r, n) # Mstr(m, k) /\ Reg(r, n) # Ich(k)
                         /\ Reg(r, n) # Mch(k) /\ Reg(r, n) # NR
      /\ \A m, n, k : Mstr(m, n) # Ich(k) /\ Mstr(m, n) # Mch(k) /\ Mstr(m, n) # NR
      /\ \A n, k : Ich(n) # Mch(k) /\ Ich(n) # NR /\ Mch(n) # NR
  BY DEF Reg, Mstr, Ich, Mch, NR
<1>3. \A i, r, m, n : Magic(i) # Reg(r, n) /\ Magic(i) # Mstr(m, n)
                      /\ Magic(i) # Ich(n) /\ Magic(i) # Mch(n) /\ Magic(i) # NR
  BY DEF Magic, Reg, Mstr, Ich, Mch, NR
<1>4. /\ \A j, r, m, n : Density(j) # Reg(r, n) /\ Density(j) # Mstr(m, n)
                         /\ Density(j) # Ich(n) /\ Density(j) # Mch(n)
      /\ \A i, j : Density(j) # NR /\ Density(j) # Magic(i)
      /\ Density(1) # Density(2)
  BY DEF Density, Magic, Reg, Mstr, Ich, Mch, NR
<1>5. QED
  BY <1>1, <1>2, <1>3, <1>4 DEF Apart

-----------------------------------------------------------------------------
(* The edits, member by member                                             *)

Kept(d, e, names) ==
  /\ DOMAIN d = DOMAIN FdMember /\ DOMAIN e = DOMAIN FdMember
  /\ \A m \in DOMAIN FdMember \ names : e[m] = d[m]

AccessSet(d, e, m, bit) ==
  /\ Kept(d, e, {Mstr(m, n) : n \in AccessNames})
  /\ \A n \in AccessNames : e[Mstr(m, n)] = bit
RegionSet(d, e, r, base, limit) ==
  /\ Kept(d, e, {Reg(r, "BASE"), Reg(r, "LIMIT")})
  /\ e[Reg(r, "BASE")] = base /\ e[Reg(r, "LIMIT")] = limit

LEMMA AccessEdit ==
  ASSUME NEW d, DOMAIN d = DOMAIN FdMember, NEW m \in D!Master, NEW bit,
         NEW e, e = Access(d, FlMstr[m], bit)
  PROVE  AccessSet(d, e, m, bit)
<1> DEFINE changes == Each(Accesses, bit)
<1>1. DOMAIN changes = AccessNames /\ \A n \in AccessNames : changes[n] = bit
  BY AccessesAre DEF Each
<1>2. e = Set(d, <<"masterAccessSection", FlMstr[m]>>, changes)
  BY DEF Access
<1> HIDE DEF changes
<1>3. /\ DOMAIN e = DOMAIN d
      /\ \A n \in DOMAIN changes : Mstr(m, n) \in DOMAIN d => e[Mstr(m, n)] = changes[n]
      /\ \A k \in DOMAIN d : (\A n \in DOMAIN changes : k # Mstr(m, n)) => e[k] = d[k]
  BY <1>2, Set2 DEF Mstr
<1>4. QED
  BY <1>1, <1>3, NamesWritten DEF Kept, AccessSet

LEMMA RegionEdit ==
  ASSUME NEW d, DOMAIN d = DOMAIN FdMember, NEW r \in D!Region, NEW base, NEW limit,
         NEW e, e = RegionAt(d, FlReg[r], base, limit)
  PROVE  RegionSet(d, e, r, base, limit)
<1> DEFINE changes == [BASE |-> base, LIMIT |-> limit]
<1>1. /\ DOMAIN changes = {"BASE", "LIMIT"}
      /\ changes["BASE"] = base /\ changes["LIMIT"] = limit
  OBVIOUS
<1>2. e = Set(d, <<"regionSection", FlReg[r]>>, changes)
  BY DEF RegionAt
<1> HIDE DEF changes
<1>3. /\ DOMAIN e = DOMAIN d
      /\ \A n \in DOMAIN changes : Reg(r, n) \in DOMAIN d => e[Reg(r, n)] = changes[n]
      /\ \A k \in DOMAIN d : (\A n \in DOMAIN changes : k # Reg(r, n)) => e[k] = d[k]
  BY <1>2, Set2 DEF Reg
<1>4. QED
  BY <1>1, <1>3, NamesWritten DEF Kept, RegionSet

LEMMA CountEdit ==
  ASSUME NEW d, DOMAIN d = DOMAIN FdMember, NEW count,
         NEW e, e = Set(d, <<"flMaps", "flMap0">>, [NR |-> count])
  PROVE  Kept(d, e, {NR}) /\ e[NR] = count
<1> DEFINE changes == [NR |-> count]
<1>1. DOMAIN changes = {"NR"} /\ changes["NR"] = count
  OBVIOUS
<1> HIDE DEF changes
<1>2. /\ DOMAIN e = DOMAIN d
      /\ NR \in DOMAIN d => e[NR] = count
      /\ \A k \in DOMAIN d : k # NR => e[k] = d[k]
  BY <1>1, Set2 DEF NR, changes
<1>3. QED
  BY <1>2, NamesWritten DEF Kept

LEMMA StrapEdit ==
  ASSUME NEW d, DOMAIN d = DOMAIN FdMember, NEW bit, NEW e,
         e = Set(d, <<"ichStraps", "ichStrap0">>, [integratedGbe |-> bit, lanPhy |-> bit])
  PROVE  /\ Kept(d, e, {Ich("integratedGbe"), Ich("lanPhy")})
         /\ e[Ich("integratedGbe")] = bit /\ e[Ich("lanPhy")] = bit
<1> DEFINE changes == [integratedGbe |-> bit, lanPhy |-> bit]
<1>1. /\ DOMAIN changes = {"integratedGbe", "lanPhy"}
      /\ changes["integratedGbe"] = bit /\ changes["lanPhy"] = bit
  OBVIOUS
<1> HIDE DEF changes
<1>2. /\ DOMAIN e = DOMAIN d
      /\ \A n \in DOMAIN changes : Ich(n) \in DOMAIN d => e[Ich(n)] = changes[n]
      /\ \A k \in DOMAIN d : (\A n \in DOMAIN changes : k # Ich(n)) => e[k] = d[k]
  BY Set2 DEF Ich, changes
<1>3. QED
  BY <1>1, <1>2, NamesWritten DEF Kept

LEMMA MeEdit ==
  ASSUME NEW d, DOMAIN d = DOMAIN FdMember
  PROVE  /\ Kept(d, DisableMe(d), {Ich("meDisable"), Mch("meDisable")})
         /\ DisableMe(d)[Ich("meDisable")] = 1 /\ DisableMe(d)[Mch("meDisable")] = 1
<1> DEFINE changes == [meDisable |-> 1]
<1> DEFINE c == Set(d, <<"ichStraps", "ichStrap0">>, changes)
<1> DEFINE e == Set(c, <<"mchStraps", "mchStrap0">>, changes)
<1>1. DOMAIN changes = {"meDisable"} /\ changes["meDisable"] = 1
  OBVIOUS
<1>2. DisableMe(d) = e
  BY DEF DisableMe
<1> HIDE DEF changes
<1>3. /\ DOMAIN c = DOMAIN d
      /\ Ich("meDisable") \in DOMAIN d => c[Ich("meDisable")] = 1
      /\ \A k \in DOMAIN d : k # Ich("meDisable") => c[k] = d[k]
  BY <1>1, Set2 DEF Ich
<1> HIDE DEF c
<1>4. /\ DOMAIN e = DOMAIN c
      /\ Mch("meDisable") \in DOMAIN c => e[Mch("meDisable")] = 1
      /\ \A k \in DOMAIN c : k # Mch("meDisable") => e[k] = c[k]
  BY <1>1, Set2 DEF Mch
<1> HIDE DEF e
<1>5. Ich("meDisable") # Mch("meDisable")
  BY DEF Ich, Mch
<1>6. QED
  BY <1>2, <1>3, <1>4, <1>5, NamesWritten DEF Kept

LEMMA TpmEdit ==
  ASSUME NEW d, DOMAIN d = DOMAIN FdMember
  PROVE  Kept(d, DisableTpm(d), {Mch("tpmDisable")}) /\ DisableTpm(d)[Mch("tpmDisable")] = 1
<1> DEFINE changes == [tpmDisable |-> 1]
<1> DEFINE e == Set(d, <<"mchStraps", "mchStrap0">>, changes)
<1>1. DOMAIN changes = {"tpmDisable"} /\ changes["tpmDisable"] = 1
  OBVIOUS
<1>2. DisableTpm(d) = e
  BY DEF DisableTpm
<1> HIDE DEF changes
<1>3. /\ DOMAIN e = DOMAIN d
      /\ Mch("tpmDisable") \in DOMAIN d => e[Mch("tpmDisable")] = 1
      /\ \A k \in DOMAIN d : k # Mch("tpmDisable") => e[k] = d[k]
  BY <1>1, Set2 DEF Mch
<1> HIDE DEF e
<1>4. QED
  BY <1>2, <1>3, NamesWritten DEF Kept

LEMMA LiberateIs ==
  /\ DOMAIN Liberate = 1 .. 8 /\ Len(Liberate) = 8
  /\ \A i \in 1 .. 8 : Liberate[i] \in Nat /\ Liberate[i] < 256
BY DEF Liberate

LEMMA MagicArray ==
  /\ DOMAIN ArrayOf(Liberate) = Indices(8)
  /\ \A i \in 0 .. 7 : ArrayOf(Liberate)[ToString(i)] = Liberate[i + 1]
<1>1. DOMAIN ArrayOf(Liberate) = Indices(8)
  BY LiberateIs DEF ArrayOf
<1>2. ASSUME NEW i \in 0 .. 7 PROVE ArrayOf(Liberate)[ToString(i)] = Liberate[i + 1]
  <2>1. ToString(i) \in Indices(8)
    BY DEF Indices
  <2>2. PICK j : j = CHOOSE k \in 1 .. 8 : ToString(k - 1) = ToString(i)
    OBVIOUS
  <2>3. i + 1 \in 1 .. 8 /\ (i + 1) - 1 = i
    OBVIOUS
  <2>4. j \in 1 .. 8 /\ ToString(j - 1) = ToString(i)
    BY <2>2, <2>3
  <2>5. j - 1 \in 0 .. 11 /\ i \in 0 .. 11
    BY <2>4
  <2>6. j - 1 = i
    BY <2>4, <2>5, BitsAssumption
  <2>7. ArrayOf(Liberate)[ToString(i)] = Liberate[j]
    BY <2>1, <2>2, LiberateIs DEF ArrayOf
  <2>8. QED
    BY <2>4, <2>6, <2>7
<1>3. QED
  BY <1>1, <1>2

LEMMA OemEdit ==
  ASSUME NEW d, DOMAIN d = DOMAIN FdMember
  PROVE  /\ Kept(d, OemString(d), {Magic(i) : i \in 0 .. 7})
         /\ \A i \in 0 .. 7 : OemString(d)[Magic(i)] = Liberate[i + 1]
<1> DEFINE changes == ArrayOf(Liberate)
<1> DEFINE e == Set(d, <<"oemSection", "magicString">>, changes)
<1>1. OemString(d) = e
  BY DEF OemString
<1>2. /\ DOMAIN changes = {ToString(i) : i \in 0 .. 7}
      /\ \A i \in 0 .. 7 : changes[ToString(i)] = Liberate[i + 1]
  BY MagicArray DEF Indices
<1> HIDE DEF changes
<1>3. /\ DOMAIN e = DOMAIN d
      /\ \A i \in 0 .. 7 : Magic(i) \in DOMAIN d => e[Magic(i)] = Liberate[i + 1]
      /\ \A k \in DOMAIN d : (\A i \in 0 .. 7 : k # Magic(i)) => e[k] = d[k]
  BY <1>2, Set2 DEF Magic
<1> HIDE DEF e
<1>4. QED
  BY <1>1, <1>3, NamesWritten DEF Kept
On(gbe) == IF gbe THEN 1 ELSE 0
GbeBiosNames ==
  {NR, Ich("integratedGbe"), Ich("lanPhy"), Reg("gbe", "BASE"), Reg("gbe", "LIMIT"),
   Reg("bios", "BASE"), Reg("bios", "LIMIT")}

(* What GbeBiosRegions writes.                                             *)
GbeBiosSet(e, gbe, blocks) ==
  /\ e[NR] = 1 + On(gbe)
  /\ e[Ich("integratedGbe")] = On(gbe) /\ e[Ich("lanPhy")] = On(gbe)
  /\ e[Reg("gbe", "BASE")] = IF gbe THEN 1 ELSE 8191
  /\ e[Reg("gbe", "LIMIT")] = IF gbe THEN 2 ELSE 0
  /\ e[Reg("bios", "BASE")] = 1 + On(gbe) * 2
  /\ e[Reg("bios", "LIMIT")] = (blocks - 1) % 8192

LEMMA GbeBiosEdit ==
  ASSUME NEW d, DOMAIN d = DOMAIN FdMember, NEW gbe, NEW blocks,
         NEW e, e = GbeBiosRegions(d, gbe, blocks)
  PROVE  Kept(d, e, GbeBiosNames) /\ GbeBiosSet(e, gbe, blocks)
<1> DEFINE bit == On(gbe)
<1> DEFINE c1 == Set(d, <<"flMaps", "flMap0">>, [NR |-> 1 + bit])
<1> DEFINE c2 == Set(c1, <<"ichStraps", "ichStrap0">>,
                     [integratedGbe |-> bit, lanPhy |-> bit])
<1> DEFINE start == IF gbe THEN 1 ELSE 8191
<1> DEFINE end == IF gbe THEN 2 ELSE 0
<1> DEFINE c3 == RegionAt(c2, FlReg["gbe"], start, end)
<1>1. e = RegionAt(c3, FlReg["bios"], 1 + bit * 2, (blocks - 1) % 8192)
  BY Registers DEF GbeBiosRegions, On, D!DescriptorBlocks, D!GbeBlocks
<1>2. Kept(d, c1, {NR}) /\ c1[NR] = 1 + bit
  BY CountEdit
<1>3. DOMAIN c1 = DOMAIN FdMember
  BY <1>2 DEF Kept, RegionSet, AccessSet
<1> HIDE DEF c1
<1>4. /\ Kept(c1, c2, {Ich("integratedGbe"), Ich("lanPhy")})
      /\ c2[Ich("integratedGbe")] = bit /\ c2[Ich("lanPhy")] = bit
  BY <1>3, StrapEdit
<1>5. DOMAIN c2 = DOMAIN FdMember
  BY <1>4 DEF Kept, RegionSet, AccessSet
<1> HIDE DEF c2
<1>6. RegionSet(c2, c3, "gbe", start, end)
  BY <1>5, RegionEdit, Registers
<1>7. DOMAIN c3 = DOMAIN FdMember
  BY <1>6 DEF Kept, RegionSet, AccessSet
<1> HIDE DEF c3
<1>8. RegionSet(c3, e, "bios", 1 + bit * 2, (blocks - 1) % 8192)
  BY <1>1, <1>7, RegionEdit, Registers
<1> HIDE DEF bit
<1>9. Kept(d, e, GbeBiosNames)
  BY <1>2, <1>4, <1>6, <1>8 DEF Kept, RegionSet, AccessSet, GbeBiosNames
<1>10. /\ Reg("gbe", "BASE") \notin {Reg("bios", "BASE"), Reg("bios", "LIMIT")}
       /\ Reg("gbe", "LIMIT") \notin {Reg("bios", "BASE"), Reg("bios", "LIMIT")}
  BY NamesApart, Registers DEF Apart
<1>11. /\ \A n \in {NR, Ich("integratedGbe"), Ich("lanPhy")} : \A r, k : n # Reg(r, k)
       /\ NR \notin {Ich("integratedGbe"), Ich("lanPhy")}
  BY NamesApart DEF Apart
<1>12. e[NR] = c1[NR] /\ e[Ich("integratedGbe")] = c2[Ich("integratedGbe")]
       /\ e[Ich("lanPhy")] = c2[Ich("lanPhy")]
  BY <1>4, <1>6, <1>8, <1>11, NamesWritten DEF Kept, RegionSet, AccessSet
<1>13. e[Reg("gbe", "BASE")] = start /\ e[Reg("gbe", "LIMIT")] = end
  BY <1>6, <1>8, <1>10, NamesWritten, Registers DEF Kept, RegionSet, AccessSet
<1>14. QED
  BY <1>2, <1>4, <1>8, <1>9, <1>12, <1>13 DEF GbeBiosSet, RegionSet, bit

(* A descriptor without its management engine and TPM.                     *)
Disabled(e) ==
  /\ e[Ich("meDisable")] = 1 /\ e[Mch("meDisable")] = 1 /\ e[Mch("tpmDisable")] = 1
DisabledNames == {Ich("meDisable"), Mch("meDisable"), Mch("tpmDisable")}
Freed(e) == \A n \in AccessNames : e[Mstr("host", n)] = 1 /\ e[Mstr("me", n)] = 0
FreedNames == {Mstr(m, n) : m \in {"host", "me"}, n \in AccessNames}

LEMMA DisabledEdit ==
  ASSUME NEW d, DOMAIN d = DOMAIN FdMember, NEW e, e = DisableTpm(DisableMe(d))
  PROVE  Kept(d, e, DisabledNames) /\ Disabled(e)
<1> DEFINE c == DisableMe(d)
<1>1. /\ Kept(d, c, {Ich("meDisable"), Mch("meDisable")})
      /\ c[Ich("meDisable")] = 1 /\ c[Mch("meDisable")] = 1
  BY MeEdit
<1>2. DOMAIN c = DOMAIN FdMember
  BY <1>1 DEF Kept, RegionSet, AccessSet
<1>3. e = DisableTpm(c)
  OBVIOUS
<1> HIDE DEF c
<1>4. Kept(c, e, {Mch("tpmDisable")}) /\ e[Mch("tpmDisable")] = 1
  BY <1>2, <1>3, TpmEdit
<1>5. Ich("meDisable") # Mch("tpmDisable") /\ Mch("meDisable") # Mch("tpmDisable")
  BY NamesApart DEF Apart
<1>6. QED
  BY <1>1, <1>4, <1>5, NamesWritten DEF Kept, RegionSet, AccessSet, Disabled, DisabledNames

LEMMA FreedEdit ==
  ASSUME NEW d, DOMAIN d = DOMAIN FdMember, NEW e,
         \/ e = HostRegionsUnlocked(MeRegionsForbidden(d))
         \/ e = MeRegionsForbidden(HostRegionsUnlocked(d))
  PROVE  Kept(d, e, FreedNames) /\ Freed(e)
<1>1. /\ \A c : HostRegionsUnlocked(c) = Access(c, FlMstr["host"], 1)
      /\ \A c : MeRegionsForbidden(c) = Access(c, FlMstr["me"], 0)
      /\ {"host", "me"} \subseteq D!Master
  BY Registers DEF HostRegionsUnlocked, MeRegionsForbidden
<1>2. PICK m \in {"host", "me"}, l \in {"host", "me"} :
        /\ m # l
        /\ e = Access(Access(d, FlMstr[m], On(m = "host")), FlMstr[l], On(l = "host"))
  BY <1>1 DEF On
<1> DEFINE b1 == On(m = "host")
<1> DEFINE b2 == On(l = "host")
<1> DEFINE c == Access(d, FlMstr[m], b1)
<1>3. AccessSet(d, c, m, b1)
  BY <1>1, AccessEdit
<1>4. DOMAIN c = DOMAIN FdMember
  BY <1>3 DEF Kept, RegionSet, AccessSet
<1>5. e = Access(c, FlMstr[l], b2) /\ l \in D!Master
  BY <1>1, <1>2
<1> HIDE DEF c, b1, b2
<1>6. AccessSet(c, e, l, b2)
  BY <1>4, <1>5, AccessEdit
<1>7. \A n, k : Mstr(m, n) # Mstr(l, k)
  BY <1>1, <1>2, NamesApart, RegistersApart DEF Apart
<1>8. \A n \in AccessNames : e[Mstr(m, n)] = b1
  BY <1>1, <1>3, <1>6, <1>7, NamesWritten DEF Kept, RegionSet, AccessSet
<1>9. Freed(e)
  BY <1>2, <1>6, <1>8 DEF Freed, AccessSet, On, b1, b2
<1>10. Kept(d, e, FreedNames)
  BY <1>3, <1>6 DEF Kept, RegionSet, AccessSet, FreedNames
<1>11. QED
  BY <1>9, <1>10

MagicNames == {Magic(i) : i \in 0 .. 7}
GoneNames  == {Reg(r, n) : r \in {"me", "pd"}, n \in {"BASE", "LIMIT"}}
GoneRegions(e) ==
  \A r \in {"me", "pd"} : e[Reg(r, "BASE")] = 8191 /\ e[Reg(r, "LIMIT")] = 0

LEMMA GoneEdit ==
  ASSUME NEW d, DOMAIN d = DOMAIN FdMember, NEW e,
         e = RegionRemoved(RegionRemoved(d, "flReg2"), "flReg4")
  PROVE  Kept(d, e, GoneNames) /\ GoneRegions(e)
<1> DEFINE c == RegionAt(d, FlReg["me"], 8191, 0)
<1>1. e = RegionAt(c, FlReg["pd"], 8191, 0) /\ "me" \in D!Region /\ "pd" \in D!Region
  BY Registers DEF RegionRemoved
<1>2. RegionSet(d, c, "me", 8191, 0)
  BY <1>1, RegionEdit
<1>3. DOMAIN c = DOMAIN FdMember
  BY <1>2 DEF Kept, RegionSet, AccessSet
<1> HIDE DEF c
<1>4. RegionSet(c, e, "pd", 8191, 0)
  BY <1>1, <1>3, RegionEdit
<1>5. \A n, k : Reg("me", n) # Reg("pd", k)
  BY <1>1, NamesApart, RegistersApart DEF Apart
<1>6. QED
  BY <1>1, <1>2, <1>4, <1>5, NamesWritten DEF Kept, RegionSet, AccessSet, GoneRegions, GoneNames

IsLiberated(e) == \A i \in 0 .. 7 : e[Magic(i)] = Liberate[i + 1]

LEMMA NamesDisjoint ==
  /\ GbeBiosNames \cap (DisabledNames \cup FreedNames \cup MagicNames \cup GoneNames) = {}
  /\ DisabledNames \cap (FreedNames \cup MagicNames \cup GoneNames) = {}
  /\ FreedNames \cap (MagicNames \cup GoneNames) = {}
  /\ MagicNames \cap GoneNames = {}
<1>1. /\ \A n \in {"BASE", "LIMIT"}, r \in {"me", "pd"} : Reg(r, n) \notin GbeBiosNames
  BY NamesApart, Registers DEF Apart, GbeBiosNames
<1>2. /\ \A n \in DisabledNames : n \notin GbeBiosNames
      /\ \A n \in FreedNames : n \notin GbeBiosNames
      /\ \A n \in MagicNames : n \notin GbeBiosNames
  BY NamesApart DEF Apart, GbeBiosNames, DisabledNames, FreedNames, MagicNames
<1>3. GbeBiosNames \cap GoneNames = {}
  BY <1>1 DEF GoneNames
<1>4. GbeBiosNames \cap (DisabledNames \cup FreedNames \cup MagicNames \cup GoneNames) = {}
  BY <1>2, <1>3
<1>5. DisabledNames \cap (FreedNames \cup MagicNames \cup GoneNames) = {}
  BY NamesApart DEF Apart, DisabledNames, FreedNames, MagicNames, GoneNames
<1>6. FreedNames \cap (MagicNames \cup GoneNames) = {}
  BY NamesApart DEF Apart, FreedNames, MagicNames, GoneNames
<1>7. MagicNames \cap GoneNames = {}
  BY NamesApart DEF Apart, MagicNames, GoneNames
<1>8. QED
  BY <1>4, <1>5, <1>6, <1>7

(* What one edit set, another keeps.                                       *)
LEMMA SetKept ==
  ASSUME NEW d, NEW e, NEW names, Kept(d, e, names)
  PROVE  /\ GbeBiosNames \cap names = {} =>
              \A gbe, blocks : GbeBiosSet(d, gbe, blocks) => GbeBiosSet(e, gbe, blocks)
         /\ DisabledNames \cap names = {} => (Disabled(d) => Disabled(e))
         /\ FreedNames \cap names = {} => (Freed(d) => Freed(e))
         /\ GoneNames \cap names = {} => (GoneRegions(d) => GoneRegions(e))
<1>1. GbeBiosNames \cap names = {} => \A n \in GbeBiosNames : e[n] = d[n]
  BY NamesWritten, Registers DEF Kept, GbeBiosNames
<1>2. DisabledNames \cap names = {} => \A n \in DisabledNames : e[n] = d[n]
  BY NamesWritten DEF Kept, DisabledNames
<1>3. FreedNames \cap names = {} => \A n \in FreedNames : e[n] = d[n]
  BY NamesWritten, Registers DEF Kept, FreedNames
<1>4. GoneNames \cap names = {} => \A n \in GoneNames : e[n] = d[n]
  BY NamesWritten, Registers DEF Kept, GoneNames
<1>5. (\A n \in GbeBiosNames : e[n] = d[n]) =>
        \A gbe, blocks : GbeBiosSet(d, gbe, blocks) => GbeBiosSet(e, gbe, blocks)
  BY DEF GbeBiosNames, GbeBiosSet
<1>6. (\A n \in DisabledNames : e[n] = d[n]) => (Disabled(d) => Disabled(e))
  BY DEF DisabledNames, Disabled
<1>7. (\A n \in FreedNames : e[n] = d[n]) => (Freed(d) => Freed(e))
  BY DEF FreedNames, Freed
<1>8. (\A n \in GoneNames : e[n] = d[n]) => (GoneRegions(d) => GoneRegions(e))
  BY DEF GoneNames, GoneRegions
<1>9. QED
  BY <1>1, <1>2, <1>3, <1>4, <1>5, <1>6, <1>7, <1>8

LEMMA KeptTwice ==
  ASSUME NEW c, NEW d, NEW e, NEW some, NEW more, Kept(c, d, some), Kept(d, e, more)
  PROVE  Kept(c, e, some \cup more)
BY DEF Kept

DemedSet(d, e) ==
  Kept(d, e, DisabledNames \cup FreedNames) /\ Disabled(e) /\ Freed(e)
DeblobbedSet(d, e, gbe, blocks) ==
  /\ Kept(d, e, GbeBiosNames \cup GoneNames \cup DisabledNames \cup FreedNames \cup MagicNames)
  /\ GbeBiosSet(e, gbe, blocks) /\ GoneRegions(e) /\ Disabled(e) /\ Freed(e)
  /\ IsLiberated(e)

LEMMA DemedEdit ==
  ASSUME NEW d, DOMAIN d = DOMAIN FdMember
  PROVE  DemedSet(d, DemedFd(d))
<1> DEFINE c == DisableTpm(DisableMe(d))
<1> DEFINE e == DemedFd(d)
<1>1. e = MeRegionsForbidden(HostRegionsUnlocked(c))
  BY DEF DemedFd
<1>2. Kept(d, c, DisabledNames) /\ Disabled(c)
  BY DisabledEdit
<1>3. DOMAIN c = DOMAIN FdMember
  BY <1>2 DEF Kept
<1> HIDE DEF c, e
<1>4. Kept(c, e, FreedNames) /\ Freed(e)
  BY <1>1, <1>3, FreedEdit
<1>5. Disabled(e)
  BY <1>2, <1>4, SetKept, NamesDisjoint
<1>6. Kept(d, e, DisabledNames \cup FreedNames)
  BY <1>2, <1>4, KeptTwice
<1>7. QED
  BY <1>4, <1>5, <1>6 DEF DemedSet, e

LEMMA DeblobbedEdit ==
  ASSUME NEW d, DOMAIN d = DOMAIN FdMember, NEW blocks
  PROVE  DeblobbedSet(d, DeblobbedFd(d, blocks), DefinesGbeRegion(d), blocks)
<1> DEFINE gbe == DefinesGbeRegion(d)
<1> DEFINE c1 == GbeBiosRegions(d, gbe, blocks)
<1> DEFINE c2 == RegionRemoved(RegionRemoved(c1, "flReg2"), "flReg4")
<1> DEFINE c3 == DisableTpm(DisableMe(c2))
<1> DEFINE c4 == HostRegionsUnlocked(MeRegionsForbidden(c3))
<1> DEFINE e == DeblobbedFd(d, blocks)
<1>1. e = OemString(c4)
  BY DEF DeblobbedFd, SetGbeBiosRegions
<1> HIDE DEF gbe, e
<1>2. Kept(d, c1, GbeBiosNames) /\ GbeBiosSet(c1, gbe, blocks)
  BY GbeBiosEdit
<1>3. DOMAIN c1 = DOMAIN FdMember
  BY <1>2 DEF Kept
<1> HIDE DEF c1
<1>4. Kept(c1, c2, GoneNames) /\ GoneRegions(c2)
  BY <1>3, GoneEdit
<1>5. DOMAIN c2 = DOMAIN FdMember
  BY <1>4 DEF Kept
<1> HIDE DEF c2
<1>6. Kept(c2, c3, DisabledNames) /\ Disabled(c3)
  BY <1>5, DisabledEdit
<1>7. DOMAIN c3 = DOMAIN FdMember
  BY <1>6 DEF Kept
<1> HIDE DEF c3
<1>8. Kept(c3, c4, FreedNames) /\ Freed(c4)
  BY <1>7, FreedEdit
<1>9. DOMAIN c4 = DOMAIN FdMember
  BY <1>8 DEF Kept
<1> HIDE DEF c4
<1>10. Kept(c4, e, MagicNames) /\ IsLiberated(e)
  BY <1>1, <1>9, OemEdit DEF MagicNames, IsLiberated
<1>11. GbeBiosSet(c2, gbe, blocks)
  BY <1>2, <1>4, SetKept, NamesDisjoint
<1>12. GbeBiosSet(c3, gbe, blocks) /\ GoneRegions(c3)
  BY <1>4, <1>6, <1>11, SetKept, NamesDisjoint
<1>13. GbeBiosSet(c4, gbe, blocks) /\ GoneRegions(c4) /\ Disabled(c4)
  BY <1>6, <1>8, <1>12, SetKept, NamesDisjoint
<1>14. GbeBiosSet(e, gbe, blocks) /\ GoneRegions(e) /\ Disabled(e) /\ Freed(e)
  BY <1>8, <1>10, <1>13, SetKept, NamesDisjoint
<1>15. Kept(d, c2, GbeBiosNames \cup GoneNames)
  BY <1>2, <1>4, KeptTwice
<1>16. Kept(d, c3, GbeBiosNames \cup GoneNames \cup DisabledNames)
  BY <1>6, <1>15, KeptTwice
<1>17. Kept(d, c4, GbeBiosNames \cup GoneNames \cup DisabledNames \cup FreedNames)
  BY <1>8, <1>16, KeptTwice
<1>18. Kept(d, e, GbeBiosNames \cup GoneNames \cup DisabledNames \cup FreedNames
                  \cup MagicNames)
  BY <1>10, <1>17, KeptTwice
<1>19. QED
  BY <1>10, <1>14, <1>18 DEF DeblobbedSet, gbe, e

-----------------------------------------------------------------------------
(* And field by field: each edit is the one of Ich9Descriptor.             *)

ExtentOf(d, r) == [base |-> d[Reg(r, "BASE")], limit |-> d[Reg(r, "LIMIT")]]
AccessOf(d, m) ==
  [read  |-> {r \in D!Region : d[Mstr(m, Reads[r])] = 1},
   write |-> {r \in D!Region : d[Mstr(m, Writes[r])] = 1}]
MeOff(d) == d[Ich("meDisable")] = 1 /\ d[Mch("meDisable")] = 1
TpmOff(d) == d[Mch("tpmDisable")] = 1

DescriptorOf(extent, count, density, access, integratedGbe, lanPhy, meOff, tpmOff, liberate) ==
  [extent |-> extent, count |-> count, density |-> density, access |-> access,
   integratedGbe |-> integratedGbe, lanPhy |-> lanPhy, meOff |-> meOff,
   tpmOff |-> tpmOff, liberate |-> liberate]

LEMMA Shape ==
  ASSUME NEW d
  PROVE  AsDescriptor(d) =
           DescriptorOf([r \in D!Region |-> ExtentOf(d, r)], d[NR],
                  <<d[Density(1)], d[Density(2)]>>, [m \in D!Master |-> AccessOf(d, m)],
                  d[Ich("integratedGbe")], d[Ich("lanPhy")],
                  MeOff(d), TpmOff(d), IsLiberated(d))
<1> DEFINE liberate ==
      \A i \in DOMAIN Liberate :
        d[<<"oemSection", "magicString", ToString(i - 1)>>] = Liberate[i]
<1>1. liberate = IsLiberated(d)
  <2>1. \A i \in 1 .. 8 : i - 1 \in 0 .. 7 /\ (i - 1) + 1 = i
    OBVIOUS
  <2>2. \A i \in 0 .. 7 : i + 1 \in 1 .. 8 /\ (i + 1) - 1 = i
    OBVIOUS
  <2>3. QED
    BY <2>1, <2>2, LiberateIs DEF IsLiberated, Magic
<1> DEFINE extent ==
      [r \in D!Region |->
         [base  |-> d[<<"regionSection", FlReg[r], "BASE">>],
          limit |-> d[<<"regionSection", FlReg[r], "LIMIT">>]]]
<1>2. extent = [r \in D!Region |-> ExtentOf(d, r)]
  BY DEF ExtentOf, Reg
<1> DEFINE access ==
      [m \in D!Master |->
         [read  |-> {r \in D!Region :
                       d[<<"masterAccessSection", FlMstr[m], Reads[r]>>] = 1},
          write |-> {r \in D!Region :
                       d[<<"masterAccessSection", FlMstr[m], Writes[r]>>] = 1}]]
<1>3. access = [m \in D!Master |-> AccessOf(d, m)]
  BY DEF AccessOf, Mstr
<1> DEFINE meOff == /\ d[<<"ichStraps", "ichStrap0", "meDisable">>] = 1
                    /\ d[<<"mchStraps", "mchStrap0", "meDisable">>] = 1
<1>4. meOff = MeOff(d)
  BY DEF MeOff, Ich, Mch
<1>5. AsDescriptor(d) =
        [extent |-> extent, count |-> d[NR],
         density |-> <<d[Density(1)], d[Density(2)]>>, access |-> access,
         integratedGbe |-> d[Ich("integratedGbe")], lanPhy |-> d[Ich("lanPhy")],
         meOff |-> meOff, tpmOff |-> TpmOff(d), liberate |-> liberate]
  <2>1. Density(1) = <<"componentSection", "flcomp", "component1Density">>
    BY DEF Density
  <2>2. Density(2) = <<"componentSection", "flcomp", "component2Density">>
    BY DEF Density
  <2> HIDE DEF extent, access, meOff, liberate
  <2>3. QED
    BY <2>1, <2>2 DEF AsDescriptor, NR, Ich, Mch, TpmOff, extent, access, meOff, liberate
<1> HIDE DEF extent, access, meOff, liberate
<1>6. QED
  BY <1>1, <1>2, <1>3, <1>4, <1>5 DEF DescriptorOf

(* What the operators of Ich9Descriptor do to such a record.               *)
AllAccess == [read |-> D!Region, write |-> D!Region]
NoAccess  == [read |-> {}, write |-> {}]
HostUnlocked(access) == [access EXCEPT !["host"] = AllAccess]
MeForbidden(access)  == [access EXCEPT !["me"] = NoAccess]
MeRemoved(extent)    == [extent EXCEPT !["me"] = D!Removed]
PdRemoved(extent)    == [extent EXCEPT !["pd"] = D!Removed]
GbeMoved(extent, to) == [extent EXCEPT !["gbe"] = to]
BiosMoved(extent, to) == [extent EXCEPT !["bios"] = to]

LEMMA FieldEdits ==
  ASSUME NEW x1, NEW x2, NEW x3, NEW x4, NEW x5, NEW x6, NEW x7, NEW x8, NEW x9
  PROVE  /\ D!HostRegionsUnlocked(DescriptorOf(x1, x2, x3, x4, x5, x6, x7, x8, x9)) =
              DescriptorOf(x1, x2, x3, HostUnlocked(x4), x5, x6, x7, x8, x9)
         /\ D!MeRegionsForbidden(DescriptorOf(x1, x2, x3, x4, x5, x6, x7, x8, x9)) =
              DescriptorOf(x1, x2, x3, MeForbidden(x4), x5, x6, x7, x8, x9)
         /\ D!MeRegionRemoved(DescriptorOf(x1, x2, x3, x4, x5, x6, x7, x8, x9)) =
              DescriptorOf(MeRemoved(x1), x2, x3, x4, x5, x6, x7, x8, x9)
         /\ D!PlatformRegionRemoved(DescriptorOf(x1, x2, x3, x4, x5, x6, x7, x8, x9)) =
              DescriptorOf(PdRemoved(x1), x2, x3, x4, x5, x6, x7, x8, x9)
<1>1. D!HostRegionsUnlocked(DescriptorOf(x1, x2, x3, x4, x5, x6, x7, x8, x9)) =
        DescriptorOf(x1, x2, x3, HostUnlocked(x4), x5, x6, x7, x8, x9)
  BY DEF D!HostRegionsUnlocked, DescriptorOf, HostUnlocked, AllAccess
<1>2. D!MeRegionsForbidden(DescriptorOf(x1, x2, x3, x4, x5, x6, x7, x8, x9)) =
        DescriptorOf(x1, x2, x3, MeForbidden(x4), x5, x6, x7, x8, x9)
  BY DEF D!MeRegionsForbidden, DescriptorOf, MeForbidden, NoAccess
<1>3. D!MeRegionRemoved(DescriptorOf(x1, x2, x3, x4, x5, x6, x7, x8, x9)) =
        DescriptorOf(MeRemoved(x1), x2, x3, x4, x5, x6, x7, x8, x9)
  BY DEF D!MeRegionRemoved, DescriptorOf, MeRemoved
<1>4. D!PlatformRegionRemoved(DescriptorOf(x1, x2, x3, x4, x5, x6, x7, x8, x9)) =
        DescriptorOf(PdRemoved(x1), x2, x3, x4, x5, x6, x7, x8, x9)
  BY DEF D!PlatformRegionRemoved, DescriptorOf, PdRemoved
<1>5. QED
  BY <1>1, <1>2, <1>3, <1>4

Yes == TRUE

LEMMA SwitchEdits ==
  ASSUME NEW x1, NEW x2, NEW x3, NEW x4, NEW x5, NEW x6, NEW x7, NEW x8, NEW x9
  PROVE  /\ D!DisableMe(DescriptorOf(x1, x2, x3, x4, x5, x6, x7, x8, x9)) =
              DescriptorOf(x1, x2, x3, x4, x5, x6, Yes, x8, x9)
         /\ D!DisableTpm(DescriptorOf(x1, x2, x3, x4, x5, x6, x7, x8, x9)) =
              DescriptorOf(x1, x2, x3, x4, x5, x6, x7, Yes, x9)
         /\ D!OemString(DescriptorOf(x1, x2, x3, x4, x5, x6, x7, x8, x9)) =
              DescriptorOf(x1, x2, x3, x4, x5, x6, x7, x8, Yes)
<1>1. D!DisableMe(DescriptorOf(x1, x2, x3, x4, x5, x6, x7, x8, x9)) =
        DescriptorOf(x1, x2, x3, x4, x5, x6, Yes, x8, x9)
  <2>1. ASSUME NEW v
        PROVE  [DescriptorOf(x1, x2, x3, x4, x5, x6, x7, x8, x9) EXCEPT !.meOff = v] =
                 DescriptorOf(x1, x2, x3, x4, x5, x6, v, x8, x9)
    BY DEF DescriptorOf
  <2>2. QED
    BY <2>1 DEF D!DisableMe, Yes
<1>2. D!DisableTpm(DescriptorOf(x1, x2, x3, x4, x5, x6, x7, x8, x9)) =
        DescriptorOf(x1, x2, x3, x4, x5, x6, x7, Yes, x9)
  <2>1. ASSUME NEW v
        PROVE  [DescriptorOf(x1, x2, x3, x4, x5, x6, x7, x8, x9) EXCEPT !.tpmOff = v] =
                 DescriptorOf(x1, x2, x3, x4, x5, x6, x7, v, x9)
    BY DEF DescriptorOf
  <2>2. QED
    BY <2>1 DEF D!DisableTpm, Yes
<1>3. D!OemString(DescriptorOf(x1, x2, x3, x4, x5, x6, x7, x8, x9)) =
        DescriptorOf(x1, x2, x3, x4, x5, x6, x7, x8, Yes)
  <2>1. ASSUME NEW v
        PROVE  [DescriptorOf(x1, x2, x3, x4, x5, x6, x7, x8, x9) EXCEPT !.liberate = v] =
                 DescriptorOf(x1, x2, x3, x4, x5, x6, x7, x8, v)
    BY DEF DescriptorOf
  <2>2. QED
    BY <2>1 DEF D!OemString, Yes
<1>4. QED
  BY <1>1, <1>2, <1>3

LEMMA ExtentKept ==
  ASSUME NEW d, NEW e, NEW names, Kept(d, e, names), NEW r \in D!Region,
         Reg(r, "BASE") \notin names, Reg(r, "LIMIT") \notin names
  PROVE  ExtentOf(e, r) = ExtentOf(d, r)
BY NamesWritten DEF Kept, ExtentOf

LEMMA AccessKept ==
  ASSUME NEW d, NEW e, NEW names, Kept(d, e, names), NEW m \in D!Master,
         \A n \in AccessNames : Mstr(m, n) \notin names
  PROVE  AccessOf(e, m) = AccessOf(d, m)
<1>1. \A n \in AccessNames : e[Mstr(m, n)] = d[Mstr(m, n)]
  BY NamesWritten DEF Kept
<1>2. \A r \in D!Region : /\ e[Mstr(m, Reads[r])] = d[Mstr(m, Reads[r])]
                          /\ e[Mstr(m, Writes[r])] = d[Mstr(m, Writes[r])]
  BY <1>1, ReadsWrites
<1>3. QED
  BY <1>2 DEF AccessOf

LEMMA OthersKept ==
  ASSUME NEW d, NEW e, NEW names, Kept(d, e, names)
  PROVE  /\ NR \notin names => e[NR] = d[NR]
         /\ \A i \in {1, 2} : Density(i) \notin names => e[Density(i)] = d[Density(i)]
         /\ Ich("integratedGbe") \notin names =>
              e[Ich("integratedGbe")] = d[Ich("integratedGbe")]
         /\ Ich("lanPhy") \notin names => e[Ich("lanPhy")] = d[Ich("lanPhy")]
         /\ Ich("meDisable") \notin names /\ Mch("meDisable") \notin names =>
              MeOff(e) = MeOff(d)
         /\ Mch("tpmDisable") \notin names => TpmOff(e) = TpmOff(d)
         /\ (\A i \in 0 .. 7 : Magic(i) \notin names) => IsLiberated(e) = IsLiberated(d)
BY NamesWritten DEF Kept, MeOff, TpmOff, IsLiberated

LEMMA GbeBiosFields ==
  ASSUME NEW x1, NEW x2, NEW x3, NEW x4, NEW x5, NEW x6, NEW x7, NEW x8, NEW x9, NEW blocks
  PROVE  D!SetGbeBiosRegions(DescriptorOf(x1, x2, x3, x4, x5, x6, x7, x8, x9), blocks) =
           IF D!DefinesGbeRegion(DescriptorOf(x1, x2, x3, x4, x5, x6, x7, x8, x9))
             THEN DescriptorOf(BiosMoved(GbeMoved(x1, D!GbeExtent), D!BiosExtent(3, blocks)),
                         2, x3, x4, 1, 1, x7, x8, x9)
             ELSE DescriptorOf(BiosMoved(GbeMoved(x1, D!Removed), D!BiosExtent(1, blocks)),
                         1, x3, x4, 0, 0, x7, x8, x9)
<1> DEFINE x == DescriptorOf(x1, x2, x3, x4, x5, x6, x7, x8, x9)
<1>1. [x EXCEPT !.count = 2] = DescriptorOf(x1, 2, x3, x4, x5, x6, x7, x8, x9)
  BY DEF DescriptorOf
<1>2. [x EXCEPT !.count = 1] = DescriptorOf(x1, 1, x3, x4, x5, x6, x7, x8, x9)
  BY DEF DescriptorOf
<1> HIDE DEF x
<1> DEFINE y1 == GbeMoved(x1, D!GbeExtent)
<1>3. D!MoveGbeToStart(DescriptorOf(x1, 2, x3, x4, x5, x6, x7, x8, x9)) =
        DescriptorOf(y1, 2, x3, x4, x5, x6, x7, x8, x9)
  BY DEF D!MoveGbeToStart, DescriptorOf, GbeMoved
<1> DEFINE z1 == GbeMoved(x1, D!Removed)
<1>4. D!GbeRegionRemoved(DescriptorOf(x1, 1, x3, x4, x5, x6, x7, x8, x9)) =
        DescriptorOf(z1, 1, x3, x4, x5, x6, x7, x8, x9)
  BY DEF D!GbeRegionRemoved, DescriptorOf, GbeMoved
<1> HIDE DEF y1, z1
<1>5. D!BiosRegionFillImageAfterGbe(DescriptorOf(y1, 2, x3, x4, x5, x6, x7, x8, x9), blocks) =
        DescriptorOf(BiosMoved(y1, D!BiosExtent(3, blocks)), 2, x3, x4, x5, x6, x7, x8, x9)
  BY DEF D!BiosRegionFillImageAfterGbe, DescriptorOf, BiosMoved, D!DescriptorBlocks, D!GbeBlocks
<1>6. D!BiosRegionFillImageAfterDescriptor(
        DescriptorOf(z1, 1, x3, x4, x5, x6, x7, x8, x9), blocks) =
        DescriptorOf(BiosMoved(z1, D!BiosExtent(1, blocks)), 1, x3, x4, x5, x6, x7, x8, x9)
  BY DEF D!BiosRegionFillImageAfterDescriptor, DescriptorOf, BiosMoved, D!DescriptorBlocks
<1>7. ASSUME NEW u1, NEW u2, NEW on
      PROVE  D!GbeStraps(DescriptorOf(u1, u2, x3, x4, x5, x6, x7, x8, x9), on) =
               DescriptorOf(u1, u2, x3, x4, on, on, x7, x8, x9)
  <2> DEFINE u == DescriptorOf(u1, u2, x3, x4, x5, x6, x7, x8, x9)
  <2>1. [u EXCEPT !.integratedGbe = on] = DescriptorOf(u1, u2, x3, x4, on, x6, x7, x8, x9)
    BY DEF DescriptorOf
  <2>2. [DescriptorOf(u1, u2, x3, x4, on, x6, x7, x8, x9) EXCEPT !.lanPhy = on] =
          DescriptorOf(u1, u2, x3, x4, on, on, x7, x8, x9)
    BY DEF DescriptorOf
  <2> HIDE DEF u
  <2>3. D!GbeStraps(u, on) = [[u EXCEPT !.integratedGbe = on] EXCEPT !.lanPhy = on]
    BY DEF D!GbeStraps
  <2>4. QED
    BY <2>1, <2>2, <2>3 DEF u
<1>8. D!SetGbeBiosRegions(x, blocks) =
        IF D!DefinesGbeRegion(x)
          THEN D!GbeStraps(D!BiosRegionFillImageAfterGbe(
                 D!MoveGbeToStart([x EXCEPT !.count = 2]), blocks), 1)
          ELSE D!GbeStraps(D!BiosRegionFillImageAfterDescriptor(
                 D!GbeRegionRemoved([x EXCEPT !.count = 1]), blocks), 0)
  BY DEF D!SetGbeBiosRegions
<1>9. D!SetGbeBiosRegions(x, blocks) =
        IF D!DefinesGbeRegion(x)
          THEN DescriptorOf(BiosMoved(y1, D!BiosExtent(3, blocks)),
                      2, x3, x4, 1, 1, x7, x8, x9)
          ELSE DescriptorOf(BiosMoved(z1, D!BiosExtent(1, blocks)),
                      1, x3, x4, 0, 0, x7, x8, x9)
  BY <1>1, <1>2, <1>3, <1>4, <1>5, <1>6, <1>7, <1>8
<1>10. QED
  BY <1>9 DEF x, y1, z1

LEMMA DefinesIs ==
  ASSUME NEW d
  PROVE  DefinesGbeRegion(d) <=>
           /\ ~(d[Reg("gbe", "BASE")] \in {8191, 4095} /\ d[Reg("gbe", "LIMIT")] = 0)
           /\ d[Ich("integratedGbe")] # 0 /\ d[Ich("lanPhy")] # 0
<1> DEFINE base  == <<"regionSection", "flReg3">> \o <<"BASE">>
<1> DEFINE limit == <<"regionSection", "flReg3">> \o <<"LIMIT">>
<1> DEFINE nic   == <<"ichStraps", "ichStrap0">> \o <<"integratedGbe">>
<1> DEFINE phy   == <<"ichStraps", "ichStrap0">> \o <<"lanPhy">>
<1>1. DefinesGbeRegion(d) <=>
        ~(d[base] \in {8191, 4095} /\ d[limit] = 0) /\ d[nic] # 0 /\ d[phy] # 0
  BY Zenon DEF DefinesGbeRegion
<1>2. /\ base = Reg("gbe", "BASE") /\ limit = Reg("gbe", "LIMIT")
      /\ nic = Ich("integratedGbe") /\ phy = Ich("lanPhy")
  BY Named2, Registers DEF Reg, Ich
<1> HIDE DEF base, limit, nic, phy
<1>3. QED
  BY <1>1, <1>2

LEMMA DefinesAlike ==
  ASSUME NEW d
  PROVE  D!DefinesGbeRegion(AsDescriptor(d)) <=> DefinesGbeRegion(d)
<1> DEFINE extent == [r \in D!Region |-> ExtentOf(d, r)]
<1>1. /\ extent["gbe"].base = d[Reg("gbe", "BASE")]
      /\ extent["gbe"].limit = d[Reg("gbe", "LIMIT")]
  BY Registers DEF ExtentOf
<1> HIDE DEF extent
<1>2. /\ AsDescriptor(d).extent = extent
      /\ AsDescriptor(d).integratedGbe = d[Ich("integratedGbe")]
      /\ AsDescriptor(d).lanPhy = d[Ich("lanPhy")]
  BY Shape DEF DescriptorOf, extent
<1>3. D!DefinesGbeRegion(AsDescriptor(d)) <=>
        /\ ~(d[Reg("gbe", "BASE")] \in {8191, 4095} /\ d[Reg("gbe", "LIMIT")] = 0)
        /\ d[Ich("integratedGbe")] # 0 /\ d[Ich("lanPhy")] # 0
  BY <1>1, <1>2 DEF D!DefinesGbeRegion
<1>4. QED
  BY <1>3, DefinesIs

LEMMA FreedFields ==
  ASSUME NEW e, Freed(e)
  PROVE  AccessOf(e, "host") = AllAccess /\ AccessOf(e, "me") = NoAccess
<1>1. \A r \in D!Region : /\ e[Mstr("host", Reads[r])] = 1 /\ e[Mstr("host", Writes[r])] = 1
                          /\ e[Mstr("me", Reads[r])] = 0 /\ e[Mstr("me", Writes[r])] = 0
  BY ReadsWrites DEF Freed
<1>2. QED
  BY <1>1 DEF AccessOf, AllAccess, NoAccess

LEMMA AccessAlike ==
  ASSUME NEW d, NEW e, AccessOf(e, "host") = AllAccess, AccessOf(e, "me") = NoAccess,
         AccessOf(e, "gbe") = AccessOf(d, "gbe"), NEW x,
         x = [m \in D!Master |-> AccessOf(d, m)]
  PROVE  /\ [m \in D!Master |-> AccessOf(e, m)] =
              MeForbidden(HostUnlocked(x))
         /\ [m \in D!Master |-> AccessOf(e, m)] =
              HostUnlocked(MeForbidden(x))
BY Registers DEF HostUnlocked, MeForbidden

LEMMA DemedFields ==
  ASSUME NEW d, DOMAIN d = DOMAIN FdMember
  PROVE  AsDescriptor(DemedFd(d)) = D!Demed(AsDescriptor(d))
<1> DEFINE e == DemedFd(d)
<1> DEFINE names == DisabledNames \cup FreedNames
<1>1. Kept(d, e, names) /\ Disabled(e) /\ Freed(e)
  BY DemedEdit DEF DemedSet
<1> HIDE DEF e
<1>2. /\ \A r, n : Reg(r, n) \notin names
      /\ NR \notin names /\ Density(1) \notin names /\ Density(2) \notin names
      /\ Ich("integratedGbe") \notin names /\ Ich("lanPhy") \notin names
      /\ \A i \in 0 .. 7 : Magic(i) \notin names
      /\ \A n : Mstr("gbe", n) \notin names
  <2>1. \A r, n : Reg(r, n) \notin names
    BY NamesApart DEF Apart, DisabledNames, FreedNames
  <2>2. NR \notin names /\ Density(1) \notin names /\ Density(2) \notin names
    BY NamesApart DEF Apart, DisabledNames, FreedNames
  <2>3. Ich("integratedGbe") \notin names /\ Ich("lanPhy") \notin names
    BY NamesApart DEF Apart, DisabledNames, FreedNames
  <2>4. \A i \in 0 .. 7 : Magic(i) \notin names
    BY NamesApart DEF Apart, DisabledNames, FreedNames
  <2>5. \A n : Mstr("gbe", n) \notin names
    BY NamesApart, Registers DEF Apart, DisabledNames, FreedNames
  <2>6. QED
    BY <2>1, <2>2, <2>3, <2>4, <2>5
<1> HIDE DEF names
<1>3. \A r \in D!Region : ExtentOf(e, r) = ExtentOf(d, r)
  BY <1>1, <1>2, ExtentKept
<1>4. AccessOf(e, "gbe") = AccessOf(d, "gbe")
  BY <1>1, <1>2, AccessKept, Registers
<1>5. AccessOf(e, "host") = AllAccess /\ AccessOf(e, "me") = NoAccess
  BY <1>1, FreedFields
<1>6. MeOff(e) = Yes /\ TpmOff(e) = Yes
  BY <1>1 DEF Disabled, MeOff, TpmOff, Yes
<1>7. /\ e[NR] = d[NR] /\ e[Density(1)] = d[Density(1)] /\ e[Density(2)] = d[Density(2)]
      /\ e[Ich("integratedGbe")] = d[Ich("integratedGbe")]
      /\ e[Ich("lanPhy")] = d[Ich("lanPhy")] /\ IsLiberated(e) = IsLiberated(d)
  BY <1>1, <1>2, OthersKept
<1> DEFINE x1 == [r \in D!Region |-> ExtentOf(d, r)]
<1> DEFINE x2 == d[NR]
<1> DEFINE x3 == <<d[Density(1)], d[Density(2)]>>
<1> DEFINE x4 == [m \in D!Master |-> AccessOf(d, m)]
<1> DEFINE x5 == d[Ich("integratedGbe")]
<1> DEFINE x6 == d[Ich("lanPhy")]
<1> DEFINE x7 == MeOff(d)
<1> DEFINE x8 == TpmOff(d)
<1> DEFINE x9 == IsLiberated(d)
<1>8. AsDescriptor(d) = DescriptorOf(x1, x2, x3, x4, x5, x6, x7, x8, x9)
  BY Shape
<1>9. [r \in D!Region |-> ExtentOf(e, r)] = x1
  BY <1>3
<1>10. [m \in D!Master |-> AccessOf(e, m)] =
         MeForbidden(HostUnlocked(x4))
  <2>1. x4 = [m \in D!Master |-> AccessOf(d, m)]
    OBVIOUS
  <2> HIDE DEF x4
  <2>2. QED
    BY <1>4, <1>5, <2>1, AccessAlike
<1>11. <<e[Density(1)], e[Density(2)]>> = x3
  BY <1>7
<1>12. e[NR] = x2 /\ e[Ich("integratedGbe")] = x5 /\ e[Ich("lanPhy")] = x6
       /\ IsLiberated(e) = x9
  BY <1>7
<1> HIDE DEF x1, x2, x3, x4, x5, x6, x7, x8, x9
<1>13. AsDescriptor(e) =
         DescriptorOf(x1, x2, x3, MeForbidden(HostUnlocked(x4)),
                x5, x6, Yes, Yes, x9)
  BY <1>6, <1>9, <1>10, <1>11, <1>12, Shape
<1>14. D!Demed(AsDescriptor(d)) =
         DescriptorOf(x1, x2, x3, MeForbidden(HostUnlocked(x4)),
                x5, x6, Yes, Yes, x9)
  <2> DEFINE x == DescriptorOf(x1, x2, x3, x4, x5, x6, x7, x8, x9)
  <2> DEFINE y == DescriptorOf(x1, x2, x3, x4, x5, x6, Yes, Yes, x9)
  <2>2. D!DisableTpm(D!DisableMe(x)) = y
    BY SwitchEdits
  <2>3. D!HostRegionsUnlocked(y) =
          DescriptorOf(x1, x2, x3, HostUnlocked(x4), x5, x6, Yes, Yes, x9)
    BY FieldEdits
  <2> DEFINE y4 == HostUnlocked(x4)
  <2> HIDE DEF y4
  <2>4. D!MeRegionsForbidden(DescriptorOf(x1, x2, x3, y4, x5, x6, Yes, Yes, x9)) =
          DescriptorOf(x1, x2, x3, MeForbidden(y4), x5, x6, Yes, Yes, x9)
    BY FieldEdits
  <2>5. D!Demed(x) = DescriptorOf(x1, x2, x3, MeForbidden(y4), x5, x6, Yes, Yes, x9)
    BY <2>2, <2>3, <2>4 DEF D!Demed, y4
  <2>6. QED
    BY <1>8, <2>5 DEF y4
<1>15. QED
  BY <1>13, <1>14 DEF e

GbeTo(gbe)          == IF gbe THEN D!GbeExtent ELSE D!Removed
BiosTo(gbe, blocks) == D!BiosExtent(1 + On(gbe) * 2, blocks)

LEMMA DeblobbedExtents ==
  ASSUME NEW d, NEW e, NEW gbe, NEW blocks, GbeBiosSet(e, gbe, blocks), GoneRegions(e),
         ExtentOf(e, "fd") = ExtentOf(d, "fd"), NEW x,
         x = [r \in D!Region |-> ExtentOf(d, r)]
  PROVE  [r \in D!Region |-> ExtentOf(e, r)] =
           PdRemoved(MeRemoved(BiosMoved(GbeMoved(x, GbeTo(gbe)), BiosTo(gbe, blocks))))
<1> DEFINE y == PdRemoved(MeRemoved(BiosMoved(GbeMoved(x, GbeTo(gbe)), BiosTo(gbe, blocks))))
<1>1. /\ DOMAIN y = D!Region /\ y = [r \in D!Region |-> y[r]]
      /\ y["fd"] = ExtentOf(d, "fd") /\ y["bios"] = BiosTo(gbe, blocks)
      /\ y["gbe"] = GbeTo(gbe) /\ y["me"] = D!Removed /\ y["pd"] = D!Removed
  BY Registers DEF PdRemoved, MeRemoved, BiosMoved, GbeMoved
<1>2. ExtentOf(e, "me") = D!Removed /\ ExtentOf(e, "pd") = D!Removed
  BY DEF GoneRegions, ExtentOf, D!Removed
<1>3. ExtentOf(e, "gbe") = GbeTo(gbe)
  BY DEF GbeBiosSet, ExtentOf, GbeTo, D!GbeExtent, D!Removed, D!DescriptorBlocks,
         D!GbeBlocks
<1>4. ExtentOf(e, "bios") = BiosTo(gbe, blocks)
  BY DEF GbeBiosSet, ExtentOf, BiosTo, D!BiosExtent
<1> HIDE DEF y
<1>5. \A r \in D!Region : ExtentOf(e, r) = y[r]
  BY <1>1, <1>2, <1>3, <1>4, Registers
<1>6. QED
  BY <1>1, <1>5 DEF y

LEMMA DeblobbedRecord ==
  ASSUME NEW x1, NEW x2, NEW x3, NEW x4, NEW x5, NEW x6, NEW x7, NEW x8, NEW x9, NEW blocks,
         NEW x, x = DescriptorOf(x1, x2, x3, x4, x5, x6, x7, x8, x9),
         NEW gbe, gbe <=> D!DefinesGbeRegion(x)
  PROVE  D!Deblobbed(x, blocks) =
           DescriptorOf(PdRemoved(MeRemoved(
                    BiosMoved(GbeMoved(x1, GbeTo(gbe)), BiosTo(gbe, blocks)))),
                  1 + On(gbe), x3, HostUnlocked(MeForbidden(x4)), On(gbe), On(gbe),
                  Yes, Yes, Yes)
<1> DEFINE y1 == BiosMoved(GbeMoved(x1, GbeTo(gbe)), BiosTo(gbe, blocks))
<1> DEFINE y2 == 1 + On(gbe)
<1> DEFINE y5 == On(gbe)
<1>1. D!SetGbeBiosRegions(x, blocks) = DescriptorOf(y1, y2, x3, x4, y5, y5, x7, x8, x9)
  <2>1. CASE gbe
    <3>1. D!SetGbeBiosRegions(x, blocks) =
            DescriptorOf(BiosMoved(GbeMoved(x1, D!GbeExtent), D!BiosExtent(3, blocks)),
                   2, x3, x4, 1, 1, x7, x8, x9)
      BY <2>1, GbeBiosFields
    <3>2. y2 = 2 /\ y5 = 1 /\ 1 + On(gbe) * 2 = 3
      BY <2>1 DEF On
    <3>3. y1 = BiosMoved(GbeMoved(x1, D!GbeExtent), D!BiosExtent(3, blocks))
      BY <2>1, <3>2 DEF GbeTo, BiosTo
    <3> HIDE DEF y1, y2, y5
    <3>4. QED
      BY <3>1, <3>2, <3>3
  <2>2. CASE ~gbe
    <3>1. D!SetGbeBiosRegions(x, blocks) =
            DescriptorOf(BiosMoved(GbeMoved(x1, D!Removed), D!BiosExtent(1, blocks)),
                   1, x3, x4, 0, 0, x7, x8, x9)
      BY <2>2, GbeBiosFields
    <3>2. y2 = 1 /\ y5 = 0 /\ 1 + On(gbe) * 2 = 1
      BY <2>2 DEF On
    <3>3. y1 = BiosMoved(GbeMoved(x1, D!Removed), D!BiosExtent(1, blocks))
      BY <2>2, <3>2 DEF GbeTo, BiosTo
    <3> HIDE DEF y1, y2, y5
    <3>4. QED
      BY <3>1, <3>2, <3>3
  <2>3. QED
    BY <2>1, <2>2
<1> HIDE DEF y1, y2, y5
<1>2. D!PlatformRegionRemoved(D!MeRegionRemoved(DescriptorOf(y1, y2, x3, x4, y5, y5, x7, x8, x9))) =
        DescriptorOf(PdRemoved(MeRemoved(y1)), y2, x3, x4, y5, y5, x7, x8, x9)
  BY FieldEdits
<1> DEFINE z1 == PdRemoved(MeRemoved(y1))
<1> HIDE DEF z1
<1>3. D!DisableTpm(D!DisableMe(DescriptorOf(z1, y2, x3, x4, y5, y5, x7, x8, x9))) =
        DescriptorOf(z1, y2, x3, x4, y5, y5, Yes, Yes, x9)
  BY SwitchEdits
<1>4. D!FromFactory(x, blocks) = DescriptorOf(z1, y2, x3, x4, y5, y5, Yes, Yes, x9)
  BY <1>1, <1>2, <1>3 DEF D!FromFactory, z1
<1>5. D!HostRegionsUnlocked(D!MeRegionsForbidden(
        DescriptorOf(z1, y2, x3, x4, y5, y5, Yes, Yes, x9))) =
        DescriptorOf(z1, y2, x3, HostUnlocked(MeForbidden(x4)), y5, y5, Yes, Yes, x9)
  BY FieldEdits
<1> DEFINE z4 == HostUnlocked(MeForbidden(x4))
<1> HIDE DEF z4
<1>6. D!OemString(DescriptorOf(z1, y2, x3, z4, y5, y5, Yes, Yes, x9)) =
        DescriptorOf(z1, y2, x3, z4, y5, y5, Yes, Yes, Yes)
  BY SwitchEdits
<1>7. D!Deblobbed(x, blocks) = DescriptorOf(z1, y2, x3, z4, y5, y5, Yes, Yes, Yes)
  BY <1>4, <1>5, <1>6 DEF D!Deblobbed, z4
<1>8. QED
  BY <1>7 DEF y1, y2, y5, z1, z4

LEMMA DeblobbedFields ==
  ASSUME NEW d, DOMAIN d = DOMAIN FdMember, NEW blocks
  PROVE  AsDescriptor(DeblobbedFd(d, blocks)) = D!Deblobbed(AsDescriptor(d), blocks)
<1> DEFINE e == DeblobbedFd(d, blocks)
<1> DEFINE gbe == DefinesGbeRegion(d)
<1> DEFINE names == GbeBiosNames \cup GoneNames \cup DisabledNames \cup FreedNames
                    \cup MagicNames
<1>1. /\ Kept(d, e, names) /\ GbeBiosSet(e, gbe, blocks) /\ GoneRegions(e)
      /\ Disabled(e) /\ Freed(e) /\ IsLiberated(e)
  BY DeblobbedEdit DEF DeblobbedSet
<1>2. gbe <=> D!DefinesGbeRegion(AsDescriptor(d))
  BY DefinesAlike
<1> HIDE DEF e, gbe
<1>3. /\ Reg("fd", "BASE") \notin names /\ Reg("fd", "LIMIT") \notin names
      /\ Density(1) \notin names /\ Density(2) \notin names
      /\ \A n : Mstr("gbe", n) \notin names
  <2>1. \A n \in {"BASE", "LIMIT"} : Reg("fd", n) \notin names
    <3>1. \A n : Reg("fd", n) \notin GbeBiosNames
      BY NamesApart, Registers DEF Apart, GbeBiosNames
    <3>2. \A n : Reg("fd", n) \notin GoneNames
      BY NamesApart, Registers DEF Apart, GoneNames
    <3>3. \A n : Reg("fd", n) \notin DisabledNames
      BY NamesApart DEF Apart, DisabledNames
    <3>4. \A n : Reg("fd", n) \notin FreedNames
      BY NamesApart DEF Apart, FreedNames
    <3>5. \A n : Reg("fd", n) \notin MagicNames
      BY NamesApart DEF Apart, MagicNames
    <3>6. QED
      BY <3>1, <3>2, <3>3, <3>4, <3>5
  <2>2. Density(1) \notin names /\ Density(2) \notin names
    <3>1. Density(1) \notin GbeBiosNames /\ Density(2) \notin GbeBiosNames
      BY NamesApart, Registers DEF Apart, GbeBiosNames
    <3>2. Density(1) \notin GoneNames /\ Density(2) \notin GoneNames
      BY NamesApart, Registers DEF Apart, GoneNames
    <3>3. Density(1) \notin DisabledNames /\ Density(2) \notin DisabledNames
      BY NamesApart, Registers DEF Apart, DisabledNames
    <3>4. Density(1) \notin FreedNames /\ Density(2) \notin FreedNames
      BY NamesApart, Registers DEF Apart, FreedNames
    <3>5. Density(1) \notin MagicNames /\ Density(2) \notin MagicNames
      BY NamesApart, Registers DEF Apart, MagicNames
    <3>6. QED
      BY <3>1, <3>2, <3>3, <3>4, <3>5
  <2>3. \A n : Mstr("gbe", n) \notin names
    <3>1. \A n : Mstr("gbe", n) \notin GbeBiosNames
      BY NamesApart, Registers DEF Apart, GbeBiosNames
    <3>2. \A n : Mstr("gbe", n) \notin GoneNames
      BY NamesApart, Registers DEF Apart, GoneNames
    <3>3. \A n : Mstr("gbe", n) \notin DisabledNames
      BY NamesApart, Registers DEF Apart, DisabledNames
    <3>4. \A n : Mstr("gbe", n) \notin FreedNames
      BY NamesApart, Registers DEF Apart, FreedNames
    <3>5. \A n : Mstr("gbe", n) \notin MagicNames
      BY NamesApart, Registers DEF Apart, MagicNames
    <3>6. QED
      BY <3>1, <3>2, <3>3, <3>4, <3>5
  <2>4. QED
    BY <2>1, <2>2, <2>3
<1> HIDE DEF names
<1>4. ExtentOf(e, "fd") = ExtentOf(d, "fd")
  BY <1>1, <1>3, ExtentKept, Registers
<1>5. AccessOf(e, "gbe") = AccessOf(d, "gbe")
  BY <1>1, <1>3, AccessKept, Registers
<1>6. AccessOf(e, "host") = AllAccess /\ AccessOf(e, "me") = NoAccess
  BY <1>1, FreedFields
<1>7. MeOff(e) = Yes /\ TpmOff(e) = Yes /\ IsLiberated(e) = Yes
  BY <1>1 DEF Disabled, MeOff, TpmOff, Yes
<1>8. /\ e[NR] = 1 + On(gbe)
      /\ e[Ich("integratedGbe")] = On(gbe) /\ e[Ich("lanPhy")] = On(gbe)
  BY <1>1 DEF GbeBiosSet
<1> DEFINE x1 == [r \in D!Region |-> ExtentOf(d, r)]
<1> DEFINE x2 == d[NR]
<1> DEFINE x3 == <<d[Density(1)], d[Density(2)]>>
<1> DEFINE x4 == [m \in D!Master |-> AccessOf(d, m)]
<1> DEFINE x5 == d[Ich("integratedGbe")]
<1> DEFINE x6 == d[Ich("lanPhy")]
<1> DEFINE x7 == MeOff(d)
<1> DEFINE x8 == TpmOff(d)
<1> DEFINE x9 == IsLiberated(d)
<1>9. AsDescriptor(d) = DescriptorOf(x1, x2, x3, x4, x5, x6, x7, x8, x9)
  BY Shape
<1>10. x1 = [r \in D!Region |-> ExtentOf(d, r)] /\ x4 = [m \in D!Master |-> AccessOf(d, m)]
  OBVIOUS
<1>11. <<e[Density(1)], e[Density(2)]>> = x3
  BY <1>1, <1>3, OthersKept
<1> HIDE DEF x1, x2, x3, x4, x5, x6, x7, x8, x9
<1> DEFINE y1 == PdRemoved(MeRemoved(
                   BiosMoved(GbeMoved(x1, GbeTo(gbe)), BiosTo(gbe, blocks))))
<1>12. [r \in D!Region |-> ExtentOf(e, r)] = y1
  BY <1>1, <1>4, <1>10, DeblobbedExtents
<1>13. [m \in D!Master |-> AccessOf(e, m)] = HostUnlocked(MeForbidden(x4))
  BY <1>5, <1>6, <1>10, AccessAlike
<1>14. AsDescriptor(e) =
         DescriptorOf(y1, 1 + On(gbe), x3, HostUnlocked(MeForbidden(x4)), On(gbe), On(gbe),
                Yes, Yes, Yes)
  BY <1>7, <1>8, <1>11, <1>12, <1>13, Shape
<1>15. D!Deblobbed(AsDescriptor(d), blocks) =
         DescriptorOf(y1, 1 + On(gbe), x3, HostUnlocked(MeForbidden(x4)), On(gbe), On(gbe),
                Yes, Yes, Yes)
  BY <1>2, <1>9, DeblobbedRecord
<1>16. QED
  BY <1>14, <1>15 DEF e

-----------------------------------------------------------------------------
(* What the tools set fits into its members.                               *)

Inside(m) == IF m.bits < 31 THEN 0 .. 2^m.bits - 1 ELSE Nat

LEMMA InsideIs ==
  ASSUME NEW m, m.bits \in Nat, NEW v
  PROVE  v \in Inside(m) <=> v \in Nat /\ (m.bits < 31 => v < Pow(m.bits))
<1>1. CASE m.bits < 31
  <2>1. Pow(m.bits) \in Nat
    BY <1>1, Powers
  <2>2. Inside(m) = 0 .. Pow(m.bits) - 1
    BY <1>1 DEF Inside, Pow
  <2>3. QED
    BY <1>1, <2>1, <2>2
<1>2. CASE ~(m.bits < 31)
  BY <1>2 DEF Inside
<1>3. QED
  BY <1>1, <1>2

LEMMA FitsIs ==
  ASSUME NEW members, NEW value
  PROVE  Fits(members, value) <=>
           /\ DOMAIN value = DOMAIN members
           /\ \A n \in DOMAIN members : value[n] \in Inside(members[n])
BY Zenon DEF Fits, Inside

LEMMA HeldInside ==
  ASSUME NEW m, m.bits \in Nat, NEW v, v \in Inside(m)
  PROVE  Held(m, v) = v
<1>1. v \in Nat /\ (m.bits < 31 => v < Pow(m.bits))
  BY InsideIs
<1>2. CASE m.bits < 31
  <2>1. Pow(m.bits) \in Nat \ {0}
    BY <1>2, Powers
  <2>2. Held(m, v) = v % Pow(m.bits)
    BY <1>2 DEF Held, Pow
  <2>3. QED
    BY <1>1, <1>2, <2>1, <2>2
<1>3. CASE ~(m.bits < 31)
  BY <1>3 DEF Held
<1>4. QED
  BY <1>2, <1>3

LEMMA InsideSmall ==
  ASSUME NEW m, NEW v \in Nat
  PROVE  /\ m.bits = 1 /\ v < 2 => v \in Inside(m)
         /\ m.bits = 3 /\ v < 8 => v \in Inside(m)
         /\ m.bits = 8 /\ v < 256 => v \in Inside(m)
         /\ m.bits = 13 /\ v < 8192 => v \in Inside(m)
         /\ m.bits = 16 /\ v < 65536 => v \in Inside(m)
<1>1. Pow(1) = 2 /\ Pow(3) = 8 /\ Pow(8) = 256 /\ Pow(13) = 8192 /\ Pow(16) = 65536
  BY PowerTable DEF Pow
<1>2. ASSUME NEW k \in 0 .. 30, m.bits = k, v < Pow(k) PROVE v \in Inside(m)
  BY <1>2, InsideIs
<1>3. QED
  BY <1>1, <1>2

LEMMA BitsOfNames ==
  /\ FdMember[NR].bits = 3 /\ FdMember[Density(1)].bits = 3 /\ FdMember[Density(2)].bits = 3
  /\ \A r \in D!Region, n \in {"BASE", "LIMIT"} : FdMember[Reg(r, n)].bits = 13
  /\ \A m \in {"host", "me"}, n \in AccessNames : FdMember[Mstr(m, n)].bits = 1
  /\ FdMember[Ich("integratedGbe")].bits = 1 /\ FdMember[Ich("lanPhy")].bits = 1
  /\ FdMember[Ich("meDisable")].bits = 1 /\ FdMember[Mch("meDisable")].bits = 1
  /\ FdMember[Mch("tpmDisable")].bits = 1
  /\ \A i \in 0 .. 7 : FdMember[Magic(i)].bits = 8
<1>1. FdMember[NR].bits = 3
  BY BitsAssumption DEF NR
<1>2. /\ Density(1) \in In(<<"componentSection", "flcomp">>,
                           {"component1Density", "component2Density"})
      /\ Density(2) \in In(<<"componentSection", "flcomp">>,
                           {"component1Density", "component2Density"})
  BY In2 DEF Density
<1>3. FdMember[Density(1)].bits = 3 /\ FdMember[Density(2)].bits = 3
  BY <1>2, BitsAssumption
<1>4. \A r \in D!Region, n \in {"BASE", "LIMIT"} : FdMember[Reg(r, n)].bits = 13
  BY BitsAssumption, Registers DEF Reg
<1>5. \A m \in {"host", "me"}, n \in AccessNames : FdMember[Mstr(m, n)].bits = 1
  BY BitsAssumption, Registers, AccessesAre DEF Mstr
<1>6. /\ \A n \in {"integratedGbe", "lanPhy", "meDisable"} :
           Ich(n) \in In(<<"ichStraps", "ichStrap0">>, {"integratedGbe", "lanPhy", "meDisable"})
      /\ \A n \in {"meDisable", "tpmDisable"} :
           Mch(n) \in In(<<"mchStraps", "mchStrap0">>, {"meDisable", "tpmDisable"})
  BY In2 DEF Ich, Mch
<1>7. /\ \A n \in {"integratedGbe", "lanPhy", "meDisable"} : FdMember[Ich(n)].bits = 1
      /\ \A n \in {"meDisable", "tpmDisable"} : FdMember[Mch(n)].bits = 1
  BY <1>6, BitsAssumption
<1>8. \A i \in 0 .. 7 : Magic(i) \in In(<<"oemSection", "magicString">>, Indices(8))
  BY In2 DEF Magic, Indices
<1>9. \A i \in 0 .. 7 : FdMember[Magic(i)].bits = 8
  BY <1>8, BitsAssumption
<1>10. QED
  BY <1>1, <1>3, <1>4, <1>5, <1>7, <1>9

LEMMA SetFits ==
  ASSUME NEW e
  PROVE  /\ \A gbe, blocks : GbeBiosSet(e, gbe, blocks) /\ blocks \in Nat =>
              \A n \in GbeBiosNames : e[n] \in Inside(FdMember[n])
         /\ Disabled(e) => \A n \in DisabledNames : e[n] \in Inside(FdMember[n])
         /\ Freed(e) => \A n \in FreedNames : e[n] \in Inside(FdMember[n])
         /\ GoneRegions(e) => \A n \in GoneNames : e[n] \in Inside(FdMember[n])
         /\ IsLiberated(e) => \A n \in MagicNames : e[n] \in Inside(FdMember[n])
<1>1. ASSUME NEW gbe, NEW blocks \in Nat, GbeBiosSet(e, gbe, blocks), NEW n \in GbeBiosNames
      PROVE  e[n] \in Inside(FdMember[n])
  <2>1. (blocks - 1) % 8192 \in Nat /\ (blocks - 1) % 8192 < 8192
    OBVIOUS
  <2>2. On(gbe) \in {0, 1}
    BY DEF On
  <2>3. \A r \in {"bios", "gbe"}, k \in {"BASE", "LIMIT"} :
          FdMember[Reg(r, k)].bits = 13 /\ e[Reg(r, k)] \in Nat /\ e[Reg(r, k)] < 8192
    BY <1>1, <2>1, <2>2, BitsOfNames, Registers DEF GbeBiosSet
  <2>4. \A k \in {"integratedGbe", "lanPhy"} :
          FdMember[Ich(k)].bits = 1 /\ e[Ich(k)] \in Nat /\ e[Ich(k)] < 2
    BY <1>1, <2>2, BitsOfNames DEF GbeBiosSet
  <2>5. FdMember[NR].bits = 3 /\ e[NR] \in Nat /\ e[NR] < 8
    BY <1>1, <2>2, BitsOfNames DEF GbeBiosSet
  <2>6. QED
    BY <2>3, <2>4, <2>5, InsideSmall DEF GbeBiosNames
<1>2. ASSUME Disabled(e), NEW n \in DisabledNames PROVE e[n] \in Inside(FdMember[n])
  BY <1>2, BitsOfNames, InsideSmall DEF Disabled, DisabledNames
<1>3. ASSUME Freed(e), NEW n \in FreedNames PROVE e[n] \in Inside(FdMember[n])
  BY <1>3, BitsOfNames, InsideSmall DEF Freed, FreedNames
<1>4. ASSUME GoneRegions(e), NEW n \in GoneNames PROVE e[n] \in Inside(FdMember[n])
  BY <1>4, BitsOfNames, InsideSmall, Registers DEF GoneRegions, GoneNames
<1>5. ASSUME IsLiberated(e), NEW n \in MagicNames PROVE e[n] \in Inside(FdMember[n])
  <2>1. \A i \in 0 .. 7 : i + 1 \in 1 .. 8
    OBVIOUS
  <2>2. \A i \in 0 .. 7 : e[Magic(i)] \in Nat /\ e[Magic(i)] < 256
    BY <1>5, <2>1, LiberateIs DEF IsLiberated
  <2>3. QED
    BY <2>2, BitsOfNames, InsideSmall DEF MagicNames
<1>6. QED
  BY <1>1, <1>2, <1>3, <1>4, <1>5

LEMMA EditFits ==
  ASSUME NEW d, NEW e, NEW names, Kept(d, e, names), Fits(FdMember, d),
         \A n \in names : e[n] \in Inside(FdMember[n])
  PROVE  Fits(FdMember, e)
<1>1. DOMAIN e = DOMAIN FdMember /\ \A n \in DOMAIN FdMember \ names : e[n] = d[n]
  BY DEF Kept
<1>2. \A n \in DOMAIN FdMember : d[n] \in Inside(FdMember[n])
  BY FitsIs
<1>3. QED
  BY <1>1, <1>2, FitsIs

LEMMA EditedFits ==
  ASSUME NEW d, Fits(FdMember, d), NEW blocks \in Nat
  PROVE  Fits(FdMember, DemedFd(d)) /\ Fits(FdMember, DeblobbedFd(d, blocks))
<1>1. DOMAIN d = DOMAIN FdMember
  BY FitsIs
<1>2. Fits(FdMember, DemedFd(d))
  <2> DEFINE e == DemedFd(d)
  <2>1. DemedSet(d, e)
    BY <1>1, DemedEdit
  <2> HIDE DEF e
  <2>2. \A n \in DisabledNames \cup FreedNames : e[n] \in Inside(FdMember[n])
    BY <2>1, SetFits DEF DemedSet
  <2>3. Kept(d, e, DisabledNames \cup FreedNames)
    BY <2>1 DEF DemedSet
  <2>4. Fits(FdMember, e)
    BY <2>2, <2>3, EditFits
  <2>5. QED
    BY <2>4 DEF e
<1>3. Fits(FdMember, DeblobbedFd(d, blocks))
  <2> DEFINE e == DeblobbedFd(d, blocks)
  <2> DEFINE gbe == DefinesGbeRegion(d)
  <2> DEFINE names == GbeBiosNames \cup GoneNames \cup DisabledNames \cup FreedNames
                      \cup MagicNames
  <2>1. DeblobbedSet(d, e, gbe, blocks)
    BY <1>1, DeblobbedEdit
  <2> HIDE DEF e, gbe
  <2>2. \A n \in names : e[n] \in Inside(FdMember[n])
    BY <2>1, SetFits DEF DeblobbedSet
  <2>3. Kept(d, e, names)
    BY <2>1 DEF DeblobbedSet
  <2> HIDE DEF names
  <2>4. Fits(FdMember, e)
    BY <2>2, <2>3, EditFits
  <2>5. QED
    BY <2>4 DEF e
<1>4. QED
  BY <1>2, <1>3

-----------------------------------------------------------------------------
(* What generated code returns                                             *)

DensityNames == {Density(1), Density(2)}

LEMMA ByArgumentsDomain ==
  DOMAIN ByArguments = GbeBiosNames \cup DensityNames
<1>1. DOMAIN ByArguments = {c[1] : c \in Computed}
  BY DEF ByArguments
<1>2. {c[1] : c \in Computed} =
        {<<"flMaps", "flMap0", "NR">>,
         <<"componentSection", "flcomp", "component1Density">>,
         <<"componentSection", "flcomp", "component2Density">>,
         <<"regionSection", "flReg1", "BASE">>, <<"regionSection", "flReg1", "LIMIT">>,
         <<"regionSection", "flReg3", "BASE">>, <<"regionSection", "flReg3", "LIMIT">>,
         <<"ichStraps", "ichStrap0", "integratedGbe">>, <<"ichStraps", "ichStrap0", "lanPhy">>}
  BY DEF Computed
<1>3. QED
  BY <1>1, <1>2, Registers DEF GbeBiosNames, DensityNames, NR, Density, Reg, Ich

LEMMA ReturnedIs ==
  ASSUME NEW members, NEW code, Complete(members, code), NEW argument
  PROVE  /\ DOMAIN Returned(members, code, argument) = DOMAIN members
         /\ \A n \in DOMAIN members :
              Returned(members, code, argument)[n] =
                Held(members[n], IF code[n].by = "literal" THEN code[n].value
                                 ELSE argument[code[n].by])
BY DEF Complete, CodeOf, Returned

LEMMA LiteralReturned ==
  ASSUME NEW members, NEW code, Complete(members, code), NEW argument,
         NEW n \in DOMAIN members, LiteralFits(members, code, n), members[n].bits \in Nat
  PROVE  /\ Returned(members, code, argument)[n] = code[n].value
         /\ code[n].value \in Inside(members[n])
<1>1. code[n].by = "literal" /\ code[n].value \in Inside(members[n])
  BY DEF LiteralFits, Inside
<1>2. Held(members[n], code[n].value) = code[n].value
  BY <1>1, HeldInside
<1>3. QED
  BY <1>1, <1>2, ReturnedIs

LEMMA ArgumentReturned ==
  ASSUME NEW code, IsDescriptorCode(code), NEW argument, NEW n, NEW name,
         <<n, name>> \in Computed
  PROVE  /\ n \in DOMAIN FdMember
         /\ Returned(FdMember, code, argument)[n] = Held(FdMember[n], argument[name])
<1>1. n \in DOMAIN ByArguments /\ ByArguments[n] = From(name)
  BY ArgumentOf
<1>2. n \in DOMAIN FdMember
  BY <1>1, WrittenAssumption DEF DescriptorWritten
<1>3. Complete(FdMember, code) /\ n \in DOMAIN code /\ code[n] = From(name)
  BY <1>1, <1>2 DEF IsDescriptorCode, Complete
<1>4. name # "literal"
  BY DEF Computed
<1>5. code[n].by = name
  BY <1>3 DEF From
<1>6. QED
  BY <1>2, <1>3, <1>4, <1>5, ReturnedIs

LEMMA ArgumentsAre ==
  ASSUME NEW blocks, NEW hasGbe, NEW a, a = Argument(blocks, hasGbe)
  PROVE  /\ a["regions"] = 1 + On(hasGbe) /\ a["density"] = D!ComponentDensity(blocks)
         /\ a["biosBase"] = 1 + On(hasGbe) * 2 /\ a["biosLimit"] = blocks - 1
         /\ a["gbeBase"] = IF hasGbe THEN 1 ELSE 8191
         /\ a["gbeLimit"] = IF hasGbe THEN 2 ELSE 0
         /\ a["onboard"] = On(hasGbe)
BY DEF Argument, On, D!DescriptorBlocks, D!GbeBlocks

LEMMA DensityIs ==
  ASSUME NEW blocks
  PROVE  D!ComponentDensity(blocks) \in Nat /\ D!ComponentDensity(blocks) < 8
BY DEF D!ComponentDensity, D!Size

(* The members that are computed, and the literals.                        *)
LEMMA GeneratedSet ==
  ASSUME NEW code, IsDescriptorCode(code), NEW blocks \in Nat, NEW hasGbe,
         NEW e, e = GeneratedDescriptorStruct(code, blocks, hasGbe)
  PROVE  /\ DOMAIN e = DOMAIN FdMember
         /\ GbeBiosSet(e, hasGbe, blocks)
         /\ e[Density(1)] = D!ComponentDensity(blocks)
         /\ e[Density(2)] = D!ComponentDensity(blocks)
         /\ \A n \in DOMAIN FdMember \ DOMAIN ByArguments :
              e[n] = code[n].value /\ e[n] \in Inside(FdMember[n])
<1> DEFINE a == Argument(blocks, hasGbe)
<1>1. e = Returned(FdMember, code, a)
  BY DEF GeneratedDescriptorStruct
<1>2. /\ a["regions"] = 1 + On(hasGbe) /\ a["density"] = D!ComponentDensity(blocks)
      /\ a["biosBase"] = 1 + On(hasGbe) * 2 /\ a["biosLimit"] = blocks - 1
      /\ a["gbeBase"] = IF hasGbe THEN 1 ELSE 8191
      /\ a["gbeLimit"] = IF hasGbe THEN 2 ELSE 0
      /\ a["onboard"] = On(hasGbe)
  BY ArgumentsAre
<1> HIDE DEF a
<1>3. Complete(FdMember, code)
  BY DEF IsDescriptorCode
<1>4. DOMAIN e = DOMAIN FdMember
  BY <1>1, <1>3, ReturnedIs
<1>5. ASSUME NEW n, NEW name, <<n, name>> \in Computed
      PROVE  e[n] = Held(FdMember[n], a[name])
  BY <1>1, <1>5, ArgumentReturned
<1>6. ASSUME NEW n, NEW name, <<n, name>> \in Computed, FdMember[n].bits \in Nat,
             a[name] \in Inside(FdMember[n])
      PROVE  e[n] = a[name]
  BY <1>5, <1>6, HeldInside
<1>7. On(hasGbe) \in {0, 1}
  BY DEF On
<1>8. e[NR] = 1 + On(hasGbe)
  <2>1. a["regions"] \in Inside(FdMember[NR])
    BY <1>2, <1>7, BitsOfNames, InsideSmall
  <2>2. QED
    BY <1>2, <1>6, <2>1, BitsOfNames, NamesComputed
<1>9. /\ e[Density(1)] = D!ComponentDensity(blocks)
      /\ e[Density(2)] = D!ComponentDensity(blocks)
  <2>1. /\ a["density"] \in Inside(FdMember[Density(1)])
        /\ a["density"] \in Inside(FdMember[Density(2)])
    BY <1>2, DensityIs, BitsOfNames, InsideSmall
  <2>2. QED
    BY <1>2, <1>6, <2>1, BitsOfNames, NamesComputed
<1>10. e[Ich("integratedGbe")] = On(hasGbe) /\ e[Ich("lanPhy")] = On(hasGbe)
  <2>1. /\ a["onboard"] \in Inside(FdMember[Ich("integratedGbe")])
        /\ a["onboard"] \in Inside(FdMember[Ich("lanPhy")])
    BY <1>2, <1>7, BitsOfNames, InsideSmall
  <2>2. QED
    BY <1>2, <1>6, <2>1, BitsOfNames, NamesComputed
<1>11. /\ e[Reg("gbe", "BASE")] = IF hasGbe THEN 1 ELSE 8191
       /\ e[Reg("gbe", "LIMIT")] = IF hasGbe THEN 2 ELSE 0
       /\ e[Reg("bios", "BASE")] = 1 + On(hasGbe) * 2
  <2>1. /\ FdMember[Reg("gbe", "BASE")].bits = 13 /\ FdMember[Reg("gbe", "LIMIT")].bits = 13
        /\ FdMember[Reg("bios", "BASE")].bits = 13
    BY BitsOfNames, Registers
  <2>2. /\ a["gbeBase"] \in Inside(FdMember[Reg("gbe", "BASE")])
        /\ a["gbeLimit"] \in Inside(FdMember[Reg("gbe", "LIMIT")])
        /\ a["biosBase"] \in Inside(FdMember[Reg("bios", "BASE")])
    BY <1>2, <1>7, <2>1, InsideSmall
  <2>3. QED
    BY <1>2, <1>6, <2>1, <2>2, NamesComputed
<1>12. e[Reg("bios", "LIMIT")] = (blocks - 1) % 8192
  <2>1. FdMember[Reg("bios", "LIMIT")].bits = 13
    BY BitsOfNames, Registers
  <2>2. e[Reg("bios", "LIMIT")] = Held(FdMember[Reg("bios", "LIMIT")], blocks - 1)
    BY <1>2, <1>5, NamesComputed
  <2>3. QED
    BY <2>1, <2>2, PowerTable DEF Held
<1>13. ASSUME NEW n \in DOMAIN FdMember \ DOMAIN ByArguments
       PROVE  e[n] = code[n].value /\ e[n] \in Inside(FdMember[n])
  <2>1. LiteralFits(FdMember, code, n) /\ FdMember[n].bits \in Nat
    BY <1>3, BitsAssumption DEF IsDescriptorCode, Complete
  <2>2. QED
    BY <1>1, <1>3, <2>1, LiteralReturned
<1>14. QED
  BY <1>4, <1>8, <1>9, <1>10, <1>11, <1>12, <1>13 DEF GbeBiosSet

LEMMA GeneratedFits ==
  ASSUME NEW code, IsDescriptorCode(code), NEW blocks \in Nat, NEW hasGbe
  PROVE  Fits(FdMember, GeneratedDescriptorStruct(code, blocks, hasGbe))
<1> DEFINE e == GeneratedDescriptorStruct(code, blocks, hasGbe)
<1>1. /\ DOMAIN e = DOMAIN FdMember /\ GbeBiosSet(e, hasGbe, blocks)
      /\ e[Density(1)] = D!ComponentDensity(blocks)
      /\ e[Density(2)] = D!ComponentDensity(blocks)
      /\ \A n \in DOMAIN FdMember \ DOMAIN ByArguments : e[n] \in Inside(FdMember[n])
  BY GeneratedSet
<1> HIDE DEF e
<1>2. \A n \in GbeBiosNames : e[n] \in Inside(FdMember[n])
  BY <1>1, SetFits
<1>3. \A n \in DensityNames : e[n] \in Inside(FdMember[n])
  BY <1>1, DensityIs, BitsOfNames, InsideSmall DEF DensityNames
<1>4. QED
  BY <1>1, <1>2, <1>3, ByArgumentsDomain, FitsIs DEF e

(* For other arguments, as Ich9Descriptor has it.                          *)
GeneratedDensity(blocks) == <<D!ComponentDensity(blocks), D!ComponentDensity(blocks)>>

LEMMA GeneratedRecord ==
  ASSUME NEW x1, NEW x2, NEW x3, NEW x4, NEW x5, NEW x6, NEW x7, NEW x8, NEW x9,
         NEW blocks, NEW gbe, NEW x, x = DescriptorOf(x1, x2, x3, x4, x5, x6, x7, x8, x9)
  PROVE  D!Generated(x, blocks, gbe) =
           DescriptorOf(GbeMoved(BiosMoved(x1, BiosTo(gbe, blocks)), GbeTo(gbe)), 1 + On(gbe),
                  GeneratedDensity(blocks), x4, On(gbe), On(gbe), x7, x8, x9)
<1> DEFINE on == On(gbe)
<1> DEFINE density == [i \in 1 .. 2 |-> D!ComponentDensity(blocks)]
<1> DEFINE bios == BiosTo(gbe, blocks)
<1> DEFINE to == GbeTo(gbe)
<1> DEFINE count == 1 + on
<1>1. D!Generated(x, blocks, gbe) =
        [x EXCEPT !.count = count, !.density = density, !.extent["bios"] = bios,
                  !.extent["gbe"] = to, !.integratedGbe = on, !.lanPhy = on]
  BY DEF D!Generated, On, BiosTo, GbeTo, D!DescriptorBlocks, D!GbeBlocks
<1>2. density = GeneratedDensity(blocks)
  BY DEF GeneratedDensity
<1> HIDE DEF on, density, bios, to, count
<1> DEFINE y1 == [x EXCEPT !.count = count]
<1> DEFINE y2 == [y1 EXCEPT !.density = density]
<1> DEFINE y3 == [y2 EXCEPT !.extent["bios"] = bios]
<1> DEFINE y4 == [y3 EXCEPT !.extent["gbe"] = to]
<1> DEFINE y5 == [y4 EXCEPT !.integratedGbe = on]
<1> DEFINE y6 == [y5 EXCEPT !.lanPhy = on]
<1>3. D!Generated(x, blocks, gbe) = y6
  BY <1>1
<1> DEFINE z1 == BiosMoved(x1, bios)
<1> DEFINE w1 == GbeMoved(z1, to)
<1>4. y1 = DescriptorOf(x1, count, x3, x4, x5, x6, x7, x8, x9)
  BY DEF DescriptorOf
<1> HIDE DEF y1
<1>5. y2 = DescriptorOf(x1, count, density, x4, x5, x6, x7, x8, x9)
  BY <1>4 DEF DescriptorOf
<1> HIDE DEF y2
<1>6. y3 = DescriptorOf(z1, count, density, x4, x5, x6, x7, x8, x9)
  BY <1>5 DEF DescriptorOf, BiosMoved
<1> HIDE DEF y3, z1
<1>7. y4 = DescriptorOf(w1, count, density, x4, x5, x6, x7, x8, x9)
  BY <1>6 DEF DescriptorOf, GbeMoved
<1> HIDE DEF y4, w1
<1>8. y5 = DescriptorOf(w1, count, density, x4, on, x6, x7, x8, x9)
  BY <1>7 DEF DescriptorOf
<1> HIDE DEF y5
<1>9. y6 = DescriptorOf(w1, count, density, x4, on, on, x7, x8, x9)
  BY <1>8 DEF DescriptorOf
<1> HIDE DEF y6
<1>10. QED
  BY <1>2, <1>3, <1>9 DEF on, count, bios, to, z1, w1

LEMMA GeneratedExtents ==
  ASSUME NEW d, NEW e, NEW gbe, NEW blocks, GbeBiosSet(e, gbe, blocks),
         \A r \in {"fd", "me", "pd"} : ExtentOf(e, r) = ExtentOf(d, r), NEW x,
         x = [r \in D!Region |-> ExtentOf(d, r)]
  PROVE  [r \in D!Region |-> ExtentOf(e, r)] =
           GbeMoved(BiosMoved(x, BiosTo(gbe, blocks)), GbeTo(gbe))
<1> DEFINE y == GbeMoved(BiosMoved(x, BiosTo(gbe, blocks)), GbeTo(gbe))
<1>1. /\ DOMAIN y = D!Region /\ y = [r \in D!Region |-> y[r]]
      /\ \A r \in {"fd", "me", "pd"} : y[r] = ExtentOf(d, r)
      /\ y["bios"] = BiosTo(gbe, blocks) /\ y["gbe"] = GbeTo(gbe)
  BY Registers DEF BiosMoved, GbeMoved
<1>2. ExtentOf(e, "gbe") = GbeTo(gbe)
  BY DEF GbeBiosSet, ExtentOf, GbeTo, D!GbeExtent, D!Removed, D!DescriptorBlocks,
         D!GbeBlocks
<1>3. ExtentOf(e, "bios") = BiosTo(gbe, blocks)
  BY DEF GbeBiosSet, ExtentOf, BiosTo, D!BiosExtent
<1> HIDE DEF y
<1>4. \A r \in D!Region : ExtentOf(e, r) = y[r]
  BY <1>1, <1>2, <1>3, Registers
<1>5. QED
  BY <1>1, <1>4 DEF y

LEMMA GeneratedFields ==
  ASSUME NEW code, IsDescriptorCode(code), NEW blocks \in Nat, NEW gbe,
         NEW d, DOMAIN d = DOMAIN FdMember,
         \A n \in DOMAIN FdMember \ DOMAIN ByArguments : d[n] = code[n].value,
         NEW e, e = GeneratedDescriptorStruct(code, blocks, gbe)
  PROVE  /\ AsDescriptor(e) = D!Generated(AsDescriptor(d), blocks, gbe)
         /\ Kept(d, e, GbeBiosNames \cup DensityNames)
<1> DEFINE names == GbeBiosNames \cup DensityNames
<1>1. /\ DOMAIN e = DOMAIN FdMember /\ GbeBiosSet(e, gbe, blocks)
      /\ e[Density(1)] = D!ComponentDensity(blocks)
      /\ e[Density(2)] = D!ComponentDensity(blocks)
      /\ \A n \in DOMAIN FdMember \ DOMAIN ByArguments : e[n] = code[n].value
  BY GeneratedSet
<1>2. Kept(d, e, names)
  BY <1>1, ByArgumentsDomain DEF Kept
<1>4. /\ \A r \in {"fd", "me", "pd"} : \A n : Reg(r, n) \notin names
      /\ \A m, n : Mstr(m, n) \notin names
      /\ Ich("meDisable") \notin names /\ \A n : Mch(n) \notin names
      /\ \A i \in 0 .. 7 : Magic(i) \notin names
  <2>1. \A r \in {"fd", "me", "pd"} : \A n : Reg(r, n) \notin names
    BY NamesApart, Registers DEF Apart, GbeBiosNames, DensityNames
  <2>2. /\ \A m, n : Mstr(m, n) \notin names
        /\ Ich("meDisable") \notin names /\ \A n : Mch(n) \notin names
    BY NamesApart DEF Apart, GbeBiosNames, DensityNames
  <2>3. \A i \in 0 .. 7 : Magic(i) \notin names
    BY NamesApart DEF Apart, GbeBiosNames, DensityNames
  <2>4. QED
    BY <2>1, <2>2, <2>3
<1> HIDE DEF names
<1>5. \A r \in {"fd", "me", "pd"} : ExtentOf(e, r) = ExtentOf(d, r)
  BY <1>2, <1>4, ExtentKept, Registers
<1>6. \A m \in D!Master : AccessOf(e, m) = AccessOf(d, m)
  BY <1>2, <1>4, AccessKept
<1>7. MeOff(e) = MeOff(d) /\ TpmOff(e) = TpmOff(d) /\ IsLiberated(e) = IsLiberated(d)
  BY <1>2, <1>4, OthersKept
<1> DEFINE x1 == [r \in D!Region |-> ExtentOf(d, r)]
<1> DEFINE x2 == d[NR]
<1> DEFINE x3 == <<d[Density(1)], d[Density(2)]>>
<1> DEFINE x4 == [m \in D!Master |-> AccessOf(d, m)]
<1> DEFINE x5 == d[Ich("integratedGbe")]
<1> DEFINE x6 == d[Ich("lanPhy")]
<1> DEFINE x7 == MeOff(d)
<1> DEFINE x8 == TpmOff(d)
<1> DEFINE x9 == IsLiberated(d)
<1>8. AsDescriptor(d) = DescriptorOf(x1, x2, x3, x4, x5, x6, x7, x8, x9)
  BY Shape
<1>9. x1 = [r \in D!Region |-> ExtentOf(d, r)]
  OBVIOUS
<1>10. [m \in D!Master |-> AccessOf(e, m)] = x4
  BY <1>6
<1>11. MeOff(e) = x7 /\ TpmOff(e) = x8 /\ IsLiberated(e) = x9
  BY <1>7
<1> HIDE DEF x1, x2, x3, x4, x5, x6, x7, x8, x9
<1> DEFINE y1 == GbeMoved(BiosMoved(x1, BiosTo(gbe, blocks)), GbeTo(gbe))
<1>12. [r \in D!Region |-> ExtentOf(e, r)] = y1
  BY <1>1, <1>5, <1>9, GeneratedExtents
<1>13. <<e[Density(1)], e[Density(2)]>> = GeneratedDensity(blocks)
  BY <1>1 DEF GeneratedDensity
<1>14. /\ e[NR] = 1 + On(gbe)
       /\ e[Ich("integratedGbe")] = On(gbe) /\ e[Ich("lanPhy")] = On(gbe)
  BY <1>1 DEF GbeBiosSet
<1>15. AsDescriptor(e) =
         DescriptorOf(y1, 1 + On(gbe), GeneratedDensity(blocks), x4, On(gbe), On(gbe), x7, x8, x9)
  BY <1>10, <1>11, <1>12, <1>13, <1>14, Shape
<1>16. D!Generated(AsDescriptor(d), blocks, gbe) =
         DescriptorOf(y1, 1 + On(gbe), GeneratedDensity(blocks), x4, On(gbe), On(gbe), x7, x8, x9)
  BY <1>8, GeneratedRecord
<1>17. QED
  BY <1>2, <1>15, <1>16 DEF names

-----------------------------------------------------------------------------
(* The code that is written returns what it was written from.              *)

LEMMA NotPadding ==
  DOMAIN ByArguments \cap Paddings = {}
BY ByArgumentsDomain, Registers
DEF GbeBiosNames, DensityNames, NR, Density, Reg, Ich, Paddings

LEMMA ByArgumentsCount ==
  \A n \in DOMAIN ByArguments : ByArguments[n].count = 1
BY DEF ByArguments, From

LEMMA DescriptorCodeIs ==
  ASSUME NEW d, Fits(FdMember, d)
  PROVE  /\ IsDescriptorCode(DescriptorCode(d))
         /\ \A n \in DOMAIN FdMember \ DOMAIN ByArguments : DescriptorCode(d)[n].value = d[n]
<1> DEFINE code == DescriptorCode(d)
<1>1. DOMAIN code = DOMAIN FdMember
  BY WrittenAssumption DEF DescriptorCode
<1>2. \A n \in DOMAIN ByArguments : n \in DescriptorWritten /\ code[n] = ByArguments[n]
  BY DEF DescriptorCode, DescriptorWritten
<1>3. ASSUME NEW n \in DOMAIN FdMember \ DOMAIN ByArguments
      PROVE  /\ code[n].by = "literal" /\ code[n].value = d[n]
             /\ code[n].count = FdMember[n].count
  <2>1. n \in DescriptorWritten
    BY WrittenAssumption
  <2> DEFINE count == IF n \in Paddings THEN PaddingWritten[n[1]] ELSE 1
  <2>2. code[n] = Literal(d[n], count)
    BY <2>1 DEF DescriptorCode
  <2>3. FdMember[n].count = count
    BY <2>1, WrittenAssumption
  <2> HIDE DEF count, code
  <2>4. QED
    BY <2>2, <2>3 DEF Literal
<1>4. \A n \in DOMAIN ByArguments : code[n].count = FdMember[n].count
  <2>1. \A n \in DOMAIN ByArguments : FdMember[n].count = 1
    BY <1>2, NotPadding, WrittenAssumption
  <2> HIDE DEF code
  <2>2. QED
    BY <1>2, <2>1, ByArgumentsCount
<1> HIDE DEF code
<1>5. Complete(FdMember, code)
  BY <1>1, <1>3, <1>4 DEF Complete, CodeOf
<1>6. ASSUME NEW n \in DOMAIN FdMember \ DOMAIN ByArguments
      PROVE  LiteralFits(FdMember, code, n)
  <2>1. d[n] \in Inside(FdMember[n])
    BY FitsIs
  <2>2. code[n].by = "literal" /\ code[n].value \in Inside(FdMember[n])
    BY <1>3, <2>1
  <2>3. QED
    BY <2>2 DEF LiteralFits, Inside
<1>7. IsDescriptorCode(code)
  BY <1>1, <1>2, <1>5, <1>6 DEF IsDescriptorCode
<1>8. QED
  BY <1>3, <1>7 DEF code

LEMMA GbeCodeIs ==
  ASSUME NEW g, Fits(GbeMember, g)
  PROVE  /\ IsGbeCode(GbeCode(g))
         /\ g = [n \in DOMAIN g |-> g[n]] => GeneratedGbeStruct4k(GbeCode(g)) = g
<1> DEFINE code == GbeCode(g)
<1>1. DOMAIN code = DOMAIN GbeMember /\ DOMAIN g = DOMAIN GbeMember
  BY WrittenAssumption, FitsIs DEF GbeCode
<1>2. ASSUME NEW n \in DOMAIN GbeMember
      PROVE  /\ code[n].by = "literal" /\ code[n].value = g[n]
             /\ code[n].count = GbeMember[n].count
  <2> DEFINE count == IF n = <<"padding">> THEN GbeMember[n].count ELSE 1
  <2>1. code[n] = Literal(g[n], count)
    BY WrittenAssumption DEF GbeCode
  <2>2. GbeMember[n].count = count
    BY WrittenAssumption
  <2> HIDE DEF count, code
  <2>3. QED
    BY <2>1, <2>2 DEF Literal
<1> HIDE DEF code
<1>3. Complete(GbeMember, code)
  BY <1>1, <1>2 DEF Complete, CodeOf
<1>4. ASSUME NEW n \in DOMAIN GbeMember PROVE LiteralFits(GbeMember, code, n)
  <2>1. g[n] \in Inside(GbeMember[n])
    BY FitsIs
  <2>2. code[n].by = "literal" /\ code[n].value \in Inside(GbeMember[n])
    BY <1>2, <2>1
  <2>3. QED
    BY <2>2 DEF LiteralFits, Inside
<1>5. IsGbeCode(code)
  BY <1>1, <1>3, <1>4 DEF IsGbeCode
<1> DEFINE h == GeneratedGbeStruct4k(code)
<1>6. DOMAIN h = DOMAIN GbeMember /\ h = [n \in DOMAIN GbeMember |-> h[n]]
  BY DEF GeneratedGbeStruct4k, Returned
<1>7. ASSUME NEW n \in DOMAIN GbeMember PROVE h[n] = g[n]
  <2>1. GbeMember[n].bits \in Nat
    BY BitsAssumption
  <2> DEFINE none == <<>>
  <2>2. h = Returned(GbeMember, code, none)
    BY DEF GeneratedGbeStruct4k
  <2> HIDE DEF h, none
  <2>3. h[n] = code[n].value
    BY <1>3, <1>4, <2>1, <2>2, LiteralReturned
  <2>4. QED
    BY <1>2, <2>3
<1> HIDE DEF h
<1>8. g = [n \in DOMAIN g |-> g[n]] => h = g
  BY <1>1, <1>6, <1>7
<1>9. QED
  BY <1>5, <1>8 DEF code, h

LEMMA GbeGeneratedFits ==
  ASSUME NEW code, IsGbeCode(code)
  PROVE  Fits(GbeMember, GeneratedGbeStruct4k(code))
<1> DEFINE none == <<>>
<1> DEFINE h == Returned(GbeMember, code, none)
<1>1. GeneratedGbeStruct4k(code) = h
  BY DEF GeneratedGbeStruct4k
<1> HIDE DEF none
<1>2. Complete(GbeMember, code) /\ DOMAIN code = DOMAIN GbeMember
  BY DEF IsGbeCode, Complete
<1>3. DOMAIN h = DOMAIN GbeMember
  BY <1>2, ReturnedIs
<1>4. ASSUME NEW n \in DOMAIN GbeMember PROVE h[n] \in Inside(GbeMember[n])
  <2>1. GbeMember[n].bits \in Nat /\ LiteralFits(GbeMember, code, n)
    BY <1>2, BitsAssumption DEF IsGbeCode
  <2>2. h[n] = code[n].value /\ code[n].value \in Inside(GbeMember[n])
    BY <1>2, <2>1, LiteralReturned
  <2>3. QED
    BY <2>2
<1> HIDE DEF h
<1>5. Fits(GbeMember, h)
  BY <1>3, <1>4, FitsIs
<1>6. QED
  BY <1>1, <1>5

-----------------------------------------------------------------------------
(* GbE regions with a new checksum                                         *)

LEMMA GbeNames ==
  /\ <<"checkSum">> \in DOMAIN GbeMember /\ <<"padding">> \in DOMAIN GbeMember
  /\ \A n \in DOMAIN GbeMember : GbeMember[n].bits \in 1 .. 16
  /\ GbeMember[<<"checkSum">>].bits = 16 /\ GbeMember[<<"padding">>].bits = 8
  /\ \A i \in Indices(6) : GbeMember[<<"macAddress", i>>].bits = 8
  /\ \A i : <<"checkSum">> # <<"macAddress", i>>
<1>1. <<"checkSum">> \in GbeWritten /\ <<"padding">> \in GbeWritten
  BY In0 DEF GbeWritten
<1>2. \A i \in Indices(6) : <<"macAddress", i>> \in In(<<"macAddress">>, Indices(6))
  BY In1
<1>3. \A i \in Indices(6) : GbeMember[<<"macAddress", i>>].bits = 8
  BY <1>2, BitsAssumption
<1>4. \A i : <<"checkSum">> # <<"macAddress", i>>
  OBVIOUS
<1>5. QED
  BY <1>1, <1>3, <1>4, WrittenAssumption, BitsAssumption

LEMMA FitsBeforeIs ==
  ASSUME NEW g, Fits(GbeMember, g)
  PROVE  FitsBefore(g)
<1>1. ASSUME NEW n \in DOMAIN GbeMember PROVE g[n] \in Nat /\ g[n] < Pow(GbeMember[n].bits)
  <2>1. g[n] \in Inside(GbeMember[n])
    BY FitsIs
  <2>2. GbeMember[n].bits \in 1 .. 16
    BY GbeNames
  <2>3. GbeMember[n].bits \in Nat /\ GbeMember[n].bits < 31
    BY <2>2
  <2>4. QED
    BY <2>1, <2>3, InsideIs
<1>2. QED
  BY <1>1 DEF FitsBefore

LEMMA SummedRight ==
  ASSUME NEW a \in Abi \ Incompatible, NEW g, Fits(GbeMember, g), NEW h, h = Summed(a, g)
  PROVE  /\ Fits(GbeMember, h) /\ h = [n \in DOMAIN h |-> h[n]]
         /\ SumOfWords(a, h, 64) % 65536 = \hBABA
<1> DEFINE c == Checksum(a, g)
<1> DEFINE changes == [checkSum |-> c]
<1>1. DOMAIN changes = {"checkSum"} /\ changes["checkSum"] = c
  OBVIOUS
<1>2. h = Set(g, <<>>, changes)
  BY DEF Summed
<1>3. h = [n \in DOMAIN h |-> h[n]]
  BY <1>2 DEF Set, Changed
<1> HIDE DEF changes, c
<1>4. DOMAIN g = DOMAIN GbeMember /\ \A n \in DOMAIN GbeMember : g[n] \in Inside(GbeMember[n])
  BY FitsIs
<1>5. /\ DOMAIN h = DOMAIN GbeMember /\ h[<<"checkSum">>] = c
      /\ \A n \in DOMAIN GbeMember \ {<<"checkSum">>} : h[n] = g[n]
  BY <1>1, <1>2, <1>4, Set0, GbeNames
<1>6. FitsBefore(g)
  BY FitsBeforeIs
<1>7. c \in Nat /\ c < 65536 /\ SumOfWords(a, h, 64) % 65536 = \hBABA
  BY <1>5, <1>6, SummedSums DEF c
<1>8. c \in Inside(GbeMember[<<"checkSum">>])
  BY <1>7, GbeNames, InsideSmall
<1>9. \A n \in DOMAIN GbeMember : h[n] \in Inside(GbeMember[n])
  BY <1>4, <1>5, <1>8
<1>10. QED
  BY <1>3, <1>5, <1>7, <1>9, FitsIs

(* What ich9deblob and ich9gen write.                                      *)
GbeRight(a, gbe) ==
  /\ gbe = Twice(gbe.main) /\ gbe.backup = gbe.main
  /\ Fits(GbeMember, gbe.main) /\ gbe.main = [n \in DOMAIN gbe.main |-> gbe.main[n]]
  /\ SumOfWords(a, gbe.main, 64) % 65536 = \hBABA

LEMMA TwiceRight ==
  ASSUME NEW a, NEW h, Fits(GbeMember, h), h = [n \in DOMAIN h |-> h[n]],
         SumOfWords(a, h, 64) % 65536 = \hBABA, NEW gbe, gbe = Twice(h)
  PROVE  GbeRight(a, gbe)
<1>1. gbe.main = h /\ gbe.backup = h
  BY DEF Twice
<1>2. QED
  BY <1>1 DEF GbeRight

LEMMA DeblobbedGbeRight ==
  ASSUME NEW a \in Abi \ Incompatible, NEW g, Fits(GbeMember, g.backup)
  PROVE  GbeRight(a, DeblobbedGbe(a, g))
<1> DEFINE changes == [padding |-> 255]
<1> DEFINE b == g.backup
<1> DEFINE c == Set(b, <<>>, changes)
<1>1. DOMAIN changes = {"padding"} /\ changes["padding"] = 255
  OBVIOUS
<1>2. DeblobbedGbe(a, g) = Twice(Summed(a, c))
  BY DEF DeblobbedGbe
<1> HIDE DEF changes
<1>3. DOMAIN b = DOMAIN GbeMember /\ \A n \in DOMAIN GbeMember : b[n] \in Inside(GbeMember[n])
  BY FitsIs
<1> HIDE DEF b
<1>4. /\ DOMAIN c = DOMAIN GbeMember /\ c[<<"padding">>] = 255
      /\ \A n \in DOMAIN GbeMember \ {<<"padding">>} : c[n] = b[n]
  BY <1>1, <1>3, Set0, GbeNames
<1> HIDE DEF c
<1>5. c[<<"padding">>] \in Inside(GbeMember[<<"padding">>])
  BY <1>4, GbeNames, InsideSmall
<1>6. Fits(GbeMember, c)
  BY <1>3, <1>4, <1>5, FitsIs
<1> DEFINE h == Summed(a, c)
<1>7. /\ Fits(GbeMember, h) /\ h = [n \in DOMAIN h |-> h[n]]
      /\ SumOfWords(a, h, 64) % 65536 = \hBABA
  BY <1>6, SummedRight
<1> HIDE DEF h
<1>8. GbeRight(a, Twice(h))
  BY <1>7, TwiceRight
<1>9. QED
  BY <1>2, <1>8 DEF h

LEMMA AddressRight ==
  ASSUME NEW a \in Abi \ Incompatible, NEW code, Fits(GbeMember, code.main),
         NEW address \in Address
  PROVE  GbeRight(a, Twice(WithAddress(a, code, address)))
<1> DEFINE b == code.main
<1> DEFINE c == Set(b, <<"macAddress">>, address)
<1> DEFINE h == Summed(a, c)
<1>1. WithAddress(a, code, address) = h
  BY DEF WithAddress
<1>2. /\ DOMAIN address = Indices(6)
      /\ \A i \in Indices(6) : address[i] \in Nat /\ address[i] < 256
  BY AddressAssumption
<1>3. DOMAIN b = DOMAIN GbeMember /\ \A n \in DOMAIN GbeMember : b[n] \in Inside(GbeMember[n])
  BY FitsIs
<1> HIDE DEF b
<1>4. /\ DOMAIN c = DOMAIN b
      /\ \A i \in Indices(6) : <<"macAddress", i>> \in DOMAIN b =>
           c[<<"macAddress", i>>] = address[i]
      /\ \A n \in DOMAIN b : (\A i \in Indices(6) : n # <<"macAddress", i>>) => c[n] = b[n]
  BY <1>2, Set1
<1> HIDE DEF c
<1>5. ASSUME NEW n \in DOMAIN GbeMember PROVE c[n] \in Inside(GbeMember[n])
  <2>1. CASE \A i \in Indices(6) : n # <<"macAddress", i>>
    BY <1>3, <1>4, <2>1
  <2>2. ASSUME NEW i \in Indices(6), n = <<"macAddress", i>>
        PROVE  c[n] \in Inside(GbeMember[n])
    BY <1>2, <1>3, <1>4, <2>2, GbeNames, InsideSmall
  <2>3. QED
    BY <2>1, <2>2
<1>6. Fits(GbeMember, c)
  BY <1>3, <1>4, <1>5, FitsIs
<1>7. /\ Fits(GbeMember, h) /\ h = [n \in DOMAIN h |-> h[n]]
      /\ SumOfWords(a, h, 64) % 65536 = \hBABA
  BY <1>6, SummedRight
<1> HIDE DEF h
<1>8. GbeRight(a, Twice(h))
  BY <1>7, TwiceRight
<1>9. QED
  BY <1>1, <1>8

-----------------------------------------------------------------------------
(* Members of no field, and the maps among them                            *)

LEMMA InTheFields ==
  GbeBiosNames \cup DensityNames \cup GoneNames \cup DisabledNames \cup FreedNames
  \cup MagicNames \subseteq InFields
<1>1. \A r \in D!Region, n \in {"BASE", "LIMIT"} : Reg(r, n) \in InFields
  <2>1. DOMAIN FlReg = D!Region /\ \A r \in D!Region : FlReg[r] \in Range(FlReg)
    BY Registers DEF FlReg, Range
  <2>2. QED
    BY <2>1 DEF InFields, Reg
<1>2. \A m \in D!Master, n \in AccessNames : Mstr(m, n) \in InFields
  <2>1. DOMAIN FlMstr = D!Master /\ \A m \in D!Master : FlMstr[m] \in Range(FlMstr)
    BY Registers DEF FlMstr, Range
  <2>2. QED
    BY <2>1, AccessesAre DEF InFields, Mstr
<1>3. NR \in InFields
  BY DEF InFields, NR
<1>4. /\ \A n \in {"integratedGbe", "lanPhy", "meDisable"} : Ich(n) \in InFields
      /\ \A n \in {"meDisable", "tpmDisable"} : Mch(n) \in InFields
  BY In2 DEF InFields, Ich, Mch
<1>5. Density(1) \in InFields /\ Density(2) \in InFields
  BY In2 DEF InFields, Density
<1>6. \A i \in 0 .. 7 : Magic(i) \in InFields
  <2>1. \A i \in 0 .. 7 : Magic(i) \in In(<<"oemSection", "magicString">>, Indices(8))
    BY In2 DEF Magic, Indices
  <2>2. QED
    BY <2>1 DEF InFields
<1>7. GbeBiosNames \subseteq InFields
  BY <1>1, <1>3, <1>4, Registers DEF GbeBiosNames
<1>8. GoneNames \subseteq InFields
  BY <1>1, Registers DEF GoneNames
<1>9. DensityNames \cup DisabledNames \cup FreedNames \cup MagicNames \subseteq InFields
  BY <1>2, <1>4, <1>5, <1>6, Registers
  DEF DensityNames, DisabledNames, FreedNames, MagicNames
<1>10. QED
  BY <1>7, <1>8, <1>9

LEMMA MapsApart ==
  \A s \in DOMAIN Maps : Maps[s] \in DOMAIN FdMember \ InFields
<1>1. /\ DOMAIN Maps = {"componentSection", "regionSection", "masterAccessSection",
                        "ichStraps", "mchStraps", "meVsccTable"}
      /\ Maps["componentSection"] = <<"flMaps", "flMap0", "FCBA">>
      /\ Maps["regionSection"] = <<"flMaps", "flMap0", "FRBA">>
      /\ Maps["masterAccessSection"] = <<"flMaps", "flMap1", "FMBA">>
      /\ Maps["ichStraps"] = <<"flMaps", "flMap1", "FISBA">>
      /\ Maps["mchStraps"] = <<"flMaps", "flMap2", "FMSBA">>
      /\ Maps["meVsccTable"] = <<"descriptor2Map", "meVsccTableBaseAddress">>
  BY DEF Maps
<1>2. /\ <<"flMaps", "flMap0", "FCBA">> \in MapsWritten
      /\ <<"flMaps", "flMap0", "FRBA">> \in MapsWritten
      /\ <<"flMaps", "flMap1", "FMBA">> \in MapsWritten
      /\ <<"flMaps", "flMap1", "FISBA">> \in MapsWritten
      /\ <<"flMaps", "flMap2", "FMSBA">> \in MapsWritten
  BY In2 DEF MapsWritten
<1>3. <<"descriptor2Map", "meVsccTableBaseAddress">> \in TailWritten
  BY In1 DEF TailWritten
<1>4. \A s \in DOMAIN Maps : Maps[s] \in DOMAIN FdMember
  BY <1>1, <1>2, <1>3, WrittenAssumption DEF DescriptorWritten
<1>5. \A m, n : m = "FCBA" \/ m = "FRBA" \/ m = "FMBA" \/ m = "FISBA" \/ m = "FMSBA" =>
        <<"flMaps", n, m>> \notin InFields
  BY In2 DEF InFields
<1>6. <<"descriptor2Map", "meVsccTableBaseAddress">> \notin InFields
  BY In2 DEF InFields
<1>7. QED
  BY <1>1, <1>4, <1>5, <1>6

-----------------------------------------------------------------------------
(* Read as a descriptor, a struct has the properties of one                *)

P == INSTANCE Ich9Descriptor_proofs

(* The operators of Ich9Descriptor that the proofs about it speak of.      *)
LEMMA SameOperators ==
  /\ \A d, blocks : P!Deblobbed(d, blocks) = D!Deblobbed(d, blocks)
  /\ \A d, blocks, gbe : P!Generated(d, blocks, gbe) = D!Generated(d, blocks, gbe)
  /\ \A d, blocks : P!LayoutSound(d, blocks) <=> D!LayoutSound(d, blocks)
  /\ \A d : P!MeGone(d) <=> D!MeGone(d)
  /\ \A d : P!NicConsistent(d) <=> D!NicConsistent(d)
  /\ \A d : P!DefinesGbeRegion(d) <=> D!DefinesGbeRegion(d)
<1>1. \A d, blocks : P!Deblobbed(d, blocks) = D!Deblobbed(d, blocks)
  BY DEF P!Deblobbed, D!Deblobbed, P!OemString, D!OemString,
         P!HostRegionsUnlocked, D!HostRegionsUnlocked, P!MeRegionsForbidden,
         D!MeRegionsForbidden, P!FromFactory, D!FromFactory, P!DisableTpm,
         D!DisableTpm, P!DisableMe, D!DisableMe, P!PlatformRegionRemoved,
         D!PlatformRegionRemoved, P!MeRegionRemoved, D!MeRegionRemoved,
         P!SetGbeBiosRegions, D!SetGbeBiosRegions, P!GbeStraps, D!GbeStraps,
         P!BiosRegionFillImageAfterGbe, D!BiosRegionFillImageAfterGbe,
         P!BiosRegionFillImageAfterDescriptor,
         D!BiosRegionFillImageAfterDescriptor, P!MoveGbeToStart, D!MoveGbeToStart,
         P!GbeRegionRemoved, D!GbeRegionRemoved, P!Region, D!Region,
         P!DefinesGbeRegion, D!DefinesGbeRegion, P!BiosExtent, D!BiosExtent,
         P!DescriptorBlocks, D!DescriptorBlocks, P!GbeBlocks, D!GbeBlocks,
         P!GbeExtent, D!GbeExtent, P!Removed, D!Removed
<1>2. \A d, blocks, gbe : P!Generated(d, blocks, gbe) = D!Generated(d, blocks, gbe)
  BY DEF P!Generated, D!Generated, P!ComponentDensity, D!ComponentDensity, P!Size,
         D!Size, P!BiosExtent, D!BiosExtent, P!DescriptorBlocks,
         D!DescriptorBlocks, P!GbeBlocks, D!GbeBlocks, P!GbeExtent, D!GbeExtent,
         P!Removed, D!Removed
<1>3. \A d, blocks : P!LayoutSound(d, blocks) <=> D!LayoutSound(d, blocks)
  BY DEF P!LayoutSound, D!LayoutSound, P!Regions, D!Regions, P!Region, D!Region,
         P!Present, D!Present, P!First, D!First, P!Last, D!Last
<1>4. /\ \A d : P!MeGone(d) <=> D!MeGone(d)
      /\ \A d : P!NicConsistent(d) <=> D!NicConsistent(d)
      /\ \A d : P!DefinesGbeRegion(d) <=> D!DefinesGbeRegion(d)
  BY DEF P!MeGone, D!MeGone, P!NicConsistent, D!NicConsistent, P!DefinesGbeRegion,
         D!DefinesGbeRegion, P!Region, D!Region, P!Present, D!Present, P!First,
         D!First, P!Last, D!Last
<1>5. QED
  BY <1>1, <1>2, <1>3, <1>4

SoundFor(d, blocks, gbe) ==
  /\ D!LayoutSound(d, blocks) /\ D!MeGone(d) /\ D!NicConsistent(d)
  /\ D!DefinesGbeRegion(d) <=> gbe

LEMMA SoundIs ==
  ASSUME NEW d, NEW blocks, NEW gbe, P!Sound(d, blocks, gbe)
  PROVE  SoundFor(d, blocks, gbe)
BY SameOperators DEF P!Sound, SoundFor

LEMMA SmallInside ==
  ASSUME NEW m, NEW v \in Inside(m)
  PROVE  /\ m.bits = 1 => v \in 0 .. 1
         /\ m.bits = 3 => v \in 0 .. 7
         /\ m.bits = 13 => v \in P!Bits13
<1>1. Pow(1) = 2 /\ Pow(3) = 8 /\ Pow(13) = 8192
  BY PowerTable DEF Pow
<1>2. CASE m.bits = 1
  BY <1>1, <1>2, InsideIs
<1>3. CASE m.bits = 3
  BY <1>1, <1>3, InsideIs
<1>4. CASE m.bits = 13
  <2>1. m.bits \in Nat /\ m.bits < 31 /\ Pow(m.bits) = 8192
    BY <1>1, <1>4
  <2>2. v \in Nat /\ v < Pow(m.bits)
    BY <2>1, InsideIs
  <2>3. QED
    BY <1>4, <2>1, <2>2 DEF P!Bits13
<1>5. QED
  BY <1>2, <1>3, <1>4

LEMMA AsDescriptorType ==
  ASSUME NEW d, Fits(FdMember, d)
  PROVE  AsDescriptor(d) \in P!Descriptor
<1>1. \A n \in DOMAIN FdMember : d[n] \in Inside(FdMember[n])
  BY FitsIs
<1>2. \A r \in D!Region :
        d[Reg(r, "BASE")] \in P!Bits13 /\ d[Reg(r, "LIMIT")] \in P!Bits13
  BY <1>1, SmallInside, BitsOfNames, NamesWritten
<1>3. d[NR] \in 0 .. 7 /\ d[Density(1)] \in 0 .. 7 /\ d[Density(2)] \in 0 .. 7
  BY <1>1, SmallInside, BitsOfNames, NamesWritten
<1>4. d[Ich("integratedGbe")] \in 0 .. 1 /\ d[Ich("lanPhy")] \in 0 .. 1
  BY <1>1, SmallInside, BitsOfNames, NamesWritten
<1> DEFINE x1 == [r \in D!Region |-> ExtentOf(d, r)]
<1> DEFINE x2 == d[NR]
<1> DEFINE x3 == <<d[Density(1)], d[Density(2)]>>
<1> DEFINE x4 == [m \in D!Master |-> AccessOf(d, m)]
<1> DEFINE x5 == d[Ich("integratedGbe")]
<1> DEFINE x6 == d[Ich("lanPhy")]
<1> DEFINE x7 == MeOff(d)
<1> DEFINE x8 == TpmOff(d)
<1> DEFINE x9 == IsLiberated(d)
<1>5. AsDescriptor(d) = DescriptorOf(x1, x2, x3, x4, x5, x6, x7, x8, x9)
  BY Shape
<1>6. D!Region = P!Region /\ D!Master = P!Master
  BY DEF D!Region, P!Region, D!Master, P!Master
<1>7. x1 \in [P!Region -> P!Extent]
  <2>1. ASSUME NEW r \in D!Region PROVE ExtentOf(d, r) \in P!Extent
    <3> DEFINE base == d[Reg(r, "BASE")]
    <3> DEFINE limit == d[Reg(r, "LIMIT")]
    <3>1. base \in P!Bits13 /\ limit \in P!Bits13
      BY <1>2
    <3> HIDE DEF base, limit
    <3>2. [base |-> base, limit |-> limit] \in P!Extent
      BY <3>1 DEF P!Extent
    <3>3. QED
      BY <3>2 DEF ExtentOf, base, limit
  <2>2. QED
    BY <1>6, <2>1
<1>8. x3 \in [1 .. 2 -> 0 .. 7]
  BY <1>3
<1>9. x4 \in [P!Master -> P!Access]
  <2>1. \A m : AccessOf(d, m) \in P!Access
    BY <1>6 DEF AccessOf, P!Access
  <2>2. QED
    BY <1>6, <2>1
<1>10. x2 \in 0 .. 7 /\ x5 \in P!Bit /\ x6 \in P!Bit
  BY <1>3, <1>4 DEF P!Bit
<1>11. x7 \in BOOLEAN /\ x8 \in BOOLEAN /\ x9 \in BOOLEAN
  BY DEF MeOff, TpmOff, IsLiberated
<1> HIDE DEF x1, x2, x3, x4, x5, x6, x7, x8, x9
<1>12. DescriptorOf(x1, x2, x3, x4, x5, x6, x7, x8, x9) \in P!Descriptor
  BY <1>7, <1>8, <1>9, <1>10, <1>11 DEF DescriptorOf, P!Descriptor
<1>13. QED
  BY <1>5, <1>12

(* Code of a descriptor whose management engine is gone, with the NIC or   *)
(* without.                                                                *)
FreedCode(code) ==
  \A gbe \in BOOLEAN : P!Freed(AsDescriptor(GeneratedDescriptorStruct(code, 2048, gbe)))

LEMMA FactoryIs ==
  ASSUME NEW rom \in Factory
  PROVE  /\ Fits(FdMember, rom.fd) /\ DOMAIN rom.fd = DOMAIN FdMember /\ rom.blocks \in Nat
         /\ DefinesGbeRegion(rom.fd) => Fits(GbeMember, rom.gbe.backup)
         /\ \A a \in Abi \ Incompatible : MapsPoint(a, rom.fd)
<1> DEFINE blocks == rom.blocks
<1>1. blocks \in 4 .. 8192
  BY FactoryAssumption
<1> HIDE DEF blocks
<1>2. blocks \in Nat
  BY <1>1
<1>3. QED
  BY <1>2, FactoryAssumption, MapsAssumption, FitsIs DEF blocks

LEMMA FactoryAtStart ==
  ASSUME NEW rom \in Factory
  PROVE  P!AtStart(AsDescriptor(rom.fd)) /\ rom.blocks \in P!Blocks
<1>1. Fits(FdMember, rom.fd) /\ rom.blocks \in P!Blocks
  BY FactoryAssumption DEF P!Blocks
<1>2. rom.fd[Reg("fd", "BASE")] = 0 /\ rom.fd[Reg("fd", "LIMIT")] = 0
  BY FactoryAssumption, In2, Registers DEF Reg
<1> DEFINE extent == [r \in D!Region |-> ExtentOf(rom.fd, r)]
<1>3. extent["fd"] = [base |-> 0, limit |-> 0]
  BY <1>2, Registers DEF ExtentOf
<1> HIDE DEF extent
<1>4. AsDescriptor(rom.fd).extent = extent
  BY Shape DEF DescriptorOf, extent
<1>5. QED
  BY <1>1, <1>3, <1>4, AsDescriptorType DEF P!AtStart

LEMMA FreedCodeSound ==
  ASSUME NEW code, IsDescriptorCode(code), FreedCode(code),
         NEW blocks \in P!Blocks, NEW gbe \in BOOLEAN,
         NEW e, e = GeneratedDescriptorStruct(code, blocks, gbe)
  PROVE  SoundFor(AsDescriptor(e), blocks, gbe)
<1> DEFINE before == 2048
<1> DEFINE d == GeneratedDescriptorStruct(code, before, gbe)
<1>1. before \in Nat /\ blocks \in Nat
  BY DEF P!Blocks
<1>2. P!Freed(AsDescriptor(d))
  BY DEF FreedCode
<1> HIDE DEF before
<1>3. /\ DOMAIN d = DOMAIN FdMember
      /\ \A n \in DOMAIN FdMember \ DOMAIN ByArguments : d[n] = code[n].value
  BY <1>1, GeneratedSet
<1> HIDE DEF d
<1>4. AsDescriptor(e) = P!Generated(AsDescriptor(d), blocks, gbe)
  BY <1>1, <1>3, GeneratedFields, SameOperators
<1>5. P!Sound(AsDescriptor(e), blocks, gbe)
  BY <1>2, <1>4, P!GeneratedSound
<1>6. QED
  BY <1>5, SoundIs

LEMMA DeblobbedFreed ==
  ASSUME NEW rom \in Factory, NEW fd, fd = DeblobbedFd(rom.fd, rom.blocks)
  PROVE  /\ FreedCode(DescriptorCode(fd))
         /\ SoundFor(AsDescriptor(fd), rom.blocks, DefinesGbeRegion(rom.fd))
<1> DEFINE d == AsDescriptor(rom.fd)
<1> DEFINE code == DescriptorCode(fd)
<1> DEFINE before == 2048
<1>1. /\ P!AtStart(d) /\ rom.blocks \in P!Blocks
      /\ Fits(FdMember, rom.fd) /\ DOMAIN rom.fd = DOMAIN FdMember /\ rom.blocks \in Nat
  BY FactoryAtStart, FactoryIs
<1>2. AsDescriptor(fd) = P!Deblobbed(d, rom.blocks)
  BY <1>1, DeblobbedFields, SameOperators
<1>3. P!DefinesGbeRegion(d) <=> DefinesGbeRegion(rom.fd)
  BY DefinesAlike, SameOperators
<1>4. Fits(FdMember, fd) /\ DOMAIN fd = DOMAIN FdMember
  BY <1>1, EditedFits, FitsIs
<1>5. /\ IsDescriptorCode(code)
      /\ \A n \in DOMAIN FdMember \ DOMAIN ByArguments : fd[n] = code[n].value
  BY <1>4, DescriptorCodeIs
<1>6. before \in Nat /\ before \in P!Blocks
  BY DEF P!Blocks
<1> HIDE DEF d, code, before
<1>7. P!Freed(AsDescriptor(fd)) /\ P!Sound(AsDescriptor(fd), rom.blocks, P!DefinesGbeRegion(d))
  BY <1>1, <1>2, P!DeblobbedSound
<1>8. SoundFor(AsDescriptor(fd), rom.blocks, DefinesGbeRegion(rom.fd))
  BY <1>3, <1>7, SoundIs DEF SoundFor
<1>9. ASSUME NEW gbe \in BOOLEAN
      PROVE  P!Freed(AsDescriptor(GeneratedDescriptorStruct(code, before, gbe)))
  <2> DEFINE e == GeneratedDescriptorStruct(code, before, gbe)
  <2>1. AsDescriptor(e) = P!Generated(AsDescriptor(fd), before, gbe)
    BY <1>4, <1>5, <1>6, GeneratedFields, SameOperators
  <2> HIDE DEF e
  <2>2. P!Freed(AsDescriptor(e))
    BY <1>6, <1>7, <2>1, P!GeneratedSound
  <2>3. QED
    BY <2>2 DEF e
<1>10. QED
  BY <1>8, <1>9 DEF FreedCode, code, before

LEMMA ShippedFreed == FreedCode(ShippedDescriptorCode)
<1> DEFINE before == 2048
<1> SUFFICES ASSUME NEW gbe \in BOOLEAN
             PROVE  P!Freed(AsDescriptor(GeneratedDescriptorStruct(ShippedDescriptorCode,
                                                                   before, gbe)))
  BY DEF FreedCode
<1> DEFINE d == GeneratedDescriptorStruct(ShippedDescriptorCode, before, gbe)
<1>1. D!MeGone(AsDescriptor(d)) /\ AsDescriptor(d).extent["fd"] = [base |-> 0, limit |-> 0]
  BY FreedAssumption
<1>2. before \in Nat
  OBVIOUS
<1> HIDE DEF before
<1>3. Fits(FdMember, d)
  BY <1>2, ShippedAssumption, GeneratedFits
<1> HIDE DEF d
<1>4. P!Freed(AsDescriptor(d))
  BY <1>1, <1>3, AsDescriptorType, SameOperators DEF P!Freed, P!AtStart
<1>5. QED
  BY <1>4 DEF d

-----------------------------------------------------------------------------
(* The inductive invariant                                                 *)

(* Code that can be built: complete, of a descriptor without a management  *)
(* engine, with maps that point at the sections and a GbE region that is   *)
(* the repository's own or sums up.  Of the code that was dumped, only     *)
(* demefactory's may be of a descriptor that has the engine's region; it   *)
(* is never placed.                                                        *)
CodeMapsPoint(a, code) == \A s \in DOMAIN Maps : 8 * 16 * code[Maps[s]].value = PlacesOf[a][s]
CodeSums(a, code) == SumOfWords(a, GeneratedGbeStruct4k(code), 64) % 65536 = \hBABA

Buildable(a, code) ==
  /\ IsDescriptorCode(code.fd) /\ FreedCode(code.fd) /\ IsGbeCode(code.gbe)
  /\ code.gbe = ShippedGbeCode \/ CodeSums(a, code.gbe)
  /\ a \notin Incompatible => CodeMapsPoint(a, code.fd)
Placeable(a, code) ==
  /\ code.fd = None \/ (IsDescriptorCode(code.fd) /\ CodeMapsPoint(a, code.fd))
  /\ code.gbe = None \/ (IsGbeCode(code.gbe) /\ CodeSums(a, code.gbe))

(* What each tool wrote: an image and the code for it.                     *)
DeblobWrote(a, rom, wrote, code) ==
  /\ wrote.fd = DeblobbedFd(rom.fd, rom.blocks)
  /\ code.fd = DescriptorCode(wrote.fd)
  /\ IF DefinesGbeRegion(rom.fd)
       THEN /\ wrote.gbe = DeblobbedGbe(a, rom.gbe)
            /\ code.gbe = GbeCode(wrote.gbe.backup)
       ELSE wrote.gbe = None
DemedWrote(rom, wrote) == wrote.fd = DemedFd(rom.fd) /\ wrote.gbe = None
GenWrote(a, code, name, wrote) ==
  /\ name \in DOMAIN BlocksOf
  /\ wrote.fd = GeneratedDescriptorStruct(code.fd, BlocksOf[name], name \in WithGbe)
  /\ IF name \in WithGbe
       THEN GbeRight(a, wrote.gbe) \/ wrote.gbe = GeneratedGbeStruct8k(code.gbe)
       ELSE wrote.gbe = None

ImagesWritten ==
  \A name \in DOMAIN image :
    /\ tool = "ich9deblob" => DeblobWrote(abi, factory, image[name], dumped)
    /\ tool = "demefactory" => DemedWrote(factory, image[name])
    /\ tool = "ich9gen" => GenWrote(abi, built, name, image[name])

IInv ==
  /\ abi \in Abi /\ factory \in Factory
  /\ tool \in {"ich9deblob", "demefactory", "ich9gen"}
  /\ outcome \in {"none", "refused", "ok"}
  /\ abi \in Incompatible => image = <<>> /\ dumped = NoCode
  /\ Buildable(abi, built)
  /\ Placeable(abi, dumped)
  /\ tool # "demefactory" => dumped.fd = None \/ FreedCode(dumped.fd)
  /\ ImagesWritten

(* The code for a GbE region that is right.                                *)
LEMMA RightCode ==
  ASSUME NEW a, NEW gbe, GbeRight(a, gbe)
  PROVE  /\ IsGbeCode(GbeCode(gbe.backup)) /\ CodeSums(a, GbeCode(gbe.backup))
         /\ GeneratedGbeStruct8k(GbeCode(gbe.backup)) = gbe
<1> DEFINE g == gbe.main
<1>1. /\ gbe = Twice(g) /\ gbe.backup = g
      /\ Fits(GbeMember, g) /\ g = [n \in DOMAIN g |-> g[n]]
      /\ SumOfWords(a, g, 64) % 65536 = \hBABA
  BY DEF GbeRight
<1> HIDE DEF g
<1>2. IsGbeCode(GbeCode(g)) /\ GeneratedGbeStruct4k(GbeCode(g)) = g
  BY <1>1, GbeCodeIs
<1>3. CodeSums(a, GbeCode(g))
  BY <1>1, <1>2 DEF CodeSums
<1>4. GeneratedGbeStruct8k(GbeCode(g)) = Twice(g)
  BY <1>2 DEF GeneratedGbeStruct8k, Twice
<1>5. QED
  BY <1>1, <1>2, <1>3, <1>4

LEMMA TwiceNotNone ==
  ASSUME NEW g, Fits(GbeMember, g), g = [n \in DOMAIN g |-> g[n]]
  PROVE  Twice(g) # None
<1>1. DOMAIN g = DOMAIN GbeMember /\ \A n \in DOMAIN GbeMember : g[n] \in Inside(GbeMember[n])
  BY FitsIs
<1>2. \A n \in DOMAIN GbeMember : GbeMember[n].bits \in Nat
  BY BitsAssumption
<1>3. \A n \in DOMAIN GbeMember : g[n] \in Nat
  BY <1>1, <1>2, InsideIs
<1>4. g \in [DOMAIN GbeMember -> Nat]
  BY <1>1, <1>3
<1>5. Twice(g) \in [main : [DOMAIN GbeMember -> Nat], backup : [DOMAIN GbeMember -> Nat]]
  BY <1>4 DEF Twice
<1>6. QED
  BY <1>5, NoneAssumption

LEMMA RightNotNone ==
  ASSUME NEW a, NEW gbe, GbeRight(a, gbe)
  PROVE  gbe # None
BY TwiceNotNone DEF GbeRight

LEMMA OwnNotNone ==
  ASSUME NEW code, IsGbeCode(code)
  PROVE  GeneratedGbeStruct8k(code) # None
<1> DEFINE g == GeneratedGbeStruct4k(code)
<1>1. GeneratedGbeStruct8k(code) = Twice(g)
  BY DEF GeneratedGbeStruct8k, Twice
<1>2. g = [n \in DOMAIN g |-> g[n]]
  BY DEF GeneratedGbeStruct4k, Returned
<1>3. Fits(GbeMember, g)
  BY GbeGeneratedFits
<1> HIDE DEF g
<1>4. QED
  BY <1>1, <1>2, <1>3, TwiceNotNone

LEMMA MapsKept ==
  ASSUME NEW a, NEW d, NEW e, NEW names, Kept(d, e, names), names \subseteq InFields,
         MapsPoint(a, d)
  PROVE  MapsPoint(a, e)
<1>1. \A s \in DOMAIN Maps : e[Maps[s]] = d[Maps[s]]
  BY MapsApart DEF Kept
<1>2. QED
  BY <1>1 DEF MapsPoint

LEMMA NotByArguments ==
  DOMAIN FdMember \ InFields \subseteq DOMAIN FdMember \ DOMAIN ByArguments
BY ByArgumentsDomain, InTheFields

LEMMA CodeMapsKept ==
  ASSUME NEW a, NEW d, Fits(FdMember, d), MapsPoint(a, d)
  PROVE  CodeMapsPoint(a, DescriptorCode(d))
<1>1. \A s \in DOMAIN Maps : DescriptorCode(d)[Maps[s]].value = d[Maps[s]]
  BY DescriptorCodeIs, MapsApart, NotByArguments
<1>2. QED
  BY <1>1 DEF MapsPoint, CodeMapsPoint

(* What ich9deblob and demefactory leave is right, and so is their code.   *)
LEMMA EditedRight ==
  ASSUME NEW a \in Abi \ Incompatible, NEW rom \in Factory,
         NEW fd, fd = DeblobbedFd(rom.fd, rom.blocks) \/ fd = DemedFd(rom.fd)
  PROVE  /\ Fits(FdMember, fd) /\ MapsPoint(a, fd)
         /\ IsDescriptorCode(DescriptorCode(fd)) /\ CodeMapsPoint(a, DescriptorCode(fd))
<1>1. /\ Fits(FdMember, rom.fd) /\ DOMAIN rom.fd = DOMAIN FdMember /\ rom.blocks \in Nat
      /\ MapsPoint(a, rom.fd)
  BY FactoryIs
<1>2. Fits(FdMember, fd)
  BY <1>1, EditedFits
<1>3. \E names : Kept(rom.fd, fd, names) /\ names \subseteq InFields
  <2>1. CASE fd = DeblobbedFd(rom.fd, rom.blocks)
    <3> DEFINE names == GbeBiosNames \cup GoneNames \cup DisabledNames \cup FreedNames
                        \cup MagicNames
    <3>1. Kept(rom.fd, fd, names)
      BY <1>1, <2>1, DeblobbedEdit DEF DeblobbedSet
    <3>2. names \subseteq InFields
      BY InTheFields
    <3> HIDE DEF names
    <3>3. QED
      BY <3>1, <3>2
  <2>2. CASE fd = DemedFd(rom.fd)
    <3> DEFINE names == DisabledNames \cup FreedNames
    <3>1. Kept(rom.fd, fd, names)
      BY <1>1, <2>2, DemedEdit DEF DemedSet
    <3>2. names \subseteq InFields
      BY InTheFields
    <3> HIDE DEF names
    <3>3. QED
      BY <3>1, <3>2
  <2>3. QED
    BY <2>1, <2>2
<1>4. MapsPoint(a, fd)
  BY <1>1, <1>3, MapsKept
<1>5. QED
  BY <1>2, <1>4, DescriptorCodeIs, CodeMapsKept

LEMMA DefinesBy ==
  ASSUME NEW e, NEW gbe, NEW blocks, GbeBiosSet(e, gbe, blocks)
  PROVE  DefinesGbeRegion(e) <=> gbe
<1>1. CASE gbe
  BY <1>1, DefinesIs DEF GbeBiosSet, On
<1>2. CASE ~gbe
  BY <1>2, DefinesIs DEF GbeBiosSet, On
<1>3. QED
  BY <1>1, <1>2

LEMMA DeblobbedDefines ==
  ASSUME NEW d, DOMAIN d = DOMAIN FdMember, NEW blocks
  PROVE  DefinesGbeRegion(DeblobbedFd(d, blocks)) <=> DefinesGbeRegion(d)
<1> DEFINE gbe == DefinesGbeRegion(d)
<1> DEFINE e == DeblobbedFd(d, blocks)
<1>1. GbeBiosSet(e, gbe, blocks)
  BY DeblobbedEdit DEF DeblobbedSet
<1> HIDE DEF gbe, e
<1>2. DefinesGbeRegion(e) <=> gbe
  BY <1>1, DefinesBy
<1>3. QED
  BY <1>2 DEF gbe, e

LEMMA BlocksIs ==
  \A name \in DOMAIN BlocksOf : BlocksOf[name] \in Nat /\ BlocksOf[name] \in P!Blocks
BY DEF BlocksOf, P!Blocks

LEMMA GenWroteRight ==
  ASSUME NEW a, a \notin Incompatible, NEW code, Buildable(a, code), NEW name, NEW wrote,
         GenWrote(a, code, name, wrote)
  PROVE  /\ Fits(FdMember, wrote.fd) /\ MapsPoint(a, wrote.fd)
         /\ wrote.gbe # None =>
              /\ Fits(GbeMember, wrote.gbe.main) /\ Fits(GbeMember, wrote.gbe.backup)
              /\ wrote.gbe.main = wrote.gbe.backup
              /\ \/ SumOfWords(a, wrote.gbe.main, 64) % 65536 = \hBABA
                 \/ wrote.gbe.main = Shipped
<1> DEFINE hasGbe == name \in WithGbe
<1> DEFINE blocks == BlocksOf[name]
<1> DEFINE fd == wrote.fd
<1>1. /\ fd = GeneratedDescriptorStruct(code.fd, blocks, hasGbe) /\ blocks \in Nat
      /\ IsDescriptorCode(code.fd) /\ CodeMapsPoint(a, code.fd)
  BY BlocksIs DEF GenWrote, Buildable
<1> HIDE DEF hasGbe, blocks, fd
<1>2. Fits(FdMember, fd)
  BY <1>1, GeneratedFits
<1>3. \A n \in DOMAIN FdMember \ DOMAIN ByArguments : fd[n] = code.fd[n].value
  BY <1>1, GeneratedSet
<1>4. \A s \in DOMAIN Maps : fd[Maps[s]] = code.fd[Maps[s]].value
  BY <1>3, MapsApart, NotByArguments
<1>5. MapsPoint(a, fd)
  BY <1>1, <1>4 DEF MapsPoint, CodeMapsPoint
<1>6. ASSUME GbeRight(a, wrote.gbe)
      PROVE  /\ Fits(GbeMember, wrote.gbe.main) /\ Fits(GbeMember, wrote.gbe.backup)
             /\ wrote.gbe.main = wrote.gbe.backup
             /\ SumOfWords(a, wrote.gbe.main, 64) % 65536 = \hBABA
  BY <1>6 DEF GbeRight
<1>7. ASSUME wrote.gbe = GeneratedGbeStruct8k(code.gbe)
      PROVE  /\ Fits(GbeMember, wrote.gbe.main) /\ Fits(GbeMember, wrote.gbe.backup)
             /\ wrote.gbe.main = wrote.gbe.backup
             /\ \/ SumOfWords(a, wrote.gbe.main, 64) % 65536 = \hBABA
                \/ wrote.gbe.main = Shipped
  <2> DEFINE g == GeneratedGbeStruct4k(code.gbe)
  <2>1. wrote.gbe.main = g /\ wrote.gbe.backup = g
    BY <1>7 DEF GeneratedGbeStruct8k
  <2>2. Fits(GbeMember, g)
    BY GbeGeneratedFits DEF Buildable
  <2>3. SumOfWords(a, g, 64) % 65536 = \hBABA \/ g = Shipped
    BY DEF Buildable, CodeSums, Shipped
  <2> HIDE DEF g
  <2>4. QED
    BY <2>1, <2>2, <2>3
<1>8. QED
  BY <1>2, <1>5, <1>6, <1>7 DEF GenWrote, fd

LEMMA InitInv == Init => IInv
<1> SUFFICES ASSUME Init PROVE IInv
  OBVIOUS
<1>1. /\ abi \in Abi /\ factory \in Factory /\ built = Default /\ tool = "ich9gen"
      /\ image = <<>> /\ dumped = NoCode /\ outcome = "none"
  BY DEF Init
<1>2. built.fd = ShippedDescriptorCode /\ built.gbe = ShippedGbeCode
  BY <1>1 DEF Default
<1>3. dumped.fd = None /\ dumped.gbe = None
  BY <1>1 DEF NoCode
<1>4. Buildable(abi, built)
  BY <1>1, <1>2, ShippedAssumption, ShippedFreed DEF Buildable, CodeMapsPoint
<1>5. Placeable(abi, dumped)
  BY <1>3 DEF Placeable
<1>6. ImagesWritten
  BY <1>1 DEF ImagesWritten
<1>7. QED
  BY <1>1, <1>3, <1>4, <1>5, <1>6 DEF IInv

LEMMA RefusedInv ==
  ASSUME IInv, NEW name \in {"ich9deblob", "demefactory", "ich9gen"}, Refused(name)
  PROVE  IInv'
<1>1. /\ tool' = name /\ outcome' = "refused" /\ abi \in Incompatible
      /\ UNCHANGED <<abi, factory, built, image, dumped>>
  BY DEF Refused, Ended
<1>2. image = <<>> /\ dumped.fd = None
  BY <1>1 DEF IInv, NoCode
<1>3. ImagesWritten'
  BY <1>1, <1>2 DEF ImagesWritten
<1>4. QED
  BY <1>1, <1>2, <1>3 DEF IInv

LEMMA DeblobInv ==
  ASSUME IInv, Ich9deblob
  PROVE  IInv'
<1> DEFINE fd == DeblobbedFd(factory.fd, factory.blocks)
<1> DEFINE gbe == DeblobbedGbe(abi, factory.gbe)
<1>1. /\ abi \in Abi \ Incompatible /\ factory \in Factory
      /\ Deblobbed(fd, gbe) /\ tool' = "ich9deblob" /\ outcome' = "ok"
      /\ UNCHANGED <<abi, factory, built>>
  BY DEF IInv, Ich9deblob, Ended
<1>2. /\ IsDescriptorCode(DescriptorCode(fd)) /\ CodeMapsPoint(abi, DescriptorCode(fd))
      /\ FreedCode(DescriptorCode(fd))
  BY <1>1, EditedRight, DeblobbedFreed
<1>3. DefinesGbeRegion(fd) <=> DefinesGbeRegion(factory.fd)
  BY <1>1, FactoryIs, DeblobbedDefines
<1>4. DefinesGbeRegion(factory.fd) => GbeRight(abi, gbe)
  BY <1>1, FactoryIs, DeblobbedGbeRight
<1>5. fd = DeblobbedFd(factory.fd, factory.blocks) /\ gbe = DeblobbedGbe(abi, factory.gbe)
  OBVIOUS
<1> HIDE DEF fd, gbe
<1>6. /\ Placeable(abi, dumped') /\ FreedCode(dumped'.fd)
      /\ \A n \in DOMAIN image' : DeblobWrote(abi, factory, image'[n], dumped')
  <2>1. CASE DefinesGbeRegion(fd)
    <3>1. /\ dumped'.fd = DescriptorCode(fd) /\ dumped'.gbe = GbeCode(gbe.backup)
          /\ \A n \in DOMAIN image' : image'[n].fd = fd /\ image'[n].gbe = gbe
      BY <1>1, <2>1 DEF Deblobbed
    <3>2. IsGbeCode(GbeCode(gbe.backup)) /\ CodeSums(abi, GbeCode(gbe.backup))
      BY <1>3, <1>4, <2>1, RightCode
    <3>3. QED
      BY <1>2, <1>3, <1>5, <2>1, <3>1, <3>2 DEF Placeable, DeblobWrote
  <2>2. CASE ~DefinesGbeRegion(fd)
    <3>1. /\ dumped'.fd = DescriptorCode(fd) /\ dumped'.gbe = None
          /\ \A n \in DOMAIN image' : image'[n].fd = fd /\ image'[n].gbe = None
      BY <1>1, <2>2 DEF Deblobbed
    <3>2. QED
      BY <1>2, <1>3, <1>5, <2>2, <3>1 DEF Placeable, DeblobWrote
  <2>3. QED
    BY <2>1, <2>2
<1>7. ImagesWritten' /\ Placeable(abi, dumped)' /\ Buildable(abi, built)'
  BY <1>1, <1>6 DEF ImagesWritten, IInv
<1>8. QED
  BY <1>1, <1>6, <1>7 DEF IInv

LEMMA DemedInv ==
  ASSUME IInv, Demefactory
  PROVE  IInv'
<1> DEFINE fd == DemedFd(factory.fd)
<1>1. /\ abi \in Abi \ Incompatible /\ factory \in Factory
      /\ Demed(fd) /\ tool' = "demefactory" /\ outcome' = "ok"
      /\ UNCHANGED <<abi, factory, built>>
  BY DEF IInv, Demefactory, Ended
<1>2. /\ IsDescriptorCode(DescriptorCode(fd)) /\ CodeMapsPoint(abi, DescriptorCode(fd))
  BY <1>1, EditedRight
<1>3. fd = DemedFd(factory.fd)
  OBVIOUS
<1> HIDE DEF fd
<1>4. /\ dumped'.fd = DescriptorCode(fd) /\ dumped'.gbe = None
      /\ \A n \in DOMAIN image' : image'[n].fd = fd /\ image'[n].gbe = None
  BY <1>1 DEF Demed
<1>5. Placeable(abi, dumped') /\ \A n \in DOMAIN image' : DemedWrote(factory, image'[n])
  BY <1>2, <1>3, <1>4 DEF Placeable, DemedWrote
<1>6. ImagesWritten' /\ Placeable(abi, dumped)' /\ Buildable(abi, built)'
  BY <1>1, <1>5 DEF ImagesWritten, IInv
<1>7. QED
  BY <1>1, <1>6 DEF IInv

LEMMA GenInv ==
  ASSUME IInv, NEW address \in Address \cup {None}, Ich9gen(address)
  PROVE  IInv'
<1> DEFINE own == GeneratedGbeStruct8k(built.gbe)
<1> DEFINE gbe == GbeOf(own, address)
<1>1. /\ abi \in Abi \ Incompatible /\ factory \in Factory
      /\ Generated(gbe, address) /\ tool' = "ich9gen" /\ outcome' = "ok"
      /\ UNCHANGED <<abi, factory, built>> /\ Buildable(abi, built)
  BY DEF IInv, Ich9gen, Ended
<1>2. own = GeneratedGbeStruct8k(built.gbe) /\ Fits(GbeMember, own.main)
  BY <1>1, GbeGeneratedFits DEF Buildable, GeneratedGbeStruct8k
<1> HIDE DEF own
<1>3. CASE address = None
  <2>1. gbe = own
    BY <1>3 DEF GbeOf
  <2> HIDE DEF gbe
  <2>2. dumped'.fd = None /\ dumped'.gbe = None
    BY <1>1, <1>3 DEF Generated
  <2>3. \A n \in DOMAIN image' :
          /\ n \in DOMAIN BlocksOf
          /\ image'[n].fd = GeneratedDescriptorStruct(built.fd, BlocksOf[n], n \in WithGbe)
          /\ image'[n].gbe = IF n \in WithGbe THEN own ELSE None
    BY <1>1, <2>1 DEF Generated
  <2>4. Placeable(abi, dumped') /\ \A n \in DOMAIN image' : GenWrote(abi, built, n, image'[n])
    BY <1>2, <2>2, <2>3 DEF Placeable, GenWrote
  <2>5. ImagesWritten' /\ Placeable(abi, dumped)' /\ Buildable(abi, built)'
    BY <1>1, <2>4 DEF ImagesWritten
  <2>6. QED
    BY <1>1, <2>2, <2>5 DEF IInv
<1>4. CASE address # None
  <2>1. gbe = Twice(WithAddress(abi, own, address))
    BY <1>4 DEF GbeOf
  <2>2. address \in Address
    BY <1>4
  <2>3. GbeRight(abi, gbe)
    BY <1>1, <1>2, <2>1, <2>2, AddressRight
  <2> HIDE DEF gbe
  <2>4. IsGbeCode(GbeCode(gbe.backup)) /\ CodeSums(abi, GbeCode(gbe.backup))
    BY <2>3, RightCode
  <2>5. dumped'.fd = None /\ dumped'.gbe = GbeCode(gbe.backup)
    BY <1>1, <1>4 DEF Generated
  <2>6. \A n \in DOMAIN image' :
          /\ n \in DOMAIN BlocksOf
          /\ image'[n].fd = GeneratedDescriptorStruct(built.fd, BlocksOf[n], n \in WithGbe)
          /\ image'[n].gbe = IF n \in WithGbe THEN gbe ELSE None
    BY <1>1 DEF Generated
  <2>7. Placeable(abi, dumped') /\ \A n \in DOMAIN image' : GenWrote(abi, built, n, image'[n])
    BY <2>3, <2>4, <2>5, <2>6 DEF Placeable, GenWrote
  <2>8. ImagesWritten' /\ Placeable(abi, dumped)' /\ Buildable(abi, built)'
    BY <1>1, <2>7 DEF ImagesWritten
  <2>9. QED
    BY <1>1, <2>5, <2>8 DEF IInv
<1>5. QED
  BY <1>3, <1>4

LEMMA AnewInv ==
  ASSUME IInv, Anew
  PROVE  /\ ImagesWritten' /\ Placeable(abi, dumped)' /\ dumped'.fd = None
         /\ image' = <<>> /\ dumped' = NoCode /\ outcome' = "none" /\ UNCHANGED <<abi, tool>>
<1>1. image' = <<>> /\ dumped' = NoCode /\ outcome' = "none" /\ UNCHANGED <<abi, tool>>
  BY DEF Anew
<1>2. dumped'.fd = None /\ dumped'.gbe = None
  BY <1>1 DEF NoCode
<1>3. Placeable(abi, dumped)'
  BY <1>2 DEF Placeable
<1>4. ImagesWritten'
  BY <1>1 DEF ImagesWritten
<1>5. QED
  BY <1>1, <1>2, <1>3, <1>4

(* Code that was dumped takes the place of the tool's own.                 *)
LEMMA PlaceInv ==
  ASSUME IInv, Place
  PROVE  IInv'
<1>1. /\ tool # "demefactory" /\ dumped # NoCode /\ Anew /\ UNCHANGED factory
      /\ built' = [part \in {"fd", "gbe"} |->
                     IF dumped[part] = None THEN built[part] ELSE dumped[part]]
  BY DEF Place
<1>2. /\ ImagesWritten' /\ Placeable(abi, dumped)' /\ dumped'.fd = None
      /\ image' = <<>> /\ dumped' = NoCode /\ outcome' = "none" /\ UNCHANGED <<abi, tool>>
  BY <1>1, AnewInv
<1>3. /\ built'.fd = IF dumped.fd = None THEN built.fd ELSE dumped.fd
      /\ built'.gbe = IF dumped.gbe = None THEN built.gbe ELSE dumped.gbe
  BY <1>1
<1>4. /\ Buildable(abi, built) /\ Placeable(abi, dumped)
      /\ dumped.fd = None \/ FreedCode(dumped.fd)
  BY <1>1 DEF IInv
<1>5. Buildable(abi, built')
  BY <1>3, <1>4 DEF Buildable, Placeable
<1>6. Buildable(abi, built)'
  BY <1>2, <1>5
<1>7. QED
  BY <1>1, <1>2, <1>6 DEF IInv

LEMMA DumpInv ==
  ASSUME IInv, NEW rom \in Factory, Dump(rom)
  PROVE  IInv'
<1>1. factory' = rom /\ Anew /\ UNCHANGED built
  BY DEF Dump
<1>2. /\ ImagesWritten' /\ Placeable(abi, dumped)' /\ dumped'.fd = None
      /\ image' = <<>> /\ dumped' = NoCode /\ outcome' = "none" /\ UNCHANGED <<abi, tool>>
  BY <1>1, AnewInv
<1>3. Buildable(abi, built)'
  BY <1>1, <1>2 DEF IInv
<1>4. QED
  BY <1>1, <1>2, <1>3 DEF IInv

LEMMA StepInv == IInv /\ [Next]_vars => IInv'
<1> SUFFICES ASSUME IInv, [Next]_vars PROVE IInv'
  OBVIOUS
<1>1. ASSUME NEW name \in {"ich9deblob", "demefactory", "ich9gen"}, Refused(name)
      PROVE  IInv'
  BY <1>1, RefusedInv
<1>2. CASE Ich9deblob
  BY <1>2, DeblobInv
<1>3. CASE Demefactory
  BY <1>3, DemedInv
<1>4. CASE Place
  BY <1>4, PlaceInv
<1>5. ASSUME NEW address \in Address \cup {None}, Ich9gen(address)
      PROVE  IInv'
  BY <1>5, GenInv
<1>6. ASSUME NEW rom \in Factory, Dump(rom)
      PROVE  IInv'
  BY <1>6, DumpInv
<1>7. CASE UNCHANGED vars
  BY <1>7 DEF vars, IInv, ImagesWritten
<1>8. QED
  BY <1>1, <1>2, <1>3, <1>4, <1>5, <1>6, <1>7 DEF Next

-----------------------------------------------------------------------------
(* What the invariant says of the images                                   *)

LEMMA ImageRight ==
  ASSUME IInv, NEW name \in DOMAIN image
  PROVE  /\ abi \in Abi \ Incompatible
         /\ Fits(FdMember, image[name].fd) /\ MapsPoint(abi, image[name].fd)
         /\ image[name].gbe # None =>
              /\ Fits(GbeMember, image[name].gbe.main) /\ Fits(GbeMember, image[name].gbe.backup)
              /\ image[name].gbe.main = image[name].gbe.backup
              /\ \/ SumOfWords(abi, image[name].gbe.main, 64) % 65536 = \hBABA
                 \/ image[name].gbe.main = Shipped
<1>1. image # <<>>
  OBVIOUS
<1>2. abi \in Abi \ Incompatible /\ factory \in Factory /\ Buildable(abi, built)
  BY <1>1 DEF IInv
<1> DEFINE wrote == image[name]
<1>3. /\ tool = "ich9deblob" => DeblobWrote(abi, factory, wrote, dumped)
      /\ tool = "demefactory" => DemedWrote(factory, wrote)
      /\ tool = "ich9gen" => GenWrote(abi, built, name, wrote)
      /\ tool \in {"ich9deblob", "demefactory", "ich9gen"}
  BY DEF IInv, ImagesWritten
<1> HIDE DEF wrote
<1> DEFINE Goal ==
      /\ Fits(FdMember, wrote.fd) /\ MapsPoint(abi, wrote.fd)
      /\ wrote.gbe # None =>
           /\ Fits(GbeMember, wrote.gbe.main) /\ Fits(GbeMember, wrote.gbe.backup)
           /\ wrote.gbe.main = wrote.gbe.backup
           /\ \/ SumOfWords(abi, wrote.gbe.main, 64) % 65536 = \hBABA
              \/ wrote.gbe.main = Shipped
<1>4. ASSUME tool = "ich9deblob" PROVE Goal
  <2>1. wrote.fd = DeblobbedFd(factory.fd, factory.blocks)
    BY <1>3, <1>4 DEF DeblobWrote
  <2>2. Fits(FdMember, wrote.fd) /\ MapsPoint(abi, wrote.fd)
    BY <1>2, <2>1, EditedRight
  <2>3. wrote.gbe # None =>
          DefinesGbeRegion(factory.fd) /\ wrote.gbe = DeblobbedGbe(abi, factory.gbe)
    BY <1>3, <1>4 DEF DeblobWrote
  <2>4. wrote.gbe # None => GbeRight(abi, wrote.gbe)
    BY <1>2, <2>3, FactoryIs, DeblobbedGbeRight
  <2>5. QED
    BY <2>2, <2>4 DEF GbeRight
<1>5. ASSUME tool = "demefactory" PROVE Goal
  <2>1. wrote.fd = DemedFd(factory.fd) /\ wrote.gbe = None
    BY <1>3, <1>5 DEF DemedWrote
  <2>2. Fits(FdMember, wrote.fd) /\ MapsPoint(abi, wrote.fd)
    BY <1>2, <2>1, EditedRight
  <2>3. QED
    BY <2>1, <2>2
<1>6. ASSUME tool = "ich9gen" PROVE Goal
  <2>1. GenWrote(abi, built, name, wrote)
    BY <1>3, <1>6
  <2>2. QED
    BY <1>2, <2>1, GenWroteRight
<1>7. Goal
  BY <1>3, <1>4, <1>5, <1>6
<1>8. QED
  BY <1>2, <1>7 DEF wrote

(* ich9gen built from the code of ich9deblob returns what ich9deblob wrote.*)
LEMMA CodeRecreates ==
  ASSUME NEW rom \in Factory, NEW fd, fd = DeblobbedFd(rom.fd, rom.blocks),
         NEW gbe, gbe = DefinesGbeRegion(rom.fd),
         NEW again, again = GeneratedDescriptorStruct(DescriptorCode(fd), rom.blocks, gbe)
  PROVE  \A n \in DOMAIN FdMember \ Densities : again[n] = fd[n]
<1> DEFINE code == DescriptorCode(fd)
<1>1. /\ Fits(FdMember, rom.fd) /\ DOMAIN rom.fd = DOMAIN FdMember /\ rom.blocks \in Nat
  BY FactoryIs
<1>2. Fits(FdMember, fd)
  BY <1>1, EditedFits
<1>3. GbeBiosSet(fd, gbe, rom.blocks)
  BY <1>1, DeblobbedEdit DEF DeblobbedSet
<1>4. /\ IsDescriptorCode(code)
      /\ \A n \in DOMAIN FdMember \ DOMAIN ByArguments : code[n].value = fd[n]
  BY <1>2, DescriptorCodeIs
<1> HIDE DEF code
<1>5. again = GeneratedDescriptorStruct(code, rom.blocks, gbe)
  BY DEF code
<1>6. /\ GbeBiosSet(again, gbe, rom.blocks)
      /\ \A n \in DOMAIN FdMember \ DOMAIN ByArguments : again[n] = code[n].value
  BY <1>1, <1>4, <1>5, GeneratedSet
<1>7. \A n \in GbeBiosNames : again[n] = fd[n]
  BY <1>3, <1>6 DEF GbeBiosSet, GbeBiosNames
<1>8. DensityNames \subseteq Densities
  BY In2 DEF DensityNames, Densities, Density
<1>9. QED
  BY <1>4, <1>6, <1>7, <1>8, ByArgumentsDomain

(* An edit of these members alone is one of the fields of Ich9Descriptor.  *)
LEMMA KeptBecomes ==
  ASSUME NEW d, NEW e, NEW names, Kept(d, e, names), names \subseteq InFields,
         NEW fields, AsDescriptor(e) = fields
  PROVE  Becomes(d, e, fields)
BY DEF Kept, Becomes

LEMMA DeblobbedBecomes ==
  ASSUME NEW d, DOMAIN d = DOMAIN FdMember, NEW blocks
  PROVE  Becomes(d, DeblobbedFd(d, blocks), D!Deblobbed(AsDescriptor(d), blocks))
<1> DEFINE e == DeblobbedFd(d, blocks)
<1> DEFINE names == GbeBiosNames \cup GoneNames \cup DisabledNames \cup FreedNames
                    \cup MagicNames
<1>1. Kept(d, e, names)
  BY DeblobbedEdit DEF DeblobbedSet
<1>2. names \subseteq InFields
  BY InTheFields
<1>3. AsDescriptor(e) = D!Deblobbed(AsDescriptor(d), blocks)
  BY DeblobbedFields
<1> HIDE DEF e, names
<1>4. Becomes(d, e, D!Deblobbed(AsDescriptor(d), blocks))
  BY <1>1, <1>2, <1>3, KeptBecomes
<1>5. QED
  BY <1>4 DEF e

LEMMA DemedBecomes ==
  ASSUME NEW d, DOMAIN d = DOMAIN FdMember
  PROVE  Becomes(d, DemedFd(d), D!Demed(AsDescriptor(d)))
<1> DEFINE e == DemedFd(d)
<1> DEFINE names == DisabledNames \cup FreedNames
<1>1. Kept(d, e, names)
  BY DemedEdit DEF DemedSet
<1>2. names \subseteq InFields
  BY InTheFields
<1>3. AsDescriptor(e) = D!Demed(AsDescriptor(d))
  BY DemedFields
<1> HIDE DEF e, names
<1>4. Becomes(d, e, D!Demed(AsDescriptor(d)))
  BY <1>1, <1>2, <1>3, KeptBecomes
<1>5. QED
  BY <1>4 DEF e

LEMMA GeneratedBecomes ==
  ASSUME NEW code, IsDescriptorCode(code), NEW blocks \in Nat, NEW gbe,
         NEW before \in Nat, NEW had, NEW d, d = GeneratedDescriptorStruct(code, before, had),
         NEW e, e = GeneratedDescriptorStruct(code, blocks, gbe)
  PROVE  Becomes(d, e, D!Generated(AsDescriptor(d), blocks, gbe))
<1> DEFINE names == GbeBiosNames \cup DensityNames
<1>1. /\ DOMAIN d = DOMAIN FdMember
      /\ \A n \in DOMAIN FdMember \ DOMAIN ByArguments : d[n] = code[n].value
  BY GeneratedSet
<1>2. Kept(d, e, names) /\ AsDescriptor(e) = D!Generated(AsDescriptor(d), blocks, gbe)
  BY <1>1, GeneratedFields
<1>3. names \subseteq InFields
  BY InTheFields
<1> HIDE DEF names
<1>4. QED
  BY <1>2, <1>3, KeptBecomes

-----------------------------------------------------------------------------
(* Theorems                                                                *)

LEMMA Invariant == Spec => []IInv
<1>1. QED
  BY InitInv, StepInv, PTL DEF Spec

(* Generated code assigns to all elements of a member or to none, and no   *)
(* tool writes a member that was never assigned or that does not fit into  *)
(* its bits (notCreatedCFileFromDescriptorStruct and its like), however    *)
(* often code is dumped, placed and built again, for every factory dump    *)
(* and every address.                                                      *)
THEOREM EveryMemberIsAssigned ==
  Spec => []TypeOK
<1>1. IInv => TypeOK
  <2> SUFFICES ASSUME IInv PROVE TypeOK
    OBVIOUS
  <2>1. CodeOf(FdMember, built.fd) /\ CodeOf(GbeMember, built.gbe)
    BY DEF IInv, Buildable, IsDescriptorCode, IsGbeCode, Complete
  <2>2. \A name \in DOMAIN image :
          /\ Fits(FdMember, image[name].fd)
          /\ image[name].gbe # None =>
               Fits(GbeMember, image[name].gbe.main) /\ Fits(GbeMember, image[name].gbe.backup)
    BY ImageRight
  <2>3. QED
    BY <2>1, <2>2 DEF TypeOK, IInv
<1>2. QED
  BY <1>1, Invariant, PTL

(* Built into ich9gen, the code that ich9deblob dumped returns the         *)
(* descriptor and the GbE region that ich9deblob wrote, whatever dump it   *)
(* was given: all that the printing code reads of a struct, and the order  *)
(* and count it writes, match what the compiled code fills in.             *)
THEOREM DumpedCodeRecreates ==
  Spec => []Recreates
<1>1. IInv => Recreates
  <2> SUFFICES ASSUME IInv, tool = "ich9deblob", NEW name \in DOMAIN image
               PROVE  LET wrote == image[name]
                          again == GeneratedDescriptorStruct(dumped.fd, factory.blocks,
                                                             wrote.gbe # None)
                      IN /\ \A n \in DOMAIN FdMember \ Densities : again[n] = wrote.fd[n]
                         /\ wrote.gbe # None => GeneratedGbeStruct8k(dumped.gbe) = wrote.gbe
    BY DEF Recreates
  <2> DEFINE wrote == image[name]
  <2> DEFINE has == wrote.gbe # None
  <2> DEFINE again == GeneratedDescriptorStruct(dumped.fd, factory.blocks, has)
  <2>1. DeblobWrote(abi, factory, wrote, dumped)
    BY DEF IInv, ImagesWritten
  <2>2. abi \in Abi \ Incompatible /\ factory \in Factory
    BY ImageRight DEF IInv
  <2> DEFINE gbe == DefinesGbeRegion(factory.fd)
  <2>3. /\ wrote.fd = DeblobbedFd(factory.fd, factory.blocks)
        /\ dumped.fd = DescriptorCode(wrote.fd)
        /\ gbe => wrote.gbe = DeblobbedGbe(abi, factory.gbe)
                  /\ dumped.gbe = GbeCode(wrote.gbe.backup)
        /\ ~gbe => wrote.gbe = None
    BY <2>1 DEF DeblobWrote
  <2>4. gbe => GbeRight(abi, wrote.gbe)
    BY <2>2, <2>3, FactoryIs, DeblobbedGbeRight
  <2>5. gbe = has
    <3>1. gbe \in BOOLEAN /\ has \in BOOLEAN
      BY DEF DefinesGbeRegion
    <3>2. has = (wrote.gbe # None)
      OBVIOUS
    <3> HIDE DEF wrote, gbe, has
    <3>3. gbe <=> (wrote.gbe # None)
      BY <2>3, <2>4, RightNotNone
    <3>4. QED
      BY <3>1, <3>2, <3>3
  <2>6. gbe = DefinesGbeRegion(factory.fd)
    OBVIOUS
  <2>7. \A n \in DOMAIN FdMember \ Densities : again[n] = wrote.fd[n]
    <3> HIDE DEF wrote, gbe, has
    <3>1. again = GeneratedDescriptorStruct(DescriptorCode(wrote.fd), factory.blocks, gbe)
      BY <2>3, <2>5
    <3> HIDE DEF again
    <3>2. QED
      BY <2>2, <2>3, <2>6, <3>1, CodeRecreates
  <2>8. gbe => GeneratedGbeStruct8k(dumped.gbe) = wrote.gbe
    <3> HIDE DEF wrote, gbe
    <3>1. QED
      BY <2>3, <2>4, RightCode
  <2> HIDE DEF gbe
  <2>9. QED
    BY <2>5, <2>7, <2>8
<1>2. QED
  BY <1>1, Invariant, PTL

(* The edits of the 4 KiB structs, those of descriptor.c and those that    *)
(* mkdescriptor.c makes while it fills in its members, are step by step    *)
(* the abstract ones of Ich9Descriptor, and change no member besides.      *)
THEOREM StructsImplementDescriptor ==
  Spec => []ImplementsDescriptor
<1>1. IInv => ImplementsDescriptor
  <2> SUFFICES ASSUME IInv, NEW name \in DOMAIN image
               PROVE  LET fd == image[name].fd
                          code == GeneratedDescriptorStruct(built.fd, 2048, TRUE)
                      IN CASE tool = "ich9deblob" ->
                                Becomes(factory.fd, fd,
                                        D!Deblobbed(AsDescriptor(factory.fd), factory.blocks))
                           [] tool = "demefactory" ->
                                Becomes(factory.fd, fd, D!Demed(AsDescriptor(factory.fd)))
                           [] tool = "ich9gen" ->
                                Becomes(code, fd,
                                        D!Generated(AsDescriptor(code), BlocksOf[name],
                                                    name \in WithGbe))
    BY DEF ImplementsDescriptor
  <2> DEFINE fd == image[name].fd
  <2> DEFINE code == GeneratedDescriptorStruct(built.fd, 2048, TRUE)
  <2>1. /\ tool \in {"ich9deblob", "demefactory", "ich9gen"}
        /\ tool = "ich9deblob" => fd = DeblobbedFd(factory.fd, factory.blocks)
        /\ tool = "demefactory" => fd = DemedFd(factory.fd)
        /\ tool = "ich9gen" =>
             /\ name \in DOMAIN BlocksOf
             /\ fd = GeneratedDescriptorStruct(built.fd, BlocksOf[name], name \in WithGbe)
    BY DEF IInv, ImagesWritten, DeblobWrote, DemedWrote, GenWrote
  <2>2. DOMAIN factory.fd = DOMAIN FdMember /\ IsDescriptorCode(built.fd)
    BY FactoryIs DEF IInv, Buildable
  <2>3. tool = "ich9deblob" =>
          Becomes(factory.fd, fd, D!Deblobbed(AsDescriptor(factory.fd), factory.blocks))
    BY <2>1, <2>2, DeblobbedBecomes
  <2>4. tool = "demefactory" => Becomes(factory.fd, fd, D!Demed(AsDescriptor(factory.fd)))
    BY <2>1, <2>2, DemedBecomes
  <2>5. tool = "ich9gen" =>
          Becomes(code, fd, D!Generated(AsDescriptor(code), BlocksOf[name], name \in WithGbe))
    <3> DEFINE before == 2048
    <3> DEFINE had == TRUE
    <3> DEFINE blocks == BlocksOf[name]
    <3> DEFINE gbe == name \in WithGbe
    <3>1. before \in Nat /\ code = GeneratedDescriptorStruct(built.fd, before, had)
      OBVIOUS
    <3>2. tool = "ich9gen" =>
            blocks \in Nat /\ fd = GeneratedDescriptorStruct(built.fd, blocks, gbe)
      BY <2>1, BlocksIs
    <3> HIDE DEF fd, code, before, had, blocks, gbe
    <3>3. tool = "ich9gen" => Becomes(code, fd, D!Generated(AsDescriptor(code), blocks, gbe))
      BY <2>2, <3>1, <3>2, GeneratedBecomes
    <3>4. QED
      BY <3>3 DEF blocks, gbe
  <2> HIDE DEF fd, code
  <2>6. (CASE tool = "ich9deblob" ->
                Becomes(factory.fd, fd, D!Deblobbed(AsDescriptor(factory.fd), factory.blocks))
           [] tool = "demefactory" -> Becomes(factory.fd, fd, D!Demed(AsDescriptor(factory.fd)))
           [] tool = "ich9gen" ->
                Becomes(code, fd,
                        D!Generated(AsDescriptor(code), BlocksOf[name], name \in WithGbe)))
    BY <2>1, <2>3, <2>4, <2>5
  <2>7. QED
    BY <2>6 DEF fd, code
<1>2. QED
  BY <1>1, Invariant, PTL

(* Read as Ich9Descriptor reads it, each descriptor that ich9deblob or     *)
(* ich9gen writes lays its regions out over the chip without gap or        *)
(* overlap, gives the management engine nothing and goes with a GbE region *)
(* exactly if it defines one: for every factory dump, and for ich9gen      *)
(* built from any code that it or ich9deblob ever dumped (librebootDescr-  *)
(* iptorStructFromFactory, generatedDescriptorStruct).                     *)
THEOREM StructImagesSound ==
  Spec => []ImagesSound
<1>1. IInv => ImagesSound
  <2> SUFFICES ASSUME IInv, tool # "demefactory", NEW name \in DOMAIN image
               PROVE  SoundFor(AsDescriptor(image[name].fd),
                               IF tool = "ich9gen" THEN BlocksOf[name] ELSE factory.blocks,
                               image[name].gbe # None)
    BY DEF ImagesSound, SoundFor
  <2> DEFINE wrote == image[name]
  <2>1. /\ abi \in Abi \ Incompatible /\ factory \in Factory /\ Buildable(abi, built)
        /\ tool = "ich9deblob" => DeblobWrote(abi, factory, wrote, dumped)
        /\ tool = "ich9gen" => GenWrote(abi, built, name, wrote)
        /\ tool \in {"ich9deblob", "ich9gen"}
    BY ImageRight DEF IInv, ImagesWritten
  <2> HIDE DEF wrote
  <2>2. ASSUME tool = "ich9deblob"
        PROVE  SoundFor(AsDescriptor(wrote.fd), factory.blocks, wrote.gbe # None)
    <3>1. SoundFor(AsDescriptor(wrote.fd), factory.blocks, DefinesGbeRegion(factory.fd))
      BY <2>1, <2>2, DeblobbedFreed DEF DeblobWrote
    <3>2. DefinesGbeRegion(factory.fd) => GbeRight(abi, wrote.gbe)
      BY <2>1, <2>2, FactoryIs, DeblobbedGbeRight DEF DeblobWrote
    <3>3. DefinesGbeRegion(factory.fd) <=> wrote.gbe # None
      BY <2>1, <2>2, <3>2, RightNotNone DEF DeblobWrote
    <3>4. QED
      BY <3>1, <3>3 DEF SoundFor
  <2>3. ASSUME tool = "ich9gen"
        PROVE  SoundFor(AsDescriptor(wrote.fd), BlocksOf[name], wrote.gbe # None)
    <3> DEFINE blocks == BlocksOf[name]
    <3> DEFINE gbe == name \in WithGbe
    <3> DEFINE fd == wrote.fd
    <3>1. /\ fd = GeneratedDescriptorStruct(built.fd, blocks, gbe)
          /\ blocks \in P!Blocks /\ gbe \in BOOLEAN
      BY <2>1, <2>3, BlocksIs DEF GenWrote
    <3>2. gbe <=> wrote.gbe # None
      BY <2>1, <2>3, RightNotNone, OwnNotNone DEF GenWrote, Buildable
    <3> HIDE DEF blocks, gbe, fd
    <3>3. SoundFor(AsDescriptor(fd), blocks, gbe)
      BY <2>1, <3>1, FreedCodeSound DEF Buildable
    <3>4. SoundFor(AsDescriptor(fd), blocks, wrote.gbe # None)
      BY <3>2, <3>3 DEF SoundFor
    <3>5. QED
      BY <3>4 DEF blocks, fd
  <2>4. QED
    BY <2>1, <2>2, <2>3 DEF wrote
<1>2. QED
  BY <1>1, Invariant, PTL

(* Whatever was edited, dumped and built, the base addresses in the maps   *)
(* of a descriptor that is written are those of the sections of the struct *)
(* (mkdescriptor.c:37-57), if they are in the factory dumps.               *)
THEOREM MapsAlwaysAgree ==
  Spec => []MapsAgree
<1>1. IInv => MapsAgree
  BY ImageRight DEF MapsAgree
<1>2. QED
  BY <1>1, Invariant, PTL

(* Each GbE region that is written is twice the same, with a checksum that *)
(* makes its words sum to 0xBABA in the memory of the machine that ran the *)
(* tool, whatever the other 63 words and the address are, or is that of    *)
(* mkgbe.c (gbeGetChecksumFrom4kBuffer).                                   *)
THEOREM ChecksumsAlwaysRight ==
  Spec => []FixedSumsUp
<1>1. IInv => FixedSumsUp
  BY ImageRight DEF FixedSumsUp, GbeRegions, Sums
<1>2. QED
  BY <1>1, Invariant, PTL
=============================================================================
