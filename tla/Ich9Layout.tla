-------------------------------- MODULE Ich9Layout --------------------------------
(***************************************************************************)
(* Where a compiler puts the members of the structs of Ich9Structs, and    *)
(* the check of common/x86compatibility.c that refuses a layout which is   *)
(* not that of the chips.                                                  *)
(***************************************************************************)
EXTENDS Ich9Structs

(* What the C standard, or a compiler in spite of it, leaves open.  A      *)
(* bit-field may be packed                                                 *)
(*   typed:  in a unit of its type, shared with its neighbours, never      *)
(*           across two units (System V);                                  *)
(*   sticky: the same, but a member of another type starts a unit of its   *)
(*           own (Microsoft);                                              *)
(*   word:   in units of an int, whatever its type;                        *)
(*   dense:  right after the last, with no regard to units.                *)
(* It starts at the least or the most significant end of a byte, integers  *)
(* are little or big endian, and a struct of whole integers only may have  *)
(* been turned round.                                                      *)
Abi == [packing : {"typed", "sticky", "word", "dense"},
        bigEndian : BOOLEAN, msbFirst : BOOLEAN, turned : BOOLEAN]

RoundUp(n, k) == ((n + k - 1) \div k) * k
Bits(m)  == m.bits * m.count
Bytes(n) == n \div 8

-----------------------------------------------------------------------------
(* Layout.  While a struct is laid out: the bit after the last member, the *)
(* bit after the unit it lies in, the type of the last bit-field (0 after  *)
(* any other member), the alignment of the struct, the members so far.     *)

Position == [end : Nat, room : Nat, type : Nat, align : Nat,
             placed : Seq([member : Scalar, place : Nat])]
Start == [end |-> 0, room |-> 0, type |-> 0, align |-> 8, placed |-> <<>>]

Unit(abi, m) ==
  IF ~m.field THEN m.type
  ELSE CASE abi.packing = "word"  -> 32
         [] abi.packing = "dense" -> 8
         [] OTHER -> m.type

(* A bit-field goes on in the unit of the one before it.                   *)
Joins(abi, at, m) ==
  /\ at.type # 0 /\ m.field
  /\ CASE abi.packing = "dense"  -> TRUE
       [] abi.packing = "sticky" -> at.type = m.type /\ at.end + m.bits <= at.room
       [] OTHER -> (at.end % Unit(abi, m)) + m.bits <= Unit(abi, m)

Joined(abi, at, m) ==
  [end    |-> at.end + m.bits,
   room   |-> IF abi.packing = "sticky" THEN at.room ELSE at.end + m.bits,
   type   |-> m.type,
   align  |-> Max({at.align, Unit(abi, m)}),
   placed |-> Append(at.placed, [member |-> m, place |-> at.end])]

(* Any other member, with all that is in it, starts where its type may.    *)
Added(abi, at, m, inner) ==
  LET place == RoundUp(at.room, inner.align)
      sticks == m.field /\ abi.packing = "sticky"
  IN [end    |-> place + inner.size,
      room   |-> place + IF sticks THEN m.type ELSE inner.size,
      type   |-> IF m.field THEN m.type ELSE 0,
      align  |-> Max({at.align, inner.align}),
      placed |-> at.placed \o [i \in DOMAIN inner.placed |->
                                 [inner.placed[i] EXCEPT !.place = @ + place]]]

Order(abi, members) ==
  IF abi.turned /\ \A i \in DOMAIN members : ~members[i].field /\ ~IsSub(members[i])
    THEN Reverse(members) ELSE members

Done(all) ==
  [size |-> RoundUp(all.room, all.align), align |-> all.align, placed |-> all.placed]
Nested(m, sub) ==
  [sub EXCEPT !.placed = [i \in DOMAIN @ |-> [@[i] EXCEPT !.member = Under(m.name, @)]]]
Flat(abi, m) ==
  [size |-> Bits(m), align |-> Unit(abi, m),
   placed |-> [i \in DOMAIN Elements(m) |->
                 [member |-> Elements(m)[i], place |-> (i - 1) * m.bits]]]

Placed(abi, at, m, within) ==
  IF Joins(abi, at, m) THEN Joined(abi, at, m)
  ELSE Added(abi, at, m, IF IsSub(m) THEN Nested(m, within) ELSE Flat(abi, m))

(* The rest of a struct, from its i-th member on.                          *)
LaidFrom[abi \in Abi, s \in DOMAIN Members, i \in Nat, at \in Position] ==
  IF i > Len(Members[s]) THEN at
  ELSE LaidFrom[abi, s, i + 1,
                Placed(abi, at, Order(abi, Members[s])[i],
                       Done(LaidFrom[abi, Order(abi, Members[s])[i].struct, 1, Start]))]

LayoutOf == [abi \in Abi, s \in DOMAIN Members |-> Done(LaidFrom[abi, s, 1, Start])]

PlaceIn(layout, name) ==
  (CHOOSE p \in Range(layout.placed) : p.member.name = name).place

-----------------------------------------------------------------------------
(* Memory: the bits of a struct whose members have given values.           *)

(* Bit j of a member, counted from the least significant, lies at this bit *)
(* of memory, counted from the least significant bit of the first byte.    *)
BitOf(abi, p, j) ==
  LET turned == IF p.member.field THEN abi.msbFirst ELSE abi.bigEndian
      k == p.place + p.member.bits - 1 - j
  IN IF turned THEN 8 * (k \div 8) + 7 - (k % 8) ELSE p.place + j

(* Bits set in a value; none of the values here has 32 bits.               *)
BitsSet(v) == {j \in 0 .. 30 : (v \div 2^j) % 2 = 1}

(* The bits of a byte of memory that are set.                              *)
ByteAt(abi, placed, value, n) ==
  UNION {{BitOf(abi, p, j) - 8 * n : j \in BitsSet(value[p.member.name])} :
           p \in {q \in Range(placed) : q.member.name \in DOMAIN value}} \cap (0 .. 7)

MemoryIs(abi, s, value, bytes) ==
  \A k \in DOMAIN bytes :
    ByteAt(abi, LayoutOf[abi, s].placed, value, k - 1) = BitsSet(bytes[k])

-----------------------------------------------------------------------------
(* common/x86compatibility.c                                               *)

DESCRIPTORREGIONSIZE == 4096
GBEREGIONSIZE_8K == 8192

StructSizesIncorrect(abi) ==
  \/ Bytes(LayoutOf[abi, "DESCRIPTORREGIONRECORD"].size) # DESCRIPTORREGIONSIZE
  \/ Bytes(LayoutOf[abi, "GBEREGIONRECORD_8K"].size) # GBEREGIONSIZE_8K

(* "\0\xff" as an integer.                                                 *)
IsBigEndian(abi) == (IF abi.bigEndian THEN 255 ELSE 255 * 256) < 256

Fill(names, values) == [n \in {<<names[i]>> : i \in DOMAIN names} |->
                          values[CHOOSE i \in DOMAIN names : <<names[i]>> = n]]

StructBitfieldWrongOrder(abi) ==
  ~MemoryIs(abi, "FLMAP0",
            Fill(<<"FCBA", "NC", "reserved1", "FRBA", "NR", "reserved2">>,
                 <<\hA2, \h2, \h38, \hD2, \h5, \h1C>>),
            <<\hA2, \hE2, \hD2, \hE5>>)

(* The four bytes of padding, one by one, are checked too.                 *)
StructMembersWrongOrder(abi) ==
  \/ ~MemoryIs(abi, "MEVSCCTABLERECORD",
               Fill(<<"jid0", "vscc0", "jid1", "vscc1", "jid2", "vscc2">>,
                    <<\h01020304, \h10203040, \h11223344, \h05060708,
                      \h50607080, \h55667788>>),
               << \h04, \h03, \h02, \h01, \h40, \h30, \h20, \h10,
                  \h44, \h33, \h22, \h11, \h08, \h07, \h06, \h05,
                  \h80, \h70, \h60, \h50, \h88, \h77, \h66, \h55 >>)
  \/ PlaceIn(LayoutOf[abi, "MEVSCCTABLERECORD"], <<"padding">>) # 8 * 24

\* Mutant: the order of the members is not looked at.
MembersUncheckedIncompatible(abi) ==
  StructSizesIncorrect(abi) \/ IsBigEndian(abi) \/ StructBitfieldWrongOrder(abi)

SystemOrCompilerIncompatible(abi) ==
  \/ StructSizesIncorrect(abi)
  \/ IsBigEndian(abi)
  \/ StructBitfieldWrongOrder(abi)
  \/ StructMembersWrongOrder(abi)

Incompatible == {abi \in Abi : SystemOrCompilerIncompatible(abi)}
==================================================================================
