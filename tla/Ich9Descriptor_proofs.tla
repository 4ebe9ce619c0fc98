-------------------------- MODULE Ich9Descriptor_proofs --------------------------
(***************************************************************************)
(* What the edits of Ich9Descriptor make of a descriptor, for each one     *)
(* whose own region is the first block and each image of 16 KiB to 32 MiB. *)
(* Ich9_proofs cites these facts for the files of Ich9Tools, and           *)
(* Ich9Code_proofs for the 4 KiB structs that are read as descriptors.     *)
(***************************************************************************)
EXTENDS Ich9Descriptor, Integers, TLAPS

Blocks == 4 .. 8192

(* What a factory descriptor and a descriptor of libreboot have in common, *)
(* and what the generated code relies on: the dump is a freed one.         *)
AtStart(d) == d \in Descriptor /\ d.extent["fd"] = [base |-> 0, limit |-> 0]
Freed(d) == AtStart(d) /\ MeGone(d)

Sound(d, blocks, hasGbe) ==
  /\ LayoutSound(d, blocks)
  /\ MeGone(d)
  /\ NicConsistent(d)
  /\ DefinesGbeRegion(d) <=> hasGbe

-----------------------------------------------------------------------------
(* Descriptors                                                             *)

LEMMA DescriptorFields ==
  ASSUME NEW d \in Descriptor
  PROVE  /\ d.extent \in [Region -> Extent]
         /\ d.access \in [Master -> Access]
         /\ d.density \in [1 .. 2 -> 0 .. 7]
         /\ d.count \in 0 .. 7
         /\ d.integratedGbe \in Bit /\ d.lanPhy \in Bit
         /\ d.meOff \in BOOLEAN /\ d.tpmOff \in BOOLEAN /\ d.liberate \in BOOLEAN
  BY DEF Descriptor

LEMMA ExtentTypes ==
  ASSUME NEW base \in Bits13, NEW blocks \in Blocks
  PROVE  Removed \in Extent /\ GbeExtent \in Extent /\ BiosExtent(base, blocks) \in Extent
  BY DEF Removed, GbeExtent, BiosExtent, Extent, Bits13, Blocks, DescriptorBlocks, GbeBlocks

LEMMA LastBlock ==
  ASSUME NEW blocks \in Blocks
  PROVE  blocks \in Int /\ 4 <= blocks /\ blocks <= 8192 /\ (blocks - 1) % 8192 = blocks - 1
  BY DEF Blocks

LEMMA BiosFields ==
  ASSUME NEW base \in Bits13, NEW blocks \in Blocks
  PROVE  /\ BiosExtent(base, blocks).base = base
         /\ BiosExtent(base, blocks).limit = blocks - 1
  BY LastBlock DEF BiosExtent

(* The layout with and without a GbE region, the ME and platform regions   *)
(* being absent.                                                           *)
LEMMA LayoutWithGbe ==
  ASSUME NEW d \in Descriptor, NEW blocks \in Blocks,
         d.extent["fd"] = [base |-> 0, limit |-> 0],
         d.extent["bios"] = BiosExtent(DescriptorBlocks + GbeBlocks, blocks),
         d.extent["gbe"] = GbeExtent,
         ~Present(d, "me"), ~Present(d, "pd")
  PROVE  LayoutSound(d, blocks) /\ Regions(d) = {"fd", "gbe", "bios"}
<1>0. blocks \in Int /\ 4 <= blocks /\ blocks <= 8192
  BY LastBlock
<1>1. /\ First(d, "fd") = 0 /\ Last(d, "fd") = 0
      /\ First(d, "gbe") = 1 /\ Last(d, "gbe") = 2
      /\ First(d, "bios") = 3 /\ Last(d, "bios") = blocks - 1
  <2>1. DescriptorBlocks = 1 /\ GbeBlocks = 2 /\ DescriptorBlocks + GbeBlocks = 3
    BY DEF DescriptorBlocks, GbeBlocks
  <2>2. DescriptorBlocks + GbeBlocks \in Bits13
    BY <2>1 DEF Bits13
  <2>3. First(d, "bios") = 3 /\ Last(d, "bios") = blocks - 1
    BY <2>1, <2>2, BiosFields DEF First, Last
  <2>4. QED
    BY <2>1, <2>3 DEF First, Last, GbeExtent, Removed
<1>2. Regions(d) = {"fd", "gbe", "bios"}
  <2>1. Present(d, "fd") /\ Present(d, "gbe") /\ Present(d, "bios")
    BY <1>0, <1>1 DEF Present
  <2>2. QED
    BY <2>1 DEF Regions, Region
<1>3. LayoutSound(d, blocks)
  BY <1>1, <1>2 DEF LayoutSound, Blocks
<1>4. QED
  BY <1>2, <1>3

LEMMA LayoutWithoutGbe ==
  ASSUME NEW d \in Descriptor, NEW blocks \in Blocks,
         d.extent["fd"] = [base |-> 0, limit |-> 0],
         d.extent["bios"] = BiosExtent(DescriptorBlocks, blocks),
         d.extent["gbe"] = Removed,
         ~Present(d, "me"), ~Present(d, "pd")
  PROVE  LayoutSound(d, blocks) /\ Regions(d) = {"fd", "bios"}
<1>0. blocks \in Int /\ 4 <= blocks /\ blocks <= 8192
  BY LastBlock
<1>1. /\ First(d, "fd") = 0 /\ Last(d, "fd") = 0
      /\ First(d, "bios") = 1 /\ Last(d, "bios") = blocks - 1
      /\ First(d, "gbe") = 8191 /\ Last(d, "gbe") = 0
  <2>1. DescriptorBlocks = 1 /\ DescriptorBlocks \in Bits13
    BY DEF DescriptorBlocks, Bits13
  <2>2. First(d, "bios") = 1 /\ Last(d, "bios") = blocks - 1
    BY <2>1, BiosFields DEF First, Last
  <2>3. QED
    BY <2>2 DEF First, Last, Removed
<1>2. Regions(d) = {"fd", "bios"}
  <2>1. Present(d, "fd") /\ Present(d, "bios")
    BY <1>0, <1>1 DEF Present
  <2>2. ~Present(d, "gbe")
    BY <1>1 DEF Present
  <2>3. QED
    BY <2>1, <2>2 DEF Regions, Region
<1>3. LayoutSound(d, blocks)
  BY <1>1, <1>2 DEF LayoutSound, Blocks
<1>4. QED
  BY <1>2, <1>3

(* The fields that decide no region.                                       *)
Rest(d) == <<d.density, d.access, d.meOff, d.tpmOff, d.liberate>>

LEMMA SetExtent ==
  ASSUME NEW d \in Descriptor, NEW r \in Region, NEW x \in Extent
  PROVE  LET e == [d EXCEPT !.extent[r] = x]
         IN /\ e \in Descriptor
            /\ e.extent = [d.extent EXCEPT ![r] = x]
            /\ e.count = d.count
            /\ e.integratedGbe = d.integratedGbe /\ e.lanPhy = d.lanPhy
            /\ Rest(e) = Rest(d)
  BY DEF Descriptor, Rest

LEMMA SetCount ==
  ASSUME NEW d \in Descriptor, NEW n \in 0 .. 7
  PROVE  LET e == [d EXCEPT !.count = n]
         IN /\ e \in Descriptor
            /\ e.extent = d.extent
            /\ e.count = n
            /\ e.integratedGbe = d.integratedGbe /\ e.lanPhy = d.lanPhy
            /\ Rest(e) = Rest(d)
  BY DEF Descriptor, Rest

LEMMA SetStraps ==
  ASSUME NEW d \in Descriptor, NEW on \in Bit
  PROVE  LET e == GbeStraps(d, on)
         IN /\ e \in Descriptor
            /\ e.extent = d.extent
            /\ e.count = d.count
            /\ e.integratedGbe = on /\ e.lanPhy = on
            /\ Rest(e) = Rest(d)
  BY DEF Descriptor, Rest, GbeStraps

(* What SetGbeBiosRegions gives, field by field.                           *)
LEMMA RegionsSet ==
  ASSUME NEW d \in Descriptor, NEW blocks \in Blocks
  PROVE  LET e  == SetGbeBiosRegions(d, blocks)
             on == IF DefinesGbeRegion(d) THEN 1 ELSE 0
         IN /\ e \in Descriptor
            /\ e.extent = [d.extent EXCEPT
                  !["gbe"]  = IF DefinesGbeRegion(d) THEN GbeExtent ELSE Removed,
                  !["bios"] = BiosExtent(DescriptorBlocks + on * GbeBlocks, blocks)]
            /\ e.count = 1 + on
            /\ e.integratedGbe = on /\ e.lanPhy = on
            /\ Rest(e) = Rest(d)
<1>0. /\ DescriptorBlocks + 1 * GbeBlocks = 3 /\ DescriptorBlocks + GbeBlocks = 3
      /\ DescriptorBlocks + 0 * GbeBlocks = 1 /\ DescriptorBlocks = 1
  BY DEF DescriptorBlocks, GbeBlocks
<1>1. /\ BiosExtent(3, blocks) \in Extent /\ BiosExtent(1, blocks) \in Extent
      /\ GbeExtent \in Extent /\ Removed \in Extent
      /\ "gbe" \in Region /\ "bios" \in Region
      /\ 0 \in Bit /\ 1 \in Bit /\ 1 \in 0 .. 7 /\ 2 \in 0 .. 7
  BY ExtentTypes DEF Bits13, Region, Bit
<1>2. CASE DefinesGbeRegion(d)
  <2> DEFINE a == [d EXCEPT !.count = 2]
             b == [a EXCEPT !.extent["gbe"] = GbeExtent]
             c == [b EXCEPT !.extent["bios"] = BiosExtent(3, blocks)]
             e == GbeStraps(c, 1)
  <2>0. SetGbeBiosRegions(d, blocks) = e
    BY <1>0, <1>2 DEF SetGbeBiosRegions, BiosRegionFillImageAfterGbe, MoveGbeToStart
  <2>1. a \in Descriptor /\ a.extent = d.extent /\ a.count = 2 /\ Rest(a) = Rest(d)
    BY <1>1, SetCount
  <2> HIDE DEF a
  <2>2. b \in Descriptor /\ b.extent = [a.extent EXCEPT !["gbe"] = GbeExtent]
        /\ b.count = a.count /\ Rest(b) = Rest(a)
    BY <1>1, <2>1, SetExtent
  <2> HIDE DEF b
  <2>3. c \in Descriptor /\ c.extent = [b.extent EXCEPT !["bios"] = BiosExtent(3, blocks)]
        /\ c.count = b.count /\ Rest(c) = Rest(b)
    BY <1>1, <2>2, SetExtent
  <2> HIDE DEF c
  <2>4. e \in Descriptor /\ e.extent = c.extent /\ e.count = c.count
        /\ e.integratedGbe = 1 /\ e.lanPhy = 1 /\ Rest(e) = Rest(c)
    BY <1>1, <2>3, SetStraps
  <2> HIDE DEF e
  <2>5. QED
    BY <1>0, <1>2, <2>0, <2>1, <2>2, <2>3, <2>4
<1>3. CASE ~DefinesGbeRegion(d)
  <2> DEFINE a == [d EXCEPT !.count = 1]
             b == [a EXCEPT !.extent["gbe"] = Removed]
             c == [b EXCEPT !.extent["bios"] = BiosExtent(1, blocks)]
             e == GbeStraps(c, 0)
  <2>0. SetGbeBiosRegions(d, blocks) = e
    BY <1>0, <1>3 DEF SetGbeBiosRegions, BiosRegionFillImageAfterDescriptor, GbeRegionRemoved
  <2>1. a \in Descriptor /\ a.extent = d.extent /\ a.count = 1 /\ Rest(a) = Rest(d)
    BY <1>1, SetCount
  <2> HIDE DEF a
  <2>2. b \in Descriptor /\ b.extent = [a.extent EXCEPT !["gbe"] = Removed]
        /\ b.count = a.count /\ Rest(b) = Rest(a)
    BY <1>1, <2>1, SetExtent
  <2> HIDE DEF b
  <2>3. c \in Descriptor /\ c.extent = [b.extent EXCEPT !["bios"] = BiosExtent(1, blocks)]
        /\ c.count = b.count /\ Rest(c) = Rest(b)
    BY <1>1, <2>2, SetExtent
  <2> HIDE DEF c
  <2>4. e \in Descriptor /\ e.extent = c.extent /\ e.count = c.count
        /\ e.integratedGbe = 0 /\ e.lanPhy = 0 /\ Rest(e) = Rest(c)
    BY <1>1, <2>3, SetStraps
  <2> HIDE DEF e
  <2>5. QED
    BY <1>0, <1>3, <2>0, <2>1, <2>2, <2>3, <2>4
<1>4. QED
  BY <1>2, <1>3

(* Everything that closes the ME out, on whatever regions.                 *)
ClosedOut(d, e) ==
  /\ e \in Descriptor
  /\ e.extent = d.extent /\ e.count = d.count
  /\ e.integratedGbe = d.integratedGbe /\ e.lanPhy = d.lanPhy
  /\ e.meOff /\ e.tpmOff
  /\ e.access["me"] = [read |-> {}, write |-> {}]
  /\ e.access["host"] = [read |-> Region, write |-> Region]

LEMMA AccessSet ==
  ASSUME NEW d \in Descriptor, NEW m \in Master, NEW x \in Access
  PROVE  LET e == [d EXCEPT !.access[m] = x]
         IN /\ e \in Descriptor
            /\ e.extent = d.extent /\ e.count = d.count
            /\ e.integratedGbe = d.integratedGbe /\ e.lanPhy = d.lanPhy
            /\ e.meOff = d.meOff /\ e.tpmOff = d.tpmOff
            /\ e.access = [d.access EXCEPT ![m] = x]
  BY DEF Descriptor

LEMMA SwitchedOff ==
  ASSUME NEW d \in Descriptor
  PROVE  LET e == DisableTpm(DisableMe(d))
         IN /\ e \in Descriptor
            /\ e.extent = d.extent /\ e.count = d.count
            /\ e.integratedGbe = d.integratedGbe /\ e.lanPhy = d.lanPhy
            /\ e.meOff /\ e.tpmOff
            /\ e.access = d.access
  BY DEF Descriptor, DisableTpm, DisableMe

LEMMA ClosedOutByDeblobbing ==
  ASSUME NEW d \in Descriptor
  PROVE  ClosedOut(d, OemString(HostRegionsUnlocked(MeRegionsForbidden(
           DisableTpm(DisableMe(d))))))
<1> DEFINE a == DisableTpm(DisableMe(d))
           none == [read |-> {}, write |-> {}]
           all == [read |-> Region, write |-> Region]
           b == [a EXCEPT !.access["me"] = none]
           c == [b EXCEPT !.access["host"] = all]
           e == [c EXCEPT !.liberate = TRUE]
<1>0. OemString(HostRegionsUnlocked(MeRegionsForbidden(a))) = e
  BY DEF OemString, HostRegionsUnlocked, MeRegionsForbidden
<1>1. a \in Descriptor /\ a.extent = d.extent /\ a.count = d.count
      /\ a.integratedGbe = d.integratedGbe /\ a.lanPhy = d.lanPhy
      /\ a.meOff /\ a.tpmOff
  BY SwitchedOff
<1>2. "me" \in Master /\ "host" \in Master /\ none \in Access /\ all \in Access
  BY DEF Master, Access
<1> HIDE DEF a, none, all
<1>3. b \in Descriptor /\ b.extent = a.extent /\ b.count = a.count
      /\ b.integratedGbe = a.integratedGbe /\ b.lanPhy = a.lanPhy
      /\ b.meOff = a.meOff /\ b.tpmOff = a.tpmOff
      /\ b.access = [a.access EXCEPT !["me"] = none]
  BY <1>1, <1>2, AccessSet
<1> HIDE DEF b
<1>4. c \in Descriptor /\ c.extent = b.extent /\ c.count = b.count
      /\ c.integratedGbe = b.integratedGbe /\ c.lanPhy = b.lanPhy
      /\ c.meOff = b.meOff /\ c.tpmOff = b.tpmOff
      /\ c.access = [b.access EXCEPT !["host"] = all]
  BY <1>2, <1>3, AccessSet
<1>5. a.access \in [Master -> Access] /\ b.access \in [Master -> Access]
  BY <1>1, <1>3, DescriptorFields
<1>6. c.access["me"] = none /\ c.access["host"] = all
  BY <1>2, <1>3, <1>4, <1>5
<1> HIDE DEF c
<1>7. e \in Descriptor /\ e.extent = c.extent /\ e.count = c.count
      /\ e.integratedGbe = c.integratedGbe /\ e.lanPhy = c.lanPhy
      /\ e.meOff = c.meOff /\ e.tpmOff = c.tpmOff /\ e.access = c.access
  BY <1>4 DEF Descriptor
<1> HIDE DEF e
<1>8. ClosedOut(d, e)
  BY <1>1, <1>3, <1>4, <1>6, <1>7 DEF ClosedOut, none, all
<1>9. QED
  BY <1>0, <1>8 DEF a

LEMMA ClosedOutByDemefactory ==
  ASSUME NEW d \in Descriptor
  PROVE  ClosedOut(d, Demed(d))
<1> DEFINE a == DisableTpm(DisableMe(d))
           none == [read |-> {}, write |-> {}]
           all == [read |-> Region, write |-> Region]
           b == [a EXCEPT !.access["host"] = all]
           e == [b EXCEPT !.access["me"] = none]
<1>0. Demed(d) = e
  BY DEF Demed, HostRegionsUnlocked, MeRegionsForbidden
<1>1. a \in Descriptor /\ a.extent = d.extent /\ a.count = d.count
      /\ a.integratedGbe = d.integratedGbe /\ a.lanPhy = d.lanPhy
      /\ a.meOff /\ a.tpmOff
  BY SwitchedOff
<1>2. "me" \in Master /\ "host" \in Master /\ none \in Access /\ all \in Access
  BY DEF Master, Access
<1> HIDE DEF a, none, all
<1>3. b \in Descriptor /\ b.extent = a.extent /\ b.count = a.count
      /\ b.integratedGbe = a.integratedGbe /\ b.lanPhy = a.lanPhy
      /\ b.meOff = a.meOff /\ b.tpmOff = a.tpmOff
      /\ b.access = [a.access EXCEPT !["host"] = all]
  BY <1>1, <1>2, AccessSet
<1> HIDE DEF b
<1>4. e \in Descriptor /\ e.extent = b.extent /\ e.count = b.count
      /\ e.integratedGbe = b.integratedGbe /\ e.lanPhy = b.lanPhy
      /\ e.meOff = b.meOff /\ e.tpmOff = b.tpmOff
      /\ e.access = [b.access EXCEPT !["me"] = none]
  BY <1>2, <1>3, AccessSet
<1>5. a.access \in [Master -> Access] /\ b.access \in [Master -> Access]
  BY <1>1, <1>3, DescriptorFields
<1>6. e.access["me"] = none /\ e.access["host"] = all
  BY <1>2, <1>3, <1>4, <1>5
<1> HIDE DEF e
<1>7. ClosedOut(d, e)
  BY <1>1, <1>3, <1>4, <1>6 DEF ClosedOut, none, all
<1>8. QED
  BY <1>0, <1>7

LEMMA SoundFields ==
  ASSUME NEW e, AtStart(e), MeGone(e), NEW blocks \in Blocks, NEW hasGbe \in BOOLEAN,
         NEW on, on = IF hasGbe THEN 1 ELSE 0,
         e.extent["gbe"] = IF hasGbe THEN GbeExtent ELSE Removed,
         e.extent["bios"] = BiosExtent(DescriptorBlocks + on * GbeBlocks, blocks),
         e.count = 1 + on, e.integratedGbe = on, e.lanPhy = on
  PROVE  Sound(e, blocks, hasGbe)
<1>1. /\ DescriptorBlocks + 1 * GbeBlocks = DescriptorBlocks + GbeBlocks
      /\ DescriptorBlocks + 0 * GbeBlocks = DescriptorBlocks
  BY DEF DescriptorBlocks, GbeBlocks
<1>2. e \in Descriptor /\ e.extent["fd"] = [base |-> 0, limit |-> 0]
      /\ ~Present(e, "me") /\ ~Present(e, "pd")
  BY DEF AtStart, MeGone
<1>3. CASE hasGbe
  <2>1. LayoutSound(e, blocks) /\ Regions(e) = {"fd", "gbe", "bios"}
    BY <1>1, <1>2, <1>3, LayoutWithGbe
  <2>2. Present(e, "gbe")
    BY <1>3 DEF Present, First, Last, GbeExtent, DescriptorBlocks, GbeBlocks
  <2>3. DefinesGbeRegion(e)
    BY <1>3 DEF DefinesGbeRegion, GbeExtent, DescriptorBlocks
  <2>4. NicConsistent(e)
    BY <1>3, <2>2, <2>3 DEF NicConsistent
  <2>5. QED
    BY <1>3, <2>1, <2>3, <2>4 DEF Sound
<1>4. CASE ~hasGbe
  <2>1. LayoutSound(e, blocks) /\ Regions(e) = {"fd", "bios"}
    BY <1>1, <1>2, <1>4, LayoutWithoutGbe
  <2>2. ~Present(e, "gbe")
    BY <1>4 DEF Present, First, Last, Removed
  <2>3. ~DefinesGbeRegion(e)
    BY <1>4 DEF DefinesGbeRegion
  <2>4. NicConsistent(e)
    BY <1>4, <2>2, <2>3 DEF NicConsistent
  <2>5. QED
    BY <1>4, <2>1, <2>3, <2>4 DEF Sound
<1>5. QED
  BY <1>3, <1>4

(* The fields of what ich9deblob makes of a factory descriptor.            *)
LEMMA DeblobbedFields ==
  ASSUME NEW d \in Descriptor, NEW blocks \in Blocks
  PROVE  LET e  == Deblobbed(d, blocks)
             on == IF DefinesGbeRegion(d) THEN 1 ELSE 0
         IN /\ e \in Descriptor
            /\ MeGone(e)
            /\ e.extent["fd"] = d.extent["fd"]
            /\ e.extent["gbe"] = IF DefinesGbeRegion(d) THEN GbeExtent ELSE Removed
            /\ e.extent["bios"] = BiosExtent(DescriptorBlocks + on * GbeBlocks, blocks)
            /\ e.count = 1 + on /\ e.integratedGbe = on /\ e.lanPhy = on
<1> DEFINE on == IF DefinesGbeRegion(d) THEN 1 ELSE 0
           s == SetGbeBiosRegions(d, blocks)
           a == [s EXCEPT !.extent["me"] = Removed]
           b == [a EXCEPT !.extent["pd"] = Removed]
           e == OemString(HostRegionsUnlocked(MeRegionsForbidden(DisableTpm(DisableMe(b)))))
<1>1. Deblobbed(d, blocks) = e
  BY DEF Deblobbed, FromFactory, MeRegionRemoved, PlatformRegionRemoved
<1>2. /\ s \in Descriptor
      /\ s.extent = [d.extent EXCEPT
            !["gbe"]  = IF DefinesGbeRegion(d) THEN GbeExtent ELSE Removed,
            !["bios"] = BiosExtent(DescriptorBlocks + on * GbeBlocks, blocks)]
      /\ s.count = 1 + on /\ s.integratedGbe = on /\ s.lanPhy = on
  BY RegionsSet
<1>3. d.extent \in [Region -> Extent]
  BY DescriptorFields
<1>4. Removed \in Extent /\ "me" \in Region /\ "pd" \in Region /\ "gbe" \in Region
      /\ "bios" \in Region /\ "fd" \in Region
  BY DEF Removed, Extent, Bits13, Region
<1> HIDE DEF s
<1>5. /\ a \in Descriptor /\ a.extent = [s.extent EXCEPT !["me"] = Removed]
      /\ a.count = s.count /\ a.integratedGbe = s.integratedGbe /\ a.lanPhy = s.lanPhy
  BY <1>2, <1>4, SetExtent
<1> HIDE DEF a
<1>6. /\ b \in Descriptor /\ b.extent = [a.extent EXCEPT !["pd"] = Removed]
      /\ b.count = a.count /\ b.integratedGbe = a.integratedGbe /\ b.lanPhy = a.lanPhy
  BY <1>4, <1>5, SetExtent
<1> HIDE DEF b
<1>7. ClosedOut(b, e)
  BY <1>6, ClosedOutByDeblobbing
<1> HIDE DEF e
<1>8. /\ e.extent["fd"] = d.extent["fd"]
      /\ e.extent["gbe"] = IF DefinesGbeRegion(d) THEN GbeExtent ELSE Removed
      /\ e.extent["bios"] = BiosExtent(DescriptorBlocks + on * GbeBlocks, blocks)
      /\ e.extent["me"] = Removed /\ e.extent["pd"] = Removed
  <2>1. s.extent \in [Region -> Extent] /\ a.extent \in [Region -> Extent]
    BY <1>2, <1>5, DescriptorFields
  <2>2. e.extent = [a.extent EXCEPT !["pd"] = Removed]
    BY <1>6, <1>7 DEF ClosedOut
  <2> HIDE DEF on
  <2>3. QED
    BY <1>2, <1>3, <1>4, <1>5, <2>1, <2>2
<1>9. e.count = 1 + on /\ e.integratedGbe = on /\ e.lanPhy = on
  BY <1>2, <1>5, <1>6, <1>7 DEF ClosedOut
<1>10. e \in Descriptor /\ MeGone(e)
  BY <1>7, <1>8 DEF ClosedOut, MeGone, Present, First, Last, Removed
<1>11. QED
  BY <1>1, <1>8, <1>9, <1>10

(* Whatever regions the factory had, and wherever: what ich9deblob makes   *)
(* of its descriptor covers the chip without gap or overlap, gives nothing *)
(* to the management engine and keeps the NIC exactly if there was one     *)
(* (librebootDescriptorStructFromFactory).                                 *)
THEOREM DeblobbedSound ==
  ASSUME NEW d, AtStart(d), NEW blocks \in Blocks
  PROVE  /\ Freed(Deblobbed(d, blocks))
         /\ Sound(Deblobbed(d, blocks), blocks, DefinesGbeRegion(d))
<1>1. d \in Descriptor /\ d.extent["fd"] = [base |-> 0, limit |-> 0]
  BY DEF AtStart
<1>2. DefinesGbeRegion(d) \in BOOLEAN
  BY DEF DefinesGbeRegion
<1> DEFINE e == Deblobbed(d, blocks)
           on == IF DefinesGbeRegion(d) THEN 1 ELSE 0
<1>3. /\ e \in Descriptor /\ MeGone(e)
      /\ e.extent["fd"] = d.extent["fd"]
      /\ e.extent["gbe"] = IF DefinesGbeRegion(d) THEN GbeExtent ELSE Removed
      /\ e.extent["bios"] = BiosExtent(DescriptorBlocks + on * GbeBlocks, blocks)
      /\ e.count = 1 + on /\ e.integratedGbe = on /\ e.lanPhy = on
  BY <1>1, DeblobbedFields
<1> HIDE DEF e, on
<1>4. AtStart(e)
  BY <1>1, <1>3 DEF AtStart
<1>5. Sound(e, blocks, DefinesGbeRegion(d))
  BY <1>2, <1>3, <1>4, SoundFields DEF on
<1>6. QED
  BY <1>3, <1>4, <1>5 DEF Freed, e

LEMMA DensityType ==
  ASSUME NEW blocks \in Blocks
  PROVE  ComponentDensity(blocks) \in 0 .. 7
  BY DEF ComponentDensity, Size

LEMMA GeneratedFields ==
  ASSUME NEW d \in Descriptor, NEW blocks \in Blocks, NEW hasGbe \in BOOLEAN
  PROVE  LET e  == Generated(d, blocks, hasGbe)
             on == IF hasGbe THEN 1 ELSE 0
         IN /\ e \in Descriptor
            /\ e.extent = [d.extent EXCEPT
                 !["bios"] = BiosExtent(DescriptorBlocks + on * GbeBlocks, blocks),
                 !["gbe"]  = IF hasGbe THEN GbeExtent ELSE Removed]
            /\ e.count = 1 + on /\ e.integratedGbe = on /\ e.lanPhy = on
            /\ e.access = d.access /\ e.meOff = d.meOff /\ e.tpmOff = d.tpmOff
            /\ e.liberate = d.liberate
<1> DEFINE on == IF hasGbe THEN 1 ELSE 0
           bios == BiosExtent(DescriptorBlocks + on * GbeBlocks, blocks)
           gbe == IF hasGbe THEN GbeExtent ELSE Removed
           density == [i \in 1 .. 2 |-> ComponentDensity(blocks)]
           extent == [d.extent EXCEPT !["bios"] = bios, !["gbe"] = gbe]
           e == [d EXCEPT !.count = 1 + on, !.density = density, !.extent = extent,
                          !.integratedGbe = on, !.lanPhy = on]
<1>1. on \in Bit /\ 1 + on \in 0 .. 7 /\ DescriptorBlocks + on * GbeBlocks \in Bits13
  BY DEF Bit, Bits13, DescriptorBlocks, GbeBlocks
<1>2. bios \in Extent /\ gbe \in Extent
  BY <1>1, ExtentTypes
<1>3. density \in [1 .. 2 -> 0 .. 7]
  BY DensityType
<1>4. d.extent \in [Region -> Extent]
  BY DescriptorFields
<1> HIDE DEF on, bios, gbe, density
<1>5. extent \in [Region -> Extent]
  BY <1>2, <1>4
<1>6. Generated(d, blocks, hasGbe) = e
  BY DEF Generated, on, bios, gbe, density
<1> HIDE DEF extent
<1>7. /\ e \in Descriptor /\ e.extent = extent /\ e.density = density
      /\ e.count = 1 + on /\ e.integratedGbe = on /\ e.lanPhy = on
      /\ e.access = d.access /\ e.meOff = d.meOff /\ e.tpmOff = d.tpmOff
      /\ e.liberate = d.liberate
  BY <1>1, <1>3, <1>5 DEF Descriptor
<1> HIDE DEF e
<1>8. QED
  BY <1>6, <1>7 DEF on, bios, gbe, density, extent

(* Code dumped from any freed descriptor generates sound descriptors for   *)
(* each size and with and without the NIC (generatedDescriptorStruct).     *)
THEOREM GeneratedSound ==
  ASSUME NEW d, Freed(d), NEW blocks \in Blocks, NEW hasGbe \in BOOLEAN
  PROVE  /\ Freed(Generated(d, blocks, hasGbe))
         /\ Sound(Generated(d, blocks, hasGbe), blocks, hasGbe)
<1> DEFINE e == Generated(d, blocks, hasGbe)
           on == IF hasGbe THEN 1 ELSE 0
<1>1. d \in Descriptor /\ d.extent["fd"] = [base |-> 0, limit |-> 0] /\ MeGone(d)
  BY DEF Freed, AtStart
<1>2. /\ e \in Descriptor
      /\ e.extent = [d.extent EXCEPT
           !["bios"] = BiosExtent(DescriptorBlocks + on * GbeBlocks, blocks),
           !["gbe"]  = IF hasGbe THEN GbeExtent ELSE Removed]
      /\ e.count = 1 + on /\ e.integratedGbe = on /\ e.lanPhy = on
      /\ e.access = d.access /\ e.meOff = d.meOff /\ e.tpmOff = d.tpmOff
  BY <1>1, GeneratedFields
<1> HIDE DEF e
<1>3. d.extent \in [Region -> Extent]
  BY <1>1, DescriptorFields
<1>4. /\ e.extent["fd"] = d.extent["fd"]
      /\ e.extent["me"] = d.extent["me"] /\ e.extent["pd"] = d.extent["pd"]
      /\ e.extent["gbe"] = IF hasGbe THEN GbeExtent ELSE Removed
      /\ e.extent["bios"] = BiosExtent(DescriptorBlocks + on * GbeBlocks, blocks)
  <2> HIDE DEF on
  <2>1. "fd" \in Region /\ "me" \in Region /\ "pd" \in Region
        /\ "gbe" \in Region /\ "bios" \in Region
    BY DEF Region
  <2>2. QED
    BY <1>2, <1>3, <2>1
<1>5. AtStart(e) /\ MeGone(e)
  BY <1>1, <1>2, <1>4 DEF AtStart, MeGone, Present, First, Last
<1> HIDE DEF on
<1>6. Sound(e, blocks, hasGbe)
  BY <1>2, <1>4, <1>5, SoundFields DEF on
<1>7. QED
  BY <1>5, <1>6 DEF Freed, e

(* The code ich9deblob dumps recreates, for a chip of the dump's size, the *)
(* descriptor it has just made, all but the densities.                     *)
THEOREM GeneratedRecreates ==
  ASSUME NEW d \in Descriptor, NEW blocks \in Blocks
  PROVE  LET e     == Deblobbed(d, blocks)
             again == Generated(e, blocks, DefinesGbeRegion(d))
         IN again = [e EXCEPT !.density = again.density]
<1> DEFINE e == Deblobbed(d, blocks)
           has == DefinesGbeRegion(d)
           on == IF has THEN 1 ELSE 0
           again == Generated(e, blocks, has)
           same == [e EXCEPT !.density = again.density]
<1>1. /\ e \in Descriptor
      /\ e.extent["gbe"] = IF has THEN GbeExtent ELSE Removed
      /\ e.extent["bios"] = BiosExtent(DescriptorBlocks + on * GbeBlocks, blocks)
      /\ e.count = 1 + on /\ e.integratedGbe = on /\ e.lanPhy = on
  BY DeblobbedFields
<1>2. has \in BOOLEAN
  BY DEF DefinesGbeRegion
<1> HIDE DEF e, has
<1>3. /\ again \in Descriptor
      /\ again.extent = [e.extent EXCEPT
           !["bios"] = BiosExtent(DescriptorBlocks + on * GbeBlocks, blocks),
           !["gbe"]  = IF has THEN GbeExtent ELSE Removed]
      /\ again.count = 1 + on /\ again.integratedGbe = on /\ again.lanPhy = on
      /\ again.access = e.access /\ again.meOff = e.meOff /\ again.tpmOff = e.tpmOff
      /\ again.liberate = e.liberate
  BY <1>1, <1>2, GeneratedFields
<1> HIDE DEF again, on
<1>4. e.extent \in [Region -> Extent] /\ again.density \in [1 .. 2 -> 0 .. 7]
  BY <1>1, <1>3, DescriptorFields
<1>5. again.extent = e.extent
  BY <1>1, <1>3, <1>4
<1>6. same \in Descriptor /\ same.density = again.density /\ same.extent = e.extent
      /\ same.count = e.count /\ same.integratedGbe = e.integratedGbe
      /\ same.lanPhy = e.lanPhy /\ same.access = e.access /\ same.meOff = e.meOff
      /\ same.tpmOff = e.tpmOff /\ same.liberate = e.liberate
  BY <1>1, <1>4 DEF Descriptor
<1> HIDE DEF same
<1>7. again = same
  BY <1>1, <1>3, <1>5, <1>6 DEF Descriptor
<1>8. QED
  BY <1>7 DEF e, has, again, same
==============================================================================
