------------------------------ MODULE Ich9Descriptor ------------------------------
(***************************************************************************)
(* The flash descriptor of an ICH9 board and what ich9deblob, demefactory  *)
(* and ich9gen make of it (descriptor/descriptor.c of projects/ich9gen).   *)
(*                                                                         *)
(* Of the 4 KiB of a descriptor the modules keep the fields that decide    *)
(* where the regions of the flash chip lie, who may access them and what   *)
(* is switched off; the others are copied by every function and are left   *)
(* out.  Addresses are in blocks of 4 KiB, as in the descriptor itself,    *)
(* and the size of a ROM image is its number of whole blocks.              *)
(***************************************************************************)
EXTENDS Naturals

Region == {"fd", "bios", "me", "gbe", "pd"}
Master == {"host", "me", "gbe"}
Bits13 == 0 .. 8191
Bit    == 0 .. 1

Extent == [base : Bits13, limit : Bits13]
Access == [read : SUBSET Region, write : SUBSET Region]

Descriptor ==
  [extent   : [Region -> Extent],
   count    : 0 .. 7,               \* flMap0.NR, the last region's number
   density  : [1 .. 2 -> 0 .. 7],   \* of the two flash chips
   access   : [Master -> Access],
   integratedGbe : Bit,
   lanPhy   : Bit,
   meOff    : BOOLEAN,              \* disabled in both straps
   tpmOff   : BOOLEAN,
   liberate : BOOLEAN]              \* the OEM string is "LIBERATE"

DescriptorBlocks == 1
GbeBlocks == 2

-----------------------------------------------------------------------------
(* Reading a descriptor                                                    *)

First(d, r) == d.extent[r].base
Last(d, r)  == d.extent[r].limit
Present(d, r) == First(d, r) <= Last(d, r)

DefinesGbeRegion(d) ==
  /\ ~(d.extent["gbe"].base \in {8191, 4095} /\ d.extent["gbe"].limit = 0)
  /\ d.integratedGbe # 0
  /\ d.lanPhy # 0

-----------------------------------------------------------------------------
(* Changing it                                                             *)

Removed == [base |-> 8191, limit |-> 0]

HostRegionsUnlocked(d) ==
  [d EXCEPT !.access["host"] = [read |-> Region, write |-> Region]]
MeRegionsForbidden(d) ==
  [d EXCEPT !.access["me"] = [read |-> {}, write |-> {}]]

MeRegionRemoved(d)       == [d EXCEPT !.extent["me"] = Removed]
PlatformRegionRemoved(d) == [d EXCEPT !.extent["pd"] = Removed]
GbeRegionRemoved(d)      == [d EXCEPT !.extent["gbe"] = Removed]
DisableMe(d)  == [d EXCEPT !.meOff = TRUE]
DisableTpm(d) == [d EXCEPT !.tpmOff = TRUE]
OemString(d)  == [d EXCEPT !.liberate = TRUE]

(* The limit is the last block: 1 and 2 hold the region.                   *)
GbeExtent == [base |-> DescriptorBlocks, limit |-> GbeBlocks]
MoveGbeToStart(d) == [d EXCEPT !.extent["gbe"] = GbeExtent]

(* Up to the end of the image, as far as 13 bits reach.                    *)
BiosExtent(base, blocks) == [base |-> base, limit |-> (blocks - 1) % 8192]

BiosRegionFillImageAfterGbe(d, blocks) ==
  [d EXCEPT !.extent["bios"] = BiosExtent(DescriptorBlocks + GbeBlocks, blocks)]
BiosRegionFillImageAfterDescriptor(d, blocks) ==
  [d EXCEPT !.extent["bios"] = BiosExtent(DescriptorBlocks, blocks)]

GbeStraps(d, on) == [d EXCEPT !.integratedGbe = on, !.lanPhy = on]

\* Mutant: the GbE region stays where the factory had it.
SetGbeBiosRegionsInPlace(d, blocks) ==
  IF DefinesGbeRegion(d)
    THEN GbeStraps(BiosRegionFillImageAfterDescriptor([d EXCEPT !.count = 2], blocks), 1)
    ELSE GbeStraps(BiosRegionFillImageAfterDescriptor(
           GbeRegionRemoved([d EXCEPT !.count = 1]), blocks), 0)

SetGbeBiosRegions(d, blocks) ==
  IF DefinesGbeRegion(d)
    THEN GbeStraps(BiosRegionFillImageAfterGbe(
           MoveGbeToStart([d EXCEPT !.count = 2]), blocks), 1)
    ELSE GbeStraps(BiosRegionFillImageAfterDescriptor(
           GbeRegionRemoved([d EXCEPT !.count = 1]), blocks), 0)

FromFactory(d, blocks) ==
  DisableTpm(DisableMe(PlatformRegionRemoved(MeRegionRemoved(
    SetGbeBiosRegions(d, blocks)))))

(* All that ich9deblob does to the descriptor, and all demefactory does.   *)
Deblobbed(d, blocks) ==
  OemString(HostRegionsUnlocked(MeRegionsForbidden(FromFactory(d, blocks))))
Demed(d) ==
  MeRegionsForbidden(HostRegionsUnlocked(DisableTpm(DisableMe(d))))

-----------------------------------------------------------------------------
(* The C code a descriptor is dumped as, run with a size and a choice: all *)
(* fields are those of the dump but the ones that depend on the arguments. *)

\* 512 KiB to 16 MiB; any other size has the reserved value.
Size == [s \in {128, 256, 512, 1024, 2048, 4096} |->
           CASE s = 128  -> 0 [] s = 256  -> 1 [] s = 512  -> 2
             [] s = 1024 -> 3 [] s = 2048 -> 4 [] s = 4096 -> 5]
ComponentDensity(blocks) == IF blocks \in DOMAIN Size THEN Size[blocks] ELSE 7

Generated(dump, blocks, hasGbe) ==
  LET on == IF hasGbe THEN 1 ELSE 0
  IN [dump EXCEPT
        !.count = 1 + on,
        !.density = [i \in 1 .. 2 |-> ComponentDensity(blocks)],
        !.extent["bios"] = BiosExtent(DescriptorBlocks + on * GbeBlocks, blocks),
        !.extent["gbe"] = IF hasGbe THEN GbeExtent ELSE Removed,
        !.integratedGbe = on,
        !.lanPhy = on]

-----------------------------------------------------------------------------
(* What a descriptor for libreboot must be                                 *)

Regions(d) == {r \in Region : Present(d, r)}

(* The regions follow each other from the first block of the image to the  *)
(* last, without overlap.                                                  *)
LayoutSound(d, blocks) ==
  /\ \A r, q \in Regions(d) : r # q => Last(d, r) < First(d, q) \/ Last(d, q) < First(d, r)
  /\ \A r \in Regions(d) :
       /\ First(d, r) = 0 \/ \E q \in Regions(d) : First(d, r) = Last(d, q) + 1
       /\ Last(d, r) < blocks
  /\ \E r \in Regions(d) : Last(d, r) = blocks - 1

(* The management engine is off, owns nothing and reaches nothing; the     *)
(* host reaches everything.                                                *)
MeGone(d) ==
  /\ d.meOff /\ d.tpmOff
  /\ ~Present(d, "me") /\ ~Present(d, "pd")
  /\ d.access["me"] = [read |-> {}, write |-> {}]
  /\ d.access["host"] = [read |-> Region, write |-> Region]

(* The straps, the number of regions and the regions agree on the NIC.     *)
NicConsistent(d) ==
  /\ DefinesGbeRegion(d) <=> Present(d, "gbe")
  /\ d.integratedGbe = d.lanPhy
  /\ d.count = IF DefinesGbeRegion(d) THEN 2 ELSE 1
=============================================================================
