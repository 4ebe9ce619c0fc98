-------------------------------- MODULE Ich9Tools --------------------------------
(***************************************************************************)
(* ich9deblob, demefactory and ich9gen (projects/ich9gen): what they read, *)
(* the files they leave in the working directory, and the way back of the  *)
(* C code they generate into ich9gen itself.                               *)
(*                                                                         *)
(* ich9deblob frees the descriptor and GbE region of a dump, factory.rom,  *)
(* and dumps them as C code; the user puts that code into src/ich9gen,     *)
(* builds, and ich9gen then generates them without the dump, with another  *)
(* MAC address if one is given.  A file is removed, opened and written     *)
(* anew, and a tool may fail or be killed at any of its files.             *)
(***************************************************************************)
EXTENDS Ich9Descriptor, Functions, Sequences

CONSTANTS
  Rom,         \* the factory dumps of the user's machines: see RomImage
  Address,     \* arguments of --macaddress, sequences of characters
  Colon,       \* the character ':'; a hexadecimal digit is its value
  Default,     \* the code ich9gen is shipped with: [dump, gbe]
  FaultBound,
  Missing, Torn, None

Word  == 0 .. 65535
Digit == 0 .. 15

(* A 4 KiB GbE region: the words of the MAC address, the sum of the other  *)
(* words before the checksum, the checksum, and whether the rest is 0xFF.  *)
Gbe4k == [mac : [1 .. 3 -> Word], rest : Word, checkSum : Word,
          padded : BOOLEAN]
Gbe8k == [main : Gbe4k, backup : Gbe4k]

(* A dump: it starts with its descriptor, has room for a BIOS after what   *)
(* the tools put there, and 13 bits number its blocks.                     *)
RomImage == [fd : Descriptor, blocks : 4 .. 8192, gbe : Gbe8k]

ASSUME RomAssumption ==
  \A rom \in Rom :
    /\ rom \in RomImage
    /\ rom.fd.extent["fd"] = [base |-> 0, limit |-> 0]

ASSUME FaultAssumption == FaultBound \in Nat

VARIABLES
  factory,  \* factory.rom, or Missing
  file,     \* the contents of the other files of the working directory
  built,    \* the code in the ich9gen that was built last
  tool,     \* the running, or last, tool
  address,  \* its --macaddress argument, or None
  todo,     \* the files it has left to write, <<>> when idle
  invited,  \* code files the tool told the user to put into src/ich9gen
  outcome,  \* how it ended
  faults

vars == <<factory, file, built, tool, address, todo, invited, outcome, faults>>

Binary == {"deblobbed_descriptor", "ich9fdgbe_4m", "ich9fdgbe_8m", "ich9fdgbe_16m",
           "deblobbed_4kdescriptor", "ich9fdnogbe_4m", "ich9fdnogbe_8m",
           "ich9fdnogbe_16m", "demefactory_4kdescriptor"}
Code == {"mkdescriptor", "mkgbe"}

BlocksOf == [ich9fdgbe_4m |-> 1024, ich9fdnogbe_4m |-> 1024,
             ich9fdgbe_8m |-> 2048, ich9fdnogbe_8m |-> 2048,
             ich9fdgbe_16m |-> 4096, ich9fdnogbe_16m |-> 4096]
WithGbe == {"deblobbed_descriptor", "ich9fdgbe_4m", "ich9fdgbe_8m", "ich9fdgbe_16m"}

-----------------------------------------------------------------------------
(* The GbE region                                                          *)

\* GBECHECKSUMTOTAL, 0xBABA.
ChecksumTotal == 47802
Total(g) == g.mac[1] + g.mac[2] + g.mac[3] + g.rest
\* Mutant: the sum is kept in more than 16 bits.
ChecksumWide(g) == ChecksumTotal - Total(g)

Checksum(g) == (ChecksumTotal - Total(g)) % 65536
Summed(g) == (Total(g) + g.checkSum) % 65536 = ChecksumTotal

(* The code ich9gen is shipped with is that of a deblobbed descriptor; its *)
(* checksum is a literal (mkgbe.c:240), and nothing is assumed of it.      *)
ASSUME DefaultAssumption ==
  /\ Default \in [dump : Descriptor, gbe : Gbe4k]
  /\ Default.dump.extent["fd"] = [base |-> 0, limit |-> 0]
  /\ MeGone(Default.dump)

SummedOrShipped(g) == Summed(g) \/ g = Default.gbe

Fixed(g) == [g EXCEPT !.checkSum = Checksum(g)]
WithAddress(g, mac) == Fixed([g EXCEPT !.mac = mac])
Twice(g) == [main |-> g, backup |-> g]

\* Mutant: the main region, broken as the factory shipped it, stays.
DeblobbedGbeKeepsMain(g) ==
  [g EXCEPT !.backup = Fixed([@ EXCEPT !.padded = TRUE])]

DeblobbedGbe(g) == Twice(Fixed([g.backup EXCEPT !.padded = TRUE]))

-----------------------------------------------------------------------------
(* The argument of --macaddress                                            *)

\* The loop over the separators starts at 2 and ends before 14 (from 0).
Separators == {3, 6, 9, 12}
Digits == {3 * i + j : i \in 0 .. 5, j \in 1 .. 2}
Accepted(a) ==
  /\ Len(a) = 17
  /\ \A i \in Separators : a[i] = Colon
  /\ \A i \in Digits : a[i] \in Digit

Byte(a, i) == 16 * a[3 * i + 1] + a[3 * i + 2]
MacOf(a) == [w \in 1 .. 3 |-> Byte(a, 2 * w - 2) + 256 * Byte(a, 2 * w - 1)]

-----------------------------------------------------------------------------
(* What the running tool writes                                            *)

FactoryFd == Deblobbed(factory.fd, factory.blocks)
FactoryGbe == DeblobbedGbe(factory.gbe)

\* Mutant: the new address goes to the code and not to the images.
GeneratedGbeAsBuilt == Twice(built.gbe)

GeneratedGbe ==
  Twice(IF address = None THEN built.gbe ELSE WithAddress(built.gbe, MacOf(address)))

(* The dumps as C code give every field literally.                         *)
DescriptorCode == IF tool = "ich9deblob" THEN FactoryFd ELSE Demed(factory.fd)
GbeCode == IF tool = "ich9deblob" THEN FactoryGbe.backup ELSE GeneratedGbe.backup

Image(fd, gbe, blocks) == [fd |-> fd, gbe |-> gbe, blocks |-> blocks]

Content(name) ==
  CASE name = "deblobbed_descriptor" -> Image(FactoryFd, FactoryGbe, factory.blocks)
    [] name = "deblobbed_4kdescriptor" -> Image(FactoryFd, None, factory.blocks)
    [] name = "demefactory_4kdescriptor" -> Image(Demed(factory.fd), None, factory.blocks)
    [] name = "mkdescriptor" -> DescriptorCode
    [] name = "mkgbe" -> GbeCode
    [] name \in DOMAIN BlocksOf ->
         Image(Generated(built.dump, BlocksOf[name], name \in WithGbe),
               IF name \in WithGbe THEN GeneratedGbe ELSE None,
               BlocksOf[name])

-----------------------------------------------------------------------------

Init ==
  /\ factory \in Rom \cup {Missing}
  /\ file = [name \in Binary \cup Code |-> Missing]
  /\ built = Default
  /\ tool = "ich9gen"
  /\ address = None
  /\ todo = <<>>
  /\ invited = {}
  /\ outcome = "none"
  /\ faults = FaultBound

Idle == todo = <<>>

Run(name, argument, files) ==
  /\ Idle
  /\ tool' = name
  /\ address' = argument
  /\ todo' = files
  /\ outcome' = IF files = <<>> THEN "failed" ELSE "running"
  /\ invited' = {}
  /\ UNCHANGED <<factory, file, built, faults>>

(* The GbE region is read where the descriptor says it is.                 *)
Readable == First(factory.fd, "gbe") + GbeBlocks <= factory.blocks

Ich9deblob ==
  Run("ich9deblob", None,
      CASE factory = Missing -> <<>>
        [] factory # Missing /\ ~DefinesGbeRegion(factory.fd) ->
             <<"deblobbed_4kdescriptor", "mkdescriptor">>
        [] factory # Missing /\ DefinesGbeRegion(factory.fd) ->
             IF Readable
               THEN <<"deblobbed_descriptor", "mkdescriptor", "mkgbe">>
               ELSE <<>>)

Demefactory ==
  Run("demefactory", None,
      IF factory = Missing THEN <<>>
      ELSE <<"demefactory_4kdescriptor", "mkdescriptor">>)

Images == <<"ich9fdgbe_4m", "ich9fdgbe_8m", "ich9fdgbe_16m",
            "ich9fdnogbe_4m", "ich9fdnogbe_8m", "ich9fdnogbe_16m">>

Ich9gen(argument) ==
  Run("ich9gen", argument,
      CASE argument = None -> Images
        [] argument # None /\ Accepted(argument) -> <<"mkgbe">> \o Images
        [] argument # None /\ ~Accepted(argument) -> <<>>)

(* What the tool says once its last code file is written: demefactory      *)
(* dumps code too, and asks nobody to use it.                              *)
Invitation ==
  CASE tool = "ich9deblob" /\ DefinesGbeRegion(factory.fd) -> Code
    [] tool = "ich9deblob" /\ ~DefinesGbeRegion(factory.fd) -> {"mkdescriptor"}
    [] tool = "demefactory" -> {}
    [] tool = "ich9gen" -> IF address = None THEN {} ELSE {"mkgbe"}

WriteFile ==
  /\ ~Idle
  /\ file' = [file EXCEPT ![Head(todo)] = Content(Head(todo))]
  /\ todo' = Tail(todo)
  /\ outcome' = IF Tail(todo) = <<>> THEN "ok" ELSE outcome
  /\ invited' = IF Range(Tail(todo)) \cap Code = {} THEN Invitation ELSE invited
  /\ UNCHANGED <<factory, built, tool, address, faults>>

Interrupt ==
  /\ ~Idle
  /\ faults > 0
  /\ faults' = faults - 1
  /\ \E left \in {file[Head(todo)], Missing, Torn} :
       file' = [file EXCEPT ![Head(todo)] = left]
  /\ todo' = <<>>
  /\ outcome' = "failed"
  /\ UNCHANGED <<factory, built, tool, address, invited>>

\* Mutant: all the code that lies around is taken.
PlaceAll ==
  /\ Idle /\ invited # {}
  /\ built' = [dump |-> IF file["mkdescriptor"] \in {Missing, Torn}
                          THEN built.dump ELSE file["mkdescriptor"],
               gbe  |-> IF file["mkgbe"] \in {Missing, Torn}
                          THEN built.gbe ELSE file["mkgbe"]]
  /\ invited' = {}
  /\ UNCHANGED <<factory, file, tool, address, todo, outcome, faults>>

(* "place them in src/ich9gen/ and re-build ich9gen."                      *)
Place ==
  /\ Idle /\ invited # {}
  /\ built' = [dump |-> IF "mkdescriptor" \in invited
                          THEN file["mkdescriptor"] ELSE built.dump,
               gbe  |-> IF "mkgbe" \in invited THEN file["mkgbe"] ELSE built.gbe]
  /\ invited' = {}
  /\ UNCHANGED <<factory, file, tool, address, todo, outcome, faults>>

(* The user dumps another machine.                                         *)
Dump(rom) ==
  /\ Idle
  /\ factory' = rom
  /\ UNCHANGED <<file, built, tool, address, todo, invited, outcome, faults>>

Next ==
  \/ Ich9deblob \/ Demefactory
  \/ \E a \in Address \cup {None} : Ich9gen(a)
  \/ WriteFile \/ Interrupt \/ Place
  \/ \E rom \in Rom : Dump(rom)

Spec == Init /\ [][Next]_vars

-----------------------------------------------------------------------------
(* Properties                                                              *)

FileContent(name) ==
  {Missing, Torn} \cup
  CASE name = "mkdescriptor" -> Descriptor
    [] name = "mkgbe" -> Gbe4k
    [] name \in WithGbe -> [fd : Descriptor, gbe : Gbe8k, blocks : 4 .. 8192]
    [] name \in Binary \ WithGbe -> [fd : Descriptor, gbe : {None}, blocks : 4 .. 8192]

(* Types; the code that is built is always a complete dump.                *)
TypeOK ==
  /\ factory \in Rom \cup {Missing}
  /\ DOMAIN file = Binary \cup Code
  /\ \A name \in Binary \cup Code : file[name] \in FileContent(name)
  /\ built \in [dump : Descriptor, gbe : Gbe4k]
  /\ tool \in {"ich9deblob", "demefactory", "ich9gen"}
  /\ address \in Address \cup {None}
  /\ Range(todo) \subseteq Binary \cup Code
  /\ invited \subseteq Code
  /\ outcome \in {"none", "running", "failed", "ok"}
  /\ faults \in 0 .. FaultBound

Images12k == {name \in WithGbe : file[name] \notin {Missing, Torn}}
ImagesFree == {name \in Binary \ {"demefactory_4kdescriptor"} :
                 file[name] \notin {Missing, Torn}}

(* Every complete image that ich9deblob or ich9gen leaves, whatever dumps  *)
(* and generated code came before it, lays the regions out without gap or  *)
(* overlap over a chip of its size, leaves the management engine nothing,  *)
(* and has a GbE region exactly if it is one of the 12 KiB files           *)
(* (librebootDescriptorStructFromFactory, generatedDescriptorStruct).      *)
ImagesSound ==
  \A name \in ImagesFree :
    LET image == file[name]
    IN /\ LayoutSound(image.fd, image.blocks)
       /\ MeGone(image.fd)
       /\ NicConsistent(image.fd)
       /\ DefinesGbeRegion(image.fd) <=> name \in WithGbe

(* Both halves of the GbE region next to a descriptor are the same and sum *)
(* to 0xBABA, though the factory's main half may be broken and the address *)
(* may have been changed several times, through the generated code         *)
(* (deblobbedGbeStructFromFactory; ich9gen.c, "Fix the checksum").  Only   *)
(* the region of the repository's own code is passed on as it is.          *)
GbeSound ==
  \A name \in Images12k :
    LET gbe == file[name].gbe
    IN gbe.main = gbe.backup /\ SummedOrShipped(gbe.main)

(* An ich9gen that ended well has put the address it was given into each   *)
(* of its three GbE images, "with the Gbe checksum updated to match"       *)
(* (docs/hardware/gm45_remove_me.md:72), whatever code it was built from.  *)
AddressUsed ==
  outcome = "ok" /\ tool = "ich9gen" /\ address # None =>
    \A name \in WithGbe \cap DOMAIN BlocksOf :
      /\ file[name].gbe.backup.mac = MacOf(address)
      /\ Summed(file[name].gbe.backup)

(* "C code that will recreate the deblobbed descriptor+gbe from scratch"   *)
(* (ich9deblob.c): for a chip of the size of the dump, the code ich9deblob *)
(* leaves generates the image it leaves next to it, all but the densities, *)
(* which the generated code takes from the size.                           *)
Recreates ==
  outcome = "ok" /\ tool = "ich9deblob" =>
    LET dump   == file["mkdescriptor"]
        hasGbe == DefinesGbeRegion(dump)
        image  == file[IF hasGbe THEN "deblobbed_descriptor"
                                 ELSE "deblobbed_4kdescriptor"]
        again  == Generated(dump, image.blocks, hasGbe)
    IN /\ again = [image.fd EXCEPT !.density = again.density]
       /\ hasGbe => image.gbe = Twice(file["mkgbe"])

Valid(a) ==
  /\ Len(a) = 17
  /\ \A i \in 1 .. 17 : IF i % 3 = 0 THEN a[i] = Colon ELSE a[i] \in Digit

(* "if the user provides an invalid MAC address, then ich9gen will exit"   *)
(* (ich9gen.c): no image is written for an address that is not one.        *)
InvalidAddressExits ==
  tool = "ich9gen" /\ address # None /\ todo # <<>> => Valid(address)
=============================================================================
