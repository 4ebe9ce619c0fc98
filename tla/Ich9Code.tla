-------------------------------- MODULE Ich9Code --------------------------------
(***************************************************************************)
(* The C code that the tools of projects/ich9gen write and are built from, *)
(* member by member: notCreatedCFileFromDescriptorStruct and               *)
(* notCreatedCFileFromGbeStruct4k print an assignment for each member of a *)
(* struct, and mkdescriptor.c and mkgbe.c are what they once printed.      *)
(* A member that no assignment names holds what was on the stack.          *)
(*                                                                         *)
(* Ich9Tools models the files of the same tools, their failures and the    *)
(* arguments they refuse, over the fields of Ich9Descriptor; here a tool   *)
(* runs in one step, and all 4 KiB of a descriptor, the 8 KiB of a GbE     *)
(* region and their places in memory are modelled.  A struct is a function *)
(* from the names of its members to their values.  The contents of a       *)
(* padding array are one value, 255 if all its bytes are 0xFF.             *)
(***************************************************************************)
EXTENDS Ich9Layout, FiniteSets

CONSTANTS
  Factory,   \* factory dumps: [fd, gbe, blocks]
  Address,   \* addresses given to ich9gen, functions from "0" .. "5" to bytes
  Garbage,   \* what a member holds that was never assigned
  None

\* The same descriptors, as the fields that Ich9Tools keeps.
D == INSTANCE Ich9Descriptor

VARIABLES
  abi,       \* of the compiler and machine the tools are built with and for
  factory,   \* factory.rom
  built,     \* the code ich9gen was built from: [fd, gbe]
  tool,      \* the last tool
  image,     \* the images it wrote: a function from their names
  dumped,    \* the code it wrote: [fd, gbe]
  outcome

vars == <<abi, factory, built, tool, image, dumped, outcome>>

ByName(members) ==
  [n \in {members[i].name : i \in DOMAIN members} |->
     members[CHOOSE i \in DOMAIN members : members[i].name = n]]
FdMember  == ByName(Declared["DESCRIPTORREGIONRECORD"])
GbeMember == ByName(Declared["GBEREGIONRECORD_4K"])

In(prefix, names)  == {prefix \o <<n>> : n \in names}
At(prefix, values) ==
  [n \in In(prefix, DOMAIN values) |-> values[n[Len(prefix) + 1]]]
Each(names, value) == [n \in names |-> value]

(* Arrays are indexed from 0, by name.                                     *)
Indices(n) == {ToString(i) : i \in 0 .. n - 1}
ArrayOf(values) ==
  [n \in Indices(Len(values)) |->
     values[CHOOSE i \in DOMAIN values : ToString(i - 1) = n]]

-----------------------------------------------------------------------------
(* Generated code: what it assigns to each member it names, a literal or   *)
(* an expression over the arguments, and to how many of its elements.      *)

Literal(value, count) == [by |-> "literal", value |-> value, count |-> count]
From(argument)        == [by |-> argument, value |-> 0, count |-> 1]

Argument(blocks, hasGbe) ==
  [regions   |-> IF hasGbe THEN 2 ELSE 1,
   density   |-> D!ComponentDensity(blocks),
   biosBase  |-> D!DescriptorBlocks + IF hasGbe THEN D!GbeBlocks ELSE 0,
   biosLimit |-> blocks - 1,
   gbeBase   |-> IF hasGbe THEN D!DescriptorBlocks ELSE 8191,
   gbeLimit  |-> IF hasGbe THEN D!GbeBlocks ELSE 0,
   onboard   |-> IF hasGbe THEN 1 ELSE 0]

(* The members that are computed from an argument, with its name.          *)
Computed ==
  {<<<<"flMaps", "flMap0", "NR">>, "regions">>,
   <<<<"componentSection", "flcomp", "component1Density">>, "density">>,
   <<<<"componentSection", "flcomp", "component2Density">>, "density">>,
   <<<<"regionSection", "flReg1", "BASE">>, "biosBase">>,
   <<<<"regionSection", "flReg1", "LIMIT">>, "biosLimit">>,
   <<<<"regionSection", "flReg3", "BASE">>, "gbeBase">>,
   <<<<"regionSection", "flReg3", "LIMIT">>, "gbeLimit">>,
   <<<<"ichStraps", "ichStrap0", "integratedGbe">>, "onboard">>,
   <<<<"ichStraps", "ichStrap0", "lanPhy">>, "onboard">>}
ByArguments ==
  [n \in {c[1] : c \in Computed} |-> From((CHOOSE c \in Computed : c[1] = n)[2])]

(* A literal keeps the bits that fit into its member.                      *)
Held(m, value) == IF m.bits < 31 THEN value % 2^m.bits ELSE value

(* What a function with this code returns for these arguments.             *)
Returned(members, code, argument) ==
  [n \in DOMAIN members |->
     IF n \notin DOMAIN code \/ code[n].count # members[n].count THEN Garbage
     ELSE Held(members[n], IF code[n].by = "literal" THEN code[n].value
                           ELSE argument[code[n].by])]

GeneratedDescriptorStruct(code, blocks, hasGbe) ==
  Returned(FdMember, code, Argument(blocks, hasGbe))
GeneratedGbeStruct4k(code) == Returned(GbeMember, code, <<>>)
GeneratedGbeStruct8k(code) ==
  [main |-> GeneratedGbeStruct4k(code), backup |-> GeneratedGbeStruct4k(code)]

-----------------------------------------------------------------------------
(* notCreatedCFileFromDescriptorStruct, section by section                 *)

MapsWritten ==
  In(<<"flValSig">>, {"signature"})
  \cup In(<<"flMaps", "flMap0">>, {"FCBA", "NC", "reserved1", "FRBA", "reserved2"})
  \cup In(<<"flMaps", "flMap1">>, {"FMBA", "NM", "reserved", "FISBA", "ISL"})
  \cup In(<<"flMaps", "flMap2">>, {"FMSBA", "MSL", "reserved"})

ComponentWritten ==
  In(<<"componentSection", "flcomp">>,
     {"reserved1", "reserved2", "reserved3", "readClockFrequency", "fastReadSupport",
      "fastreadClockFrequency", "writeEraseClockFrequency", "readStatusClockFrequency",
      "reserved4"})
  \cup In(<<"componentSection">>, {"flill", "flpb"})

Register == {"BASE", "reserved1", "LIMIT", "reserved2"}
RegionWritten ==
  In(<<"regionSection", "flReg0">>, Register)
  \cup In(<<"regionSection", "flReg1">>, {"reserved1", "reserved2"})
  \cup In(<<"regionSection", "flReg2">>, Register)
  \cup In(<<"regionSection", "flReg3">>, {"reserved1", "reserved2"})
  \cup In(<<"regionSection", "flReg4">>, Register)

Accesses == Range(ReadAccess) \cup Range(WriteAccess)

MasterWritten ==
  UNION {In(<<"masterAccessSection", m>>,
            Accesses \cup {"requesterId", "reserved1", "reserved2"}) :
           m \in {"flMstr1", "flMstr2", "flMstr3"}}

StrapsWritten ==
  In(<<"ichStraps", "ichStrap0">>,
     {"meDisable", "reserved1", "tcoMode", "smBusAddress", "bmcMode", "tripPointSelect",
      "reserved2", "reserved3", "dmiRequesterId", "smBus2Address"})
  \cup In(<<"ichStraps", "ichStrap1">>,
          {"northMlink", "southMlink", "meSmbus", "sstDynamic", "reserved1",
           "northMlink2", "reserved2", "reserved3"})
  \cup In(<<"mchStraps", "mchStrap0">>,
          {"meDisable", "meBootFromFlash", "tpmDisable", "reserved1", "spiFingerprint",
           "meAlternateDisable", "reserved2", "reserved3"})

TailWritten ==
  In(<<"meVsccTable">>, {"jid0", "vscc0", "jid1", "vscc1", "jid2", "vscc2"})
  \cup In(<<"descriptor2Map">>,
          {"meVsccTableBaseAddress", "meVsccTableLength", "reserved"})
  \cup In(<<"oemSection", "magicString">>, Indices(8))

(* A loop if all bytes are 0xFF, and an assignment to each byte otherwise. *)
PaddingWritten ==
  [componentSection |-> 36, regionSection |-> 12, masterAccessSection |-> 148,
   ichStraps |-> 248, mchStraps |-> 3292, meVsccTable |-> 4, oemSection |-> 248]

Paddings == {<<s, "padding">> : s \in DOMAIN PaddingWritten}
DescriptorWritten ==
  MapsWritten \cup ComponentWritten \cup RegionWritten \cup MasterWritten
  \cup StrapsWritten \cup TailWritten \cup Paddings \cup DOMAIN ByArguments
\* Mutant: a line that was copied prints the member of the line above.
DescriptorCodeCopied(d) ==
  LET copied == <<"flMaps", "flMap2", "FMSBA">>
  IN [n \in DescriptorWritten |->
        IF n \in DOMAIN ByArguments THEN ByArguments[n]
        ELSE Literal(d[IF n = copied THEN <<"flMaps", "flMap1", "FISBA">> ELSE n],
                     IF n \in Paddings THEN PaddingWritten[n[1]] ELSE 1)]

DescriptorCode(d) ==
  [n \in DescriptorWritten |->
     IF n \in DOMAIN ByArguments THEN ByArguments[n]
     ELSE Literal(d[n], IF n \in Paddings THEN PaddingWritten[n[1]] ELSE 1)]

-----------------------------------------------------------------------------
(* notCreatedCFileFromGbeStruct4k                                          *)

FirstWordsWritten ==
  In(<<"macAddress">>, Indices(6))
  \cup In(<<"reservedWord03h">>, {"reserved1_0", "reserved1_1", "ibaLom", "reserved2"})
  \cup In(<<>>, {"reservedWord04h", "imageVersionInformation"})
  \cup In(<<"reservedWords06h07h">>, Indices(2))
  \cup In(<<>>, {"pbaLow", "pbaHigh"})
  \cup In(<<"pciInitializationControlWord">>,
          {"loadVendorDeviceId", "loadSubsystemId", "reserved1", "reserved2", "pmEnable",
           "auxPwr", "reserved3", "reserved4"})
  \cup In(<<>>, {"subsystemId", "subsystemVendorId", "deviceId", "vendorId", "deviceRevId"})

ControlWordsWritten ==
  In(<<"lanPowerConsumption">>, {"lanD3Power", "reserved", "lanD0Power"})
  \cup In(<<"reservedWords11h12h">>, Indices(2))
  \cup In(<<"sharedInitializationControlWord">>,
          {"reserved1", "forceDuplex", "forceSpeedEnable", "reserved2_0", "reserved2_1",
           "phyPowerDownEnable", "reserved3", "reserved4", "sign"})
  \cup In(<<"extendedConfigurationControlWord1">>,
          {"extendedConfigurationPointer", "oemWriteEnable", "reserved1", "reserved2",
           "reserved3"})
  \cup In(<<"extendedConfigurationControlWord2">>, {"reserved", "extendedPhyLength"})
  \cup In(<<>>, {"extendedConfigurationControlWord3"})

LedWordsWritten ==
  In(<<"ledCtl1">>,
     {"led1Mode", "reserved1", "led1BlinkMode", "led1Invert", "led1Blink", "reserved2",
      "lpluEnable", "lpluEnableNonD0a", "gbeDisableNonD0a", "reserved3", "gbeDisable",
      "reserved4"})
  \cup In(<<"ledCtl02">>,
          {"led0Mode", "reserved1", "led0BlinkMode", "led0Invert", "led0Blink",
           "led2Mode", "reserved2", "led2BlinkMode", "led2Invert", "led2Blink"})

ReservedWordsWritten ==
  In(<<>>, {"reservedWord19h", "reservedWord1Ah", "reservedWord1Bh", "reservedWord1Ch",
            "reservedWord1Dh", "_82567lmDeviceId", "_82567lfDeviceId", "reservedWord20h",
            "_82567vDeviceId", "reservedWord22h", "reservedWord23h"})
  \cup In(<<"reservedWords24to2Fh">>, Indices(12))

PxeWordsWritten ==
  In(<<"pxeSoftwareRegion", "bootAgentMainSetupOptions">>,
     {"protocolSelect", "reserved1", "defaultBootSelection", "reserved2", "promptTime",
      "displaySetupMessage", "reserved3", "forceSpeed", "forceFullDuplex", "reserved4",
      "efiPresence", "pxePresence"})
  \cup In(<<"pxeSoftwareRegion", "bootAgentConfigurationCustomizationOptions31h">>,
          {"disableSetupMenu", "disableTitleMessage", "disableProtocolSelect",
           "disableBootSelection", "disableLegacyWakeupSupport", "disableFlashUpdate",
           "reserved1", "ibaBootOrderSetupMode", "reserved2", "signature"})
  \cup In(<<"pxeSoftwareRegion", "bootAgentConfigurationCustomizationOptions32h">>,
          {"buildNumber", "minorVersionNumber", "majorVersionNumber"})
  \cup In(<<"pxeSoftwareRegion", "ibaCapabilities">>,
          {"baseCodePresent", "undiCapabilityPresent", "reserved1",
           "efiUndiCapabilityPresent", "reserved2_0", "reserved2_1", "signature"})
  \cup In(<<"pxeSoftwareRegion", "paddingWords34hTo3Eh">>, Indices(11))

GbeWritten ==
  FirstWordsWritten \cup ControlWordsWritten \cup LedWordsWritten
  \cup ReservedWordsWritten \cup PxeWordsWritten \cup In(<<>>, {"checkSum", "padding"})

\* Mutant: only the first byte of the padding is assigned.
GbeCodePaddingOnce(g) == [n \in GbeWritten |-> Literal(g[n], 1)]

(* The padding's size is asked of the compiler, not written down.          *)
GbeCode(g) ==
  [n \in GbeWritten |->
     Literal(g[n], IF n = <<"padding">> THEN GbeMember[n].count ELSE 1)]

-----------------------------------------------------------------------------
(* ich9gen/mkdescriptor.c                                                  *)

ShippedMap1 == [FMBA |-> 6, NM |-> 2, reserved |-> 0, FISBA |-> \h10, ISL |-> 2]
ShippedMaps ==
  At(<<"flValSig">>, [signature |-> \h0ff0a55a])
  @@ At(<<"flMaps", "flMap0">>,
        [FCBA |-> 1, NC |-> 0, reserved1 |-> 0, FRBA |-> 4, reserved2 |-> 0])
  @@ At(<<"flMaps", "flMap1">>, ShippedMap1)
  @@ At(<<"flMaps", "flMap2">>, [FMSBA |-> \h20, MSL |-> 1, reserved |-> 0])

ShippedComponents ==
  At(<<"componentSection", "flcomp">>,
     [fastReadSupport |-> 1, fastreadClockFrequency |-> 1]
     @@ Each({"reserved1", "reserved2", "reserved3", "readClockFrequency",
              "writeEraseClockFrequency", "readStatusClockFrequency", "reserved4"}, 0))
  @@ At(<<"componentSection">>, [flill |-> 0, flpb |-> 0])

Gone == [BASE |-> \h1fff] @@ Each(Register, 0)
ShippedRegions ==
  At(<<"regionSection", "flReg0">>, Each(Register, 0))
  @@ At(<<"regionSection", "flReg1">>, Each({"reserved1", "reserved2"}, 0))
  @@ At(<<"regionSection", "flReg2">>, Gone)
  @@ At(<<"regionSection", "flReg3">>, Each({"reserved1", "reserved2"}, 0))
  @@ At(<<"regionSection", "flReg4">>, Gone)

Unset == Each(Accesses \cup {"requesterId", "reserved1", "reserved2"}, 0)
ShippedMasters ==
  At(<<"masterAccessSection", "flMstr1">>, Each(Accesses, 1) @@ Unset)
  @@ At(<<"masterAccessSection", "flMstr2">>, Unset)
  @@ At(<<"masterAccessSection", "flMstr3">>,
        [requesterId |-> \h0218, gbeRegionReadAccess |-> 1, gbeRegionWriteAccess |-> 1]
        @@ Unset)

ShippedStraps ==
  At(<<"ichStraps", "ichStrap0">>,
     [meDisable |-> 1, reserved1 |-> 4, tcoMode |-> 1, smBusAddress |-> \h64]
     @@ Each({"bmcMode", "tripPointSelect", "reserved2", "reserved3", "dmiRequesterId",
              "smBus2Address"}, 0))
  @@ At(<<"ichStraps", "ichStrap1">>,
        Each({"northMlink", "southMlink", "meSmbus", "sstDynamic", "northMlink2"}, 1)
        @@ Each({"reserved1", "reserved2", "reserved3"}, 0))
  @@ At(<<"mchStraps", "mchStrap0">>,
        [meDisable |-> 1, meBootFromFlash |-> 0, tpmDisable |-> 1, reserved1 |-> 7,
         spiFingerprint |-> 1, meAlternateDisable |-> 0, reserved2 |-> \hff,
         reserved3 |-> \hffff])

(* ASCII of the string the tools are named after: LIBERATE.                *)
Liberate == << \h4c, \h49, \h42, \h45, \h52, \h41, \h54, \h45 >>
ShippedTail ==
  At(<<"meVsccTable">>,
     [jid0 |-> \h001720c2, vscc0 |-> \h20052005, jid1 |-> \h001730ef,
      vscc1 |-> \h20052005, jid2 |-> \h0000481f, vscc2 |-> \h20152015])
  @@ At(<<"descriptor2Map">>,
        [meVsccTableBaseAddress |-> \hee, meVsccTableLength |-> 6, reserved |-> 0])
  @@ At(<<"oemSection", "magicString">>, ArrayOf(Liberate))

ShippedDescriptorCode ==
  LET values == ShippedMaps @@ ShippedComponents @@ ShippedRegions @@ ShippedMasters
                @@ ShippedStraps @@ ShippedTail
  IN [n \in DOMAIN values |-> Literal(values[n], 1)]
     @@ [n \in {<<s, "padding">> : s \in DOMAIN PaddingWritten} |->
           Literal(255, PaddingWritten[n[1]])]
     @@ ByArguments

-----------------------------------------------------------------------------
(* ich9gen/mkgbe.c                                                         *)

ShippedFirstWords ==
  At(<<"macAddress">>, ArrayOf(<< \h00, \hDE, \hAD, \hC0, \hFF, \hEE >>))
  @@ At(<<"reservedWord03h">>,
        [reserved1_0 |-> 0, reserved1_1 |-> 0, ibaLom |-> 1, reserved2 |-> 0])
  @@ At(<<>>, [reservedWord04h |-> \hffff, imageVersionInformation |-> \h1083,
               pbaLow |-> \h1008, pbaHigh |-> \hffff, subsystemId |-> \h20ee,
               subsystemVendorId |-> \h17aa, deviceId |-> \h10f5, vendorId |-> \h8086,
               deviceRevId |-> 0])
  @@ At(<<"reservedWords06h07h">>, Each(Indices(2), \hffff))
  @@ At(<<"pciInitializationControlWord">>,
        Each({"loadVendorDeviceId", "loadSubsystemId", "pmEnable", "auxPwr",
              "reserved4"}, 1)
        @@ Each({"reserved1", "reserved2", "reserved3"}, 0))

ShippedControlWords ==
  At(<<"lanPowerConsumption">>, [lanD3Power |-> 1, reserved |-> 0, lanD0Power |-> \h0d])
  @@ At(<<"reservedWords11h12h">>, Each(Indices(2), 0))
  @@ At(<<"sharedInitializationControlWord">>,
        [reserved1 |-> 5, phyPowerDownEnable |-> 1, reserved3 |-> 1, sign |-> 2]
        @@ Each({"forceDuplex", "forceSpeedEnable", "reserved2_0", "reserved2_1",
                 "reserved4"}, 0))
  @@ At(<<"extendedConfigurationControlWord1">>,
        [extendedConfigurationPointer |-> \h020, oemWriteEnable |-> 1, reserved1 |-> 1,
         reserved2 |-> 0, reserved3 |-> 0])
  @@ At(<<"extendedConfigurationControlWord2">>,
        [reserved |-> 0, extendedPhyLength |-> \h0a])
  @@ At(<<>>, [extendedConfigurationControlWord3 |-> 0])

ShippedLedWords ==
  At(<<"ledCtl1">>,
     [led1Mode |-> \hb]
     @@ Each({"led1Blink", "reserved2", "lpluEnableNonD0a", "gbeDisableNonD0a",
              "reserved4"}, 1)
     @@ Each({"reserved1", "led1BlinkMode", "led1Invert", "lpluEnable", "reserved3",
              "gbeDisable"}, 0))
  @@ At(<<"ledCtl02">>,
        [led0Mode |-> 2, led2Mode |-> 6]
        @@ Each({"reserved1", "led0BlinkMode", "led0Invert", "led0Blink", "reserved2",
                 "led2BlinkMode", "led2Invert", "led2Blink"}, 0))

ShippedReservedWords ==
  At(<<>>, [reservedWord19h |-> \h2b40, reservedWord1Ah |-> \h0043,
            reservedWord1Bh |-> 0, reservedWord1Ch |-> \h10f5,
            reservedWord1Dh |-> \hbaad, _82567lmDeviceId |-> \h10f5,
            _82567lfDeviceId |-> \h10bf, reservedWord20h |-> \hbaad,
            _82567vDeviceId |-> \h10cb, reservedWord22h |-> \hbaad,
            reservedWord23h |-> \hbaad])
  @@ At(<<"reservedWords24to2Fh">>, Each(Indices(12), 0))

ShippedPxeWords ==
  At(<<"pxeSoftwareRegion", "bootAgentMainSetupOptions">>,
     [displaySetupMessage |-> 1]
     @@ Each({"protocolSelect", "reserved1", "defaultBootSelection", "reserved2",
              "promptTime", "reserved3", "forceSpeed", "forceFullDuplex", "reserved4",
              "efiPresence", "pxePresence"}, 0))
  @@ At(<<"pxeSoftwareRegion", "bootAgentConfigurationCustomizationOptions31h">>,
        [signature |-> 1]
        @@ Each({"disableSetupMenu", "disableTitleMessage", "disableProtocolSelect",
                 "disableBootSelection", "disableLegacyWakeupSupport",
                 "disableFlashUpdate", "reserved1", "ibaBootOrderSetupMode",
                 "reserved2"}, 0))
  @@ At(<<"pxeSoftwareRegion", "bootAgentConfigurationCustomizationOptions32h">>,
        [buildNumber |-> \h18, minorVersionNumber |-> 3, majorVersionNumber |-> 1])
  @@ At(<<"pxeSoftwareRegion", "ibaCapabilities">>,
        Each({"baseCodePresent", "undiCapabilityPresent", "reserved1", "signature"}, 1)
        @@ Each({"efiUndiCapabilityPresent", "reserved2_0", "reserved2_1"}, 0))
  @@ At(<<"pxeSoftwareRegion", "paddingWords34hTo3Eh">>, Each(Indices(11), \hffff))

ShippedGbeCode ==
  LET values == ShippedFirstWords @@ ShippedControlWords @@ ShippedLedWords
                @@ ShippedReservedWords @@ ShippedPxeWords
                @@ At(<<>>, [checkSum |-> \h348a])
  IN [n \in DOMAIN values |-> Literal(values[n], 1)]
     @@ At(<<>>, [padding |-> Literal(255, 3968)])

-----------------------------------------------------------------------------
(* What the tools do to a descriptor (descriptor/descriptor.c)             *)

(* The other members keep their values.                                    *)
Changed(values, changes) ==
  [n \in DOMAIN values |-> IF n \in DOMAIN changes THEN changes[n] ELSE values[n]]
Set(values, prefix, changes) == Changed(values, At(prefix, changes))

Access(d, master, bit) == Set(d, <<"masterAccessSection", master>>, Each(Accesses, bit))
HostRegionsUnlocked(d) == Access(d, "flMstr1", 1)
MeRegionsForbidden(d)  == Access(d, "flMstr2", 0)

RegionAt(d, register, base, limit) ==
  Set(d, <<"regionSection", register>>, [BASE |-> base, LIMIT |-> limit])
RegionRemoved(d, register) == RegionAt(d, register, \h1fff, 0)

\* Mutant: only one of the two straps is set.
DisableMeInIch(d) == Set(d, <<"ichStraps", "ichStrap0">>, [meDisable |-> 1])
DisableMe(d) ==
  Set(Set(d, <<"ichStraps", "ichStrap0">>, [meDisable |-> 1]),
      <<"mchStraps", "mchStrap0">>, [meDisable |-> 1])
DisableTpm(d) == Set(d, <<"mchStraps", "mchStrap0">>, [tpmDisable |-> 1])
OemString(d)  == Set(d, <<"oemSection", "magicString">>, ArrayOf(Liberate))

DefinesGbeRegion(d) ==
  LET gbe == <<"regionSection", "flReg3">>
      strap == <<"ichStraps", "ichStrap0">>
  IN /\ ~(d[gbe \o <<"BASE">>] \in {\h1fff, \hfff} /\ d[gbe \o <<"LIMIT">>] = 0)
     /\ d[strap \o <<"integratedGbe">>] # 0
     /\ d[strap \o <<"lanPhy">>] # 0

GbeBiosRegions(d, gbe, blocks) ==
  LET bit == IF gbe THEN 1 ELSE 0
      counted == Set(d, <<"flMaps", "flMap0">>, [NR |-> 1 + bit])
      strapped == Set(counted, <<"ichStraps", "ichStrap0">>,
                      [integratedGbe |-> bit, lanPhy |-> bit])
      moved == RegionAt(strapped, "flReg3", IF gbe THEN D!DescriptorBlocks ELSE \h1fff,
                        IF gbe THEN D!GbeBlocks ELSE 0)
  IN RegionAt(moved, "flReg1", D!DescriptorBlocks + bit * D!GbeBlocks, (blocks - 1) % 8192)
SetGbeBiosRegions(d, blocks) == GbeBiosRegions(d, DefinesGbeRegion(d), blocks)

DeblobbedFd(d, blocks) ==
  OemString(HostRegionsUnlocked(MeRegionsForbidden(DisableTpm(DisableMe(
    RegionRemoved(RegionRemoved(SetGbeBiosRegions(d, blocks), "flReg2"), "flReg4"))))))
DemedFd(d) == MeRegionsForbidden(HostRegionsUnlocked(DisableTpm(DisableMe(d))))

-----------------------------------------------------------------------------
(* And to a GbE region (gbe/gbe.c): the checksum is taken over the words   *)
(* the struct has in memory.                                               *)

ChecksumWords == 63

(* The weight of a bit of memory in the word it lies in.                   *)
Weight(a, bit) == IF a.bigEndian THEN (bit + 8) % 16 ELSE bit % 16

(* The bits that are set in the first words of a struct in memory.         *)
SetBits(a, g, words) ==
  LET placed == Range(LayoutOf[a, "GBEREGIONRECORD_4K"].placed)
  IN UNION {{BitOf(a, p, j) : j \in BitsSet(g[p.member.name])} :
              p \in {q \in placed : q.place < 16 * words}}

SumOfWords(a, g, words) ==
  LET bits == SetBits(a, g, words)
  IN MapThenSumSet(LAMBDA w : 2^w * Cardinality({b \in bits : Weight(a, b) = w}), 0 .. 15)

\* Mutants: the difference is not cut to 16 bits; the sum ends a word early.
ChecksumWide(a, g)  == \hBABA - SumOfWords(a, g, ChecksumWords)
ChecksumShort(a, g) == (\hBABA - SumOfWords(a, g, ChecksumWords - 1)) % 65536

Checksum(a, g) == (\hBABA - SumOfWords(a, g, ChecksumWords)) % 65536

Summed(a, g)   == Set(g, <<>>, [checkSum |-> Checksum(a, g)])
Twice(g)       == [main |-> g, backup |-> g]
DeblobbedGbe(a, g) == Twice(Summed(a, Set(g.backup, <<>>, [padding |-> 255])))
WithAddress(a, g, address) == Summed(a, Set(g.main, <<"macAddress">>, address))

-----------------------------------------------------------------------------
(* Structs, code and layouts as they should be, and assumptions            *)

Fits(members, value) ==
  /\ DOMAIN value = DOMAIN members
  /\ \A n \in DOMAIN members :
       value[n] \in IF members[n].bits < 31 THEN 0 .. 2^members[n].bits - 1 ELSE Nat

CodeOf(members, code) ==
  \A n \in DOMAIN code : code[n].count = members[n].count

(* Code for all members, as often as they have elements: it computes those *)
(* that depend on an argument and has what fits for the others.            *)
Complete(members, code) ==
  DOMAIN code = DOMAIN members /\ CodeOf(members, code)
LiteralFits(members, code, n) ==
  /\ code[n].by = "literal"
  /\ code[n].value \in IF members[n].bits < 31 THEN 0 .. 2^members[n].bits - 1 ELSE Nat
IsDescriptorCode(code) ==
  /\ Complete(FdMember, code)
  /\ \A n \in DOMAIN code :
       IF n \in DOMAIN ByArguments THEN code[n] = ByArguments[n]
       ELSE LiteralFits(FdMember, code, n)
IsGbeCode(code) ==
  Complete(GbeMember, code) /\ \A n \in DOMAIN code : LiteralFits(GbeMember, code, n)

(* The map of a descriptor points at its own sections: base addresses are  *)
(* in units of 16 bytes (FLMAP0 to FLMAP2 and Descriptor Map 2).           *)
Maps ==
  [componentSection    |-> <<"flMaps", "flMap0", "FCBA">>,
   regionSection       |-> <<"flMaps", "flMap0", "FRBA">>,
   masterAccessSection |-> <<"flMaps", "flMap1", "FMBA">>,
   ichStraps           |-> <<"flMaps", "flMap1", "FISBA">>,
   mchStraps           |-> <<"flMaps", "flMap2", "FMSBA">>,
   meVsccTable         |-> <<"descriptor2Map", "meVsccTableBaseAddress">>]

SectionPlaces(a) ==
  LET placed == Range(LayoutOf[a, "DESCRIPTORREGIONRECORD"].placed)
  IN [s \in DOMAIN Maps |-> Min({p.place : p \in {q \in placed : q.member.name[1] = s}})]
PlacesOf == [a \in Abi |-> SectionPlaces(a)]
MapsPoint(a, fd) == \A s \in DOMAIN Maps : 8 * 16 * fd[Maps[s]] = PlacesOf[a][s]

(* The checksum is the last of the words it is for, and no bit of another  *)
(* member lies in it.                                                      *)
ChecksumLast(a) ==
  LET placed == Range(LayoutOf[a, "GBEREGIONRECORD_4K"].placed)
      before == {p \in placed : p.place < 16 * ChecksumWords}
      last   == {p \in placed : p.place < 16 * (ChecksumWords + 1)} \ before
  IN /\ \E p \in last : last = {p}
     /\ \A p \in last :
          p.member.name = <<"checkSum">> /\ p.place = 16 * ChecksumWords /\ ~p.member.field
     /\ \A p \in before :
          /\ p.member.name \in DOMAIN GbeMember \ {<<"checkSum">>}
          /\ p.member.bits = GbeMember[p.member.name].bits
          /\ p.place \in Nat /\ p.place + p.member.bits <= 16 * ChecksumWords

Shipped == GeneratedGbeStruct4k(ShippedGbeCode)
Sums(g) == SumOfWords(abi, g, 64) % 65536 = \hBABA

(* A dump fits the structs that it is read into, starts with its           *)
(* descriptor and has room for a BIOS after what the tools put there, and  *)
(* 13 bits number its blocks.  ich9deblob reads the GbE region if the      *)
(* descriptor has one.                                                     *)
ASSUME FactoryAssumption ==
  \A rom \in Factory :
    /\ Fits(FdMember, rom.fd)
    /\ \A n \in In(<<"regionSection", "flReg0">>, {"BASE", "LIMIT"}) : rom.fd[n] = 0
    /\ rom.blocks \in 4 .. 8192
    /\ DefinesGbeRegion(rom.fd) =>
         Fits(GbeMember, rom.gbe.main) /\ Fits(GbeMember, rom.gbe.backup)
ASSUME AddressAssumption == Address \subseteq [Indices(6) -> 0 .. 255]
ASSUME NoneAssumption ==
  /\ None \notin Address
  /\ None \notin [main : [DOMAIN GbeMember -> Nat], backup : [DOMAIN GbeMember -> Nat]]

(* The tools take the sections of a descriptor to be where the structs     *)
(* have them, whatever its maps say; so they are, in these dumps.          *)
ASSUME MapsAssumption ==
  \A rom \in Factory, a \in Abi \ Incompatible : MapsPoint(a, rom.fd)

(* No constant occurs in the others: they say what the tables of this      *)
(* module and of Ich9Structs come to, which TLC computes.  Each member of  *)
(* the structs is written, as often as it has elements;                    *)
ASSUME WrittenAssumption ==
  /\ DOMAIN FdMember = DescriptorWritten /\ DOMAIN GbeMember = GbeWritten
  /\ \A n \in DescriptorWritten :
       FdMember[n].count = IF n \in Paddings THEN PaddingWritten[n[1]] ELSE 1
  /\ \A n \in GbeWritten \ {<<"padding">>} : GbeMember[n].count = 1

(* the members that the tools set have this many bits;                     *)
ASSUME BitsAssumption ==
  /\ \A n \in DOMAIN FdMember : FdMember[n].bits \in Nat
  /\ \A n \in DOMAIN GbeMember : GbeMember[n].bits \in 1 .. 16
  /\ FdMember[<<"flMaps", "flMap0", "NR">>].bits = 3
  /\ \A n \in In(<<"componentSection", "flcomp">>, {"component1Density", "component2Density"}) :
       FdMember[n].bits = 3
  /\ \A r \in {"flReg0", "flReg1", "flReg2", "flReg3", "flReg4"}, n \in {"BASE", "LIMIT"} :
       FdMember[<<"regionSection", r, n>>].bits = 13
  /\ \A m \in {"flMstr1", "flMstr2"}, n \in Accesses :
       FdMember[<<"masterAccessSection", m, n>>].bits = 1
  /\ \A n \in In(<<"ichStraps", "ichStrap0">>, {"integratedGbe", "lanPhy", "meDisable"})
            \cup In(<<"mchStraps", "mchStrap0">>, {"meDisable", "tpmDisable"}) :
       FdMember[n].bits = 1
  /\ \A n \in In(<<"oemSection", "magicString">>, Indices(8)) : FdMember[n].bits = 8
  /\ \A n \in In(<<"macAddress">>, Indices(6)) \cup {<<"padding">>} : GbeMember[n].bits = 8
  /\ GbeMember[<<"checkSum">>].bits = 16
  /\ \A i, j \in 0 .. 11 : ToString(i) = ToString(j) => i = j

(* the code of the repository is complete, and its maps are right;         *)
ASSUME ShippedAssumption ==
  /\ IsDescriptorCode(ShippedDescriptorCode) /\ IsGbeCode(ShippedGbeCode)
  /\ \A a \in Abi \ Incompatible, s \in DOMAIN Maps :
       8 * 16 * ShippedDescriptorCode[Maps[s]].value = PlacesOf[a][s]

(* and a layout that is let through has the words of the GbE region right. *)
ASSUME LayoutAssumption ==
  \A a \in Abi \ Incompatible : ~a.msbFirst /\ ChecksumLast(a)

-----------------------------------------------------------------------------

Default == [fd |-> ShippedDescriptorCode, gbe |-> ShippedGbeCode]
NoCode  == [fd |-> None, gbe |-> None]

Init ==
  /\ abi \in Abi
  /\ factory \in Factory
  /\ built = Default
  /\ tool = "ich9gen"
  /\ image = <<>>
  /\ dumped = NoCode
  /\ outcome = "none"

Ended(name, result) ==
  /\ tool' = name
  /\ outcome' = result
  /\ UNCHANGED <<abi, factory, built>>

(* The first thing any of the tools does; nothing is read or written.      *)
Refused(name) ==
  /\ abi \in Incompatible
  /\ Ended(name, "refused")
  /\ UNCHANGED <<image, dumped>>

Deblobbed(fd, gbe) ==
  IF DefinesGbeRegion(fd)
    THEN /\ image' = [deblobbed_descriptor |-> [fd |-> fd, gbe |-> gbe]]
         /\ dumped' = [fd |-> DescriptorCode(fd), gbe |-> GbeCode(gbe.backup)]
    ELSE /\ image' = [deblobbed_4kdescriptor |-> [fd |-> fd, gbe |-> None]]
         /\ dumped' = [fd |-> DescriptorCode(fd), gbe |-> None]

Ich9deblob ==
  /\ abi \notin Incompatible
  /\ Deblobbed(DeblobbedFd(factory.fd, factory.blocks), DeblobbedGbe(abi, factory.gbe))
  /\ Ended("ich9deblob", "ok")

Demed(fd) ==
  /\ image' = [demefactory_4kdescriptor |-> [fd |-> fd, gbe |-> None]]
  /\ dumped' = [fd |-> DescriptorCode(fd), gbe |-> None]

Demefactory ==
  /\ abi \notin Incompatible
  /\ Demed(DemedFd(factory.fd))
  /\ Ended("demefactory", "ok")

BlocksOf == [ich9fdgbe_4m |-> 1024, ich9fdnogbe_4m |-> 1024,
             ich9fdgbe_8m |-> 2048, ich9fdnogbe_8m |-> 2048,
             ich9fdgbe_16m |-> 4096, ich9fdnogbe_16m |-> 4096]
WithGbe == {"ich9fdgbe_4m", "ich9fdgbe_8m", "ich9fdgbe_16m"}

GbeOf(code, address) ==
  IF address = None THEN code ELSE Twice(WithAddress(abi, code, address))

Generated(gbe, address) ==
  /\ image' =
       [name \in DOMAIN BlocksOf |->
          [fd  |-> GeneratedDescriptorStruct(built.fd, BlocksOf[name], name \in WithGbe),
           gbe |-> IF name \in WithGbe THEN gbe ELSE None]]
  /\ dumped' = [fd  |-> None,
                gbe |-> IF address = None THEN None ELSE GbeCode(gbe.backup)]

Ich9gen(address) ==
  /\ abi \notin Incompatible
  /\ Generated(GbeOf(GeneratedGbeStruct8k(built.gbe), address), address)
  /\ Ended("ich9gen", "ok")

(* The next tool starts in an empty directory.                             *)
Anew ==
  /\ image' = <<>>
  /\ dumped' = NoCode
  /\ outcome' = "none"
  /\ UNCHANGED <<abi, tool>>

\* Mutant: demefactory's code is taken, too.
PlaceAny ==
  /\ dumped # NoCode
  /\ built' = [part \in {"fd", "gbe"} |->
                 IF dumped[part] = None THEN built[part] ELSE dumped[part]]
  /\ Anew
  /\ UNCHANGED factory

(* "place them in src/ich9gen/ and re-build ich9gen", which demefactory    *)
(* does not say of its code.                                               *)
Place ==
  /\ tool # "demefactory" /\ dumped # NoCode
  /\ built' = [part \in {"fd", "gbe"} |->
                 IF dumped[part] = None THEN built[part] ELSE dumped[part]]
  /\ Anew
  /\ UNCHANGED factory

(* The user dumps another machine.                                         *)
Dump(rom) ==
  /\ factory' = rom
  /\ Anew
  /\ UNCHANGED built

Next ==
  \/ \E name \in {"ich9deblob", "demefactory", "ich9gen"} : Refused(name)
  \/ Ich9deblob \/ Demefactory \/ Place
  \/ \E address \in Address \cup {None} : Ich9gen(address)
  \/ \E rom \in Factory : Dump(rom)

Spec == Init /\ [][Next]_vars

-----------------------------------------------------------------------------
(* A descriptor as Ich9Descriptor has it                                   *)

FlReg  == [fd |-> "flReg0", bios |-> "flReg1", me |-> "flReg2", gbe |-> "flReg3",
           pd |-> "flReg4"]
FlMstr == [host |-> "flMstr1", me |-> "flMstr2", gbe |-> "flMstr3"]
Reads  == [fd |-> "fdRegionReadAccess", bios |-> "biosRegionReadAccess",
           me |-> "meRegionReadAccess", gbe |-> "gbeRegionReadAccess",
           pd |-> "pdRegionReadAccess"]
Writes == [fd |-> "fdRegionWriteAccess", bios |-> "biosRegionWriteAccess",
           me |-> "meRegionWriteAccess", gbe |-> "gbeRegionWriteAccess",
           pd |-> "pdRegionWriteAccess"]

AsDescriptor(d) ==
  [extent |-> [r \in D!Region |->
                 [base  |-> d[<<"regionSection", FlReg[r], "BASE">>],
                  limit |-> d[<<"regionSection", FlReg[r], "LIMIT">>]]],
   count  |-> d[<<"flMaps", "flMap0", "NR">>],
   density |-> <<d[<<"componentSection", "flcomp", "component1Density">>],
                 d[<<"componentSection", "flcomp", "component2Density">>]>>,
   access |-> [m \in D!Master |->
                 [read  |-> {r \in D!Region :
                               d[<<"masterAccessSection", FlMstr[m], Reads[r]>>] = 1},
                  write |-> {r \in D!Region :
                               d[<<"masterAccessSection", FlMstr[m], Writes[r]>>] = 1}]],
   integratedGbe |-> d[<<"ichStraps", "ichStrap0", "integratedGbe">>],
   lanPhy        |-> d[<<"ichStraps", "ichStrap0", "lanPhy">>],
   meOff    |-> /\ d[<<"ichStraps", "ichStrap0", "meDisable">>] = 1
                /\ d[<<"mchStraps", "mchStrap0", "meDisable">>] = 1,
   tpmOff   |-> d[<<"mchStraps", "mchStrap0", "tpmDisable">>] = 1,
   liberate |-> \A i \in DOMAIN Liberate :
                  d[<<"oemSection", "magicString", ToString(i - 1)>>] = Liberate[i]]

(* The members that these fields are made of; the others are copied.       *)
InFields ==
  {<<"regionSection", r, n>> : r \in Range(FlReg), n \in {"BASE", "LIMIT"}}
  \cup {<<"flMaps", "flMap0", "NR">>}
  \cup In(<<"componentSection", "flcomp">>, {"component1Density", "component2Density"})
  \cup {<<"masterAccessSection", m, n>> : m \in Range(FlMstr), n \in Accesses}
  \cup In(<<"ichStraps", "ichStrap0">>, {"integratedGbe", "lanPhy", "meDisable"})
  \cup In(<<"mchStraps", "mchStrap0">>, {"meDisable", "tpmDisable"})
  \cup In(<<"oemSection", "magicString">>, Indices(8))

Becomes(before, after, fields) ==
  /\ AsDescriptor(after) = fields
  /\ \A n \in DOMAIN FdMember \ InFields : after[n] = before[n]

(* The code of the repository is that of a descriptor whose management     *)
(* engine is gone, with the NIC or without; TLC computes this, too.        *)
ASSUME FreedAssumption ==
  \A gbe \in BOOLEAN :
    LET d == AsDescriptor(GeneratedDescriptorStruct(ShippedDescriptorCode, 2048, gbe))
    IN D!MeGone(d) /\ d.extent["fd"] = [base |-> 0, limit |-> 0]

-----------------------------------------------------------------------------
(* Properties                                                              *)

(* Types; no member of an image was left uninitialised, and each holds     *)
(* what fits into it.                                                      *)
TypeOK ==
  /\ abi \in Abi
  /\ factory \in Factory
  /\ CodeOf(FdMember, built.fd) /\ CodeOf(GbeMember, built.gbe)
  /\ \A name \in DOMAIN image :
       /\ Fits(FdMember, image[name].fd)
       /\ image[name].gbe # None =>
            Fits(GbeMember, image[name].gbe.main) /\ Fits(GbeMember, image[name].gbe.backup)
  /\ tool \in {"ich9deblob", "demefactory", "ich9gen"}
  /\ outcome \in {"none", "refused", "ok"}

(* The member right after the one before it, in the order of the header.   *)
Contiguous(a, s) ==
  LET placed == LayoutOf[a, s].placed
      end(i) == placed[i].place + Bits(placed[i].member)
  IN /\ [i \in DOMAIN placed |-> placed[i].member] = Declared[s]
     /\ placed[1].place = 0
     /\ \A i \in 2 .. Len(placed) : placed[i].place = end(i - 1)

(* The numbers gbe.h gives to the words of the region.                     *)
WordNumber ==
  [reservedWord04h |-> \h04, imageVersionInformation |-> \h05, pbaLow |-> \h08,
   pbaHigh |-> \h09, subsystemId |-> \h0B, subsystemVendorId |-> \h0C,
   deviceId |-> \h0D, vendorId |-> \h0E, deviceRevId |-> \h0F,
   extendedConfigurationControlWord3 |-> \h16, reservedWord19h |-> \h19,
   reservedWord1Ah |-> \h1A, reservedWord1Bh |-> \h1B, reservedWord1Ch |-> \h1C,
   reservedWord1Dh |-> \h1D, _82567lmDeviceId |-> \h1E, _82567lfDeviceId |-> \h1F,
   reservedWord20h |-> \h20, _82567vDeviceId |-> \h21, reservedWord22h |-> \h22,
   reservedWord23h |-> \h23, checkSum |-> \h3F, padding |-> \h40]

LayoutRight(a) ==
  /\ Contiguous(a, "DESCRIPTORREGIONRECORD")
  /\ Contiguous(a, "GBEREGIONRECORD_8K")
  /\ ~a.bigEndian /\ ~a.msbFirst
  /\ \A n \in DOMAIN WordNumber :
       PlaceIn(LayoutOf[a, "GBEREGIONRECORD_4K"], <<n>>) = 16 * WordNumber[n]

(* The check of the layout looks at two sizes, a byte order, one struct    *)
(* with bit-fields and one without.  Still, when it lets a tool write      *)
(* anything, every member of the descriptor and of the GbE region lies     *)
(* where the chips have it, however the compiler packs bit-fields and      *)
(* orders bits, bytes and members (systemOrCompilerIncompatible).          *)
AcceptedIsRight == image # <<>> => LayoutRight(abi)

(* "C code that will recreate the deblobbed descriptor+gbe from scratch"   *)
(* (ich9deblob.c): compiled and run for the size of the dump, it returns   *)
(* what ich9deblob wrote, each reserved member and each byte of padding    *)
(* included; only the densities are those of the size.                     *)
Densities == In(<<"componentSection", "flcomp">>, {"component1Density", "component2Density"})
Recreates ==
  tool = "ich9deblob" => \A name \in DOMAIN image :
    LET wrote == image[name]
        again == GeneratedDescriptorStruct(dumped.fd, factory.blocks, wrote.gbe # None)
    IN /\ \A n \in DOMAIN FdMember \ Densities : again[n] = wrote.fd[n]
       /\ wrote.gbe # None => GeneratedGbeStruct8k(dumped.gbe) = wrote.gbe

(* The edits of the structs are those of Ich9Descriptor on the fields it   *)
(* keeps, and touch no other member, by way of generated code or directly. *)
ImplementsDescriptor ==
  \A name \in DOMAIN image :
    LET fd == image[name].fd
        code == GeneratedDescriptorStruct(built.fd, 2048, TRUE)
    IN CASE tool = "ich9deblob" ->
              Becomes(factory.fd, fd, D!Deblobbed(AsDescriptor(factory.fd), factory.blocks))
         [] tool = "demefactory" -> Becomes(factory.fd, fd, D!Demed(AsDescriptor(factory.fd)))
         [] tool = "ich9gen" ->
              Becomes(code, fd, D!Generated(AsDescriptor(code), BlocksOf[name], name \in WithGbe))

(* Read as Ich9Descriptor reads them, the 4 KiB of every descriptor that   *)
(* ich9deblob or ich9gen writes, whatever code was dumped and built before *)
(* it, lay the regions out without gap or overlap over a chip of its size  *)
(* and leave the management engine nothing; and a GbE region is written    *)
(* next to it exactly if it defines one (librebootDescriptorStructFrom-    *)
(* Factory, generatedDescriptorStruct).                                    *)
ImagesSound ==
  tool # "demefactory" => \A name \in DOMAIN image :
    LET fd == AsDescriptor(image[name].fd)
        blocks == IF tool = "ich9gen" THEN BlocksOf[name] ELSE factory.blocks
    IN /\ D!LayoutSound(fd, blocks) /\ D!MeGone(fd) /\ D!NicConsistent(fd)
       /\ D!DefinesGbeRegion(fd) <=> image[name].gbe # None

(* The maps of an image point at its sections, be it edited, built or      *)
(* built from code that was dumped.                                        *)
MapsAgree == \A name \in DOMAIN image : MapsPoint(abi, image[name].fd)

GbeRegions == {image[name].gbe : name \in DOMAIN image} \ {None}

(* Both halves of a GbE region are the same, and their first 64 words in   *)
(* memory sum to 0xBABA: those of a dump, those with a new address, and    *)
(* those of code that was dumped and built again.  Only the repository's   *)
(* own code, whose checksum nothing computed, is passed on as it is        *)
(* (gbeGetChecksumFrom4kBuffer and its callers).                           *)
FixedSumsUp ==
  \A gbe \in GbeRegions : gbe.main = gbe.backup /\ (Sums(gbe.main) \/ gbe.main = Shipped)

(* "When adding up the first 0x3F 16-bit words in a 4KiB GBE region, it    *)
(* should be equal to 0xBABA" (gbe.h:60): of what mkgbe.c returns, too.    *)
SumsUp == \A gbe \in GbeRegions : Sums(gbe.main)
=============================================================================
