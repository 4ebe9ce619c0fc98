------------------------------- MODULE Ich9Structs -------------------------------
(***************************************************************************)
(* The flash descriptor and the GbE region as the C structs of projects/   *)
(* ich9gen (descriptor/descriptor.h, gbe/gbe.h).  The tools read the bytes *)
(* of a dump into these structs, edit their members and write them back.   *)
(***************************************************************************)
EXTENDS Integers, SequencesExt

-----------------------------------------------------------------------------
(* Members of a struct.  A type is its width in bits.  The bytes of a      *)
(* padding array are one member, the elements of other arrays one each.    *)

Member(name, type, bits, count, field, struct) ==
  [name |-> <<name>>, type |-> type, bits |-> bits, count |-> count,
   field |-> field, struct |-> struct]

Scalar == [name : Seq(STRING), type : Nat, bits : Nat, count : Nat, field : BOOLEAN,
           struct : {"none"}]

Fields(type, fields) ==
  [i \in DOMAIN fields |->
     Member(fields[i][1], type, fields[i][2], 1, TRUE, "none")]
Plain(type, names) ==
  [i \in DOMAIN names |-> Member(names[i], type, type, 1, FALSE, "none")]
Array(type, name, n) == <<Member(name, type, type, n, FALSE, "none")>>
Padding(n)           == Array(8, "padding", n)
Sub(name, struct)    == <<Member(name, 8, 0, 1, FALSE, struct)>>

Elements(m) ==
  IF m.count = 1 \/ m.name = <<"padding">> THEN <<m>>
  ELSE [i \in 1 .. m.count |->
          [m EXCEPT !.name = Append(@, ToString(i - 1)), !.count = 1]]

Flags(names) == [i \in DOMAIN names |-> <<names[i], 1>>]

-----------------------------------------------------------------------------
(* descriptor/descriptor.h                                                 *)

MapStructs ==
  [FLVALSIG |-> Plain(32, <<"signature">>),
   FLMAP0 |-> Fields(8, << <<"FCBA", 8>>, <<"NC", 2>>, <<"reserved1", 6>>,
                           <<"FRBA", 8>>, <<"NR", 3>>, <<"reserved2", 5>> >>),
   FLMAP1 |-> Fields(8, << <<"FMBA", 8>>, <<"NM", 3>>, <<"reserved", 5>>,
                           <<"FISBA", 8>>, <<"ISL", 8>> >>),
   FLMAP2 |-> Fields(8, << <<"FMSBA", 8>>, <<"MSL", 8>> >>)
              \o Fields(16, << <<"reserved", 16>> >>),
   FLMAPS |-> Sub("flMap0", "FLMAP0") \o Sub("flMap1", "FLMAP1")
              \o Sub("flMap2", "FLMAP2")]

ComponentStructs ==
  [FLCOMP |->
     Fields(8, << <<"component1Density", 3>>, <<"component2Density", 3>>,
                  <<"reserved1", 2>>, <<"reserved2", 8>>, <<"reserved3", 1>>,
                  <<"readClockFrequency", 3>>, <<"fastReadSupport", 1>>,
                  <<"fastreadClockFrequency", 3>>, <<"writeEraseClockFrequency", 3>>,
                  <<"readStatusClockFrequency", 3>>, <<"reserved4", 2>> >>),
   COMPONENTSECTIONRECORD |->
     Sub("flcomp", "FLCOMP") \o Plain(32, <<"flill", "flpb">>) \o Padding(36)]

RegionStructs ==
  [FLREG |-> Fields(16, << <<"BASE", 13>>, <<"reserved1", 3>>,
                           <<"LIMIT", 13>>, <<"reserved2", 3>> >>),
   REGIONSECTIONRECORD |->
     Sub("flReg0", "FLREG") \o Sub("flReg1", "FLREG") \o Sub("flReg2", "FLREG")
     \o Sub("flReg3", "FLREG") \o Sub("flReg4", "FLREG") \o Padding(12)]

ReadAccess  == <<"fdRegionReadAccess", "biosRegionReadAccess", "meRegionReadAccess",
                 "gbeRegionReadAccess", "pdRegionReadAccess">>
WriteAccess == <<"fdRegionWriteAccess", "biosRegionWriteAccess", "meRegionWriteAccess",
                 "gbeRegionWriteAccess", "pdRegionWriteAccess">>

MasterStructs ==
  [FLMSTR |->
     Fields(16, << <<"requesterId", 16>> >>)
     \o Fields(8, Flags(ReadAccess) \o << <<"reserved1", 3>> >>
                  \o Flags(WriteAccess) \o << <<"reserved2", 3>> >>),
   MASTERACCESSSECTIONRECORD |->
     Sub("flMstr1", "FLMSTR") \o Sub("flMstr2", "FLMSTR") \o Sub("flMstr3", "FLMSTR")
     \o Padding(148)]

StrapStructs ==
  [ICHSTRAP0 |->
     Fields(8, << <<"meDisable", 1>>, <<"reserved1", 6>>, <<"tcoMode", 1>>,
                  <<"smBusAddress", 7>>, <<"bmcMode", 1>>, <<"tripPointSelect", 1>>,
                  <<"reserved2", 2>>, <<"integratedGbe", 1>>, <<"lanPhy", 1>>,
                  <<"reserved3", 3>>, <<"dmiRequesterId", 1>>, <<"smBus2Address", 7>> >>),
   ICHSTRAP1 |->
     Fields(8, Flags(<<"northMlink", "southMlink", "meSmbus", "sstDynamic">>)
               \o << <<"reserved1", 4>>, <<"northMlink2", 1>>, <<"reserved2", 7>> >>)
     \o Fields(16, << <<"reserved3", 16>> >>),
   ICHSTRAPSRECORD |->
     Sub("ichStrap0", "ICHSTRAP0") \o Sub("ichStrap1", "ICHSTRAP1") \o Padding(248),
   MCHSTRAP0 |->
     Fields(8, Flags(<<"meDisable", "meBootFromFlash", "tpmDisable">>)
               \o << <<"reserved1", 3>>, <<"spiFingerprint", 1>>,
                     <<"meAlternateDisable", 1>>, <<"reserved2", 8>> >>)
     \o Fields(16, << <<"reserved3", 16>> >>),
   MCHSTRAPSRECORD |-> Sub("mchStrap0", "MCHSTRAP0") \o Padding(3292)]

TailStructs ==
  [MEVSCCTABLERECORD |->
     Plain(32, <<"jid0", "vscc0", "jid1", "vscc1", "jid2", "vscc2">>) \o Padding(4),
   DESCRIPTORMAP2RECORD |->
     Fields(8, << <<"meVsccTableBaseAddress", 8>>, <<"meVsccTableLength", 8>> >>)
     \o Fields(16, << <<"reserved", 16>> >>),
   OEMSECTIONRECORD |-> Array(8, "magicString", 8) \o Padding(248)]

DescriptorStruct ==
  [DESCRIPTORREGIONRECORD |->
     Sub("flValSig", "FLVALSIG") \o Sub("flMaps", "FLMAPS")
     \o Sub("componentSection", "COMPONENTSECTIONRECORD")
     \o Sub("regionSection", "REGIONSECTIONRECORD")
     \o Sub("masterAccessSection", "MASTERACCESSSECTIONRECORD")
     \o Sub("ichStraps", "ICHSTRAPSRECORD") \o Sub("mchStraps", "MCHSTRAPSRECORD")
     \o Sub("meVsccTable", "MEVSCCTABLERECORD")
     \o Sub("descriptor2Map", "DESCRIPTORMAP2RECORD")
     \o Sub("oemSection", "OEMSECTIONRECORD")]

-----------------------------------------------------------------------------
(* gbe/gbe.h                                                               *)

WordStructs ==
  [GBE_RESERVED_WORD_03H |->
     Fields(8, << <<"reserved1_0", 8>>, <<"reserved1_1", 3>>, <<"ibaLom", 1>>,
                  <<"reserved2", 4>> >>),
   GBE_PCI_INITIALIZATION_CONTROL_WORD |->
     Fields(8, Flags(<<"loadVendorDeviceId", "loadSubsystemId", "reserved1">>)
               \o << <<"reserved2", 3>>, <<"pmEnable", 1>>, <<"auxPwr", 1>>,
                     <<"reserved3", 4>>, <<"reserved4", 4>> >>),
   GBE_LAN_POWER_CONSUMPTION |->
     Fields(8, << <<"lanD3Power", 5>>, <<"reserved", 3>>, <<"lanD0Power", 8>> >>),
   GBE_SHARED_INITIALIZATION_CONTROL_WORD |->
     Fields(8, << <<"reserved1", 3>>, <<"forceDuplex", 1>>, <<"forceSpeedEnable", 1>>,
                  <<"reserved2_0", 3>>, <<"reserved2_1", 1>>, <<"phyPowerDownEnable", 1>>,
                  <<"reserved3", 1>>, <<"reserved4", 3>>, <<"sign", 2>> >>),
   GBE_EXTENDED_CONFIGURATION_CONTROL_WORD_1 |->
     Fields(16, << <<"extendedConfigurationPointer", 12>> >>)
     \o Fields(8, Flags(<<"oemWriteEnable", "reserved1", "reserved2", "reserved3">>)),
   GBE_EXTENDED_CONFIGURATION_CONTROL_WORD_2 |->
     Fields(8, << <<"reserved", 8>>, <<"extendedPhyLength", 8>> >>),
   LED_CTL_1 |->
     Fields(8, << <<"led1Mode", 4>> >>
               \o Flags(<<"reserved1", "led1BlinkMode", "led1Invert", "led1Blink",
                          "reserved2", "lpluEnable", "lpluEnableNonD0a",
                          "gbeDisableNonD0a">>)
               \o << <<"reserved3", 2>>, <<"gbeDisable", 1>>, <<"reserved4", 1>> >>),
   LED_CTL_02 |->
     Fields(8, << <<"led0Mode", 4>> >>
               \o Flags(<<"reserved1", "led0BlinkMode", "led0Invert", "led0Blink">>)
               \o << <<"led2Mode", 4>> >>
               \o Flags(<<"reserved2", "led2BlinkMode", "led2Invert", "led2Blink">>))]

PxeStructs ==
  [GBE_PXE_BOOT_AGENT_MAIN_SETUP_OPTIONS |->
     Fields(8, << <<"protocolSelect", 2>>, <<"reserved1", 1>>,
                  <<"defaultBootSelection", 2>>, <<"reserved2", 1>>, <<"promptTime", 2>>,
                  <<"displaySetupMessage", 1>>, <<"reserved3", 1>>, <<"forceSpeed", 2>> >>
               \o Flags(<<"forceFullDuplex", "reserved4", "efiPresence", "pxePresence">>)),
   GBE_PXE_BOOT_AGENT_CONFIGURATION_CUSTOMIZATION_OPTIONS_31H |->
     Fields(8, Flags(<<"disableSetupMenu", "disableTitleMessage", "disableProtocolSelect",
                       "disableBootSelection", "disableLegacyWakeupSupport",
                       "disableFlashUpdate">>)
               \o << <<"reserved1", 2>>, <<"ibaBootOrderSetupMode", 3>>,
                     <<"reserved2", 3>>, <<"signature", 2>> >>),
   GBE_PXE_BOOT_AGENT_CONFIGURATION_CUSTOMIZATION_OPTIONS_32H |->
     Fields(8, << <<"buildNumber", 8>>, <<"minorVersionNumber", 4>>,
                  <<"majorVersionNumber", 4>> >>),
   GBE_PXE_IBA_CAPABILITIES |->
     Fields(8, Flags(<<"baseCodePresent", "undiCapabilityPresent", "reserved1",
                       "efiUndiCapabilityPresent">>)
               \o << <<"reserved2_0", 4>>, <<"reserved2_1", 6>>, <<"signature", 2>> >>),
   GBE_PXE_SOFTWARE_REGION |->
     Sub("bootAgentMainSetupOptions", "GBE_PXE_BOOT_AGENT_MAIN_SETUP_OPTIONS")
     \o Sub("bootAgentConfigurationCustomizationOptions31h",
            "GBE_PXE_BOOT_AGENT_CONFIGURATION_CUSTOMIZATION_OPTIONS_31H")
     \o Sub("bootAgentConfigurationCustomizationOptions32h",
            "GBE_PXE_BOOT_AGENT_CONFIGURATION_CUSTOMIZATION_OPTIONS_32H")
     \o Sub("ibaCapabilities", "GBE_PXE_IBA_CAPABILITIES")
     \o Array(16, "paddingWords34hTo3Eh", 11)]

GbeStructs ==
  [GBEREGIONRECORD_4K |->
     Array(8, "macAddress", 6) \o Sub("reservedWord03h", "GBE_RESERVED_WORD_03H")
     \o Plain(16, <<"reservedWord04h", "imageVersionInformation">>)
     \o Array(16, "reservedWords06h07h", 2) \o Plain(16, <<"pbaLow", "pbaHigh">>)
     \o Sub("pciInitializationControlWord", "GBE_PCI_INITIALIZATION_CONTROL_WORD")
     \o Plain(16, <<"subsystemId", "subsystemVendorId", "deviceId", "vendorId",
                    "deviceRevId">>)
     \o Sub("lanPowerConsumption", "GBE_LAN_POWER_CONSUMPTION")
     \o Array(16, "reservedWords11h12h", 2)
     \o Sub("sharedInitializationControlWord", "GBE_SHARED_INITIALIZATION_CONTROL_WORD")
     \o Sub("extendedConfigurationControlWord1",
            "GBE_EXTENDED_CONFIGURATION_CONTROL_WORD_1")
     \o Sub("extendedConfigurationControlWord2",
            "GBE_EXTENDED_CONFIGURATION_CONTROL_WORD_2")
     \o Plain(16, <<"extendedConfigurationControlWord3">>)
     \o Sub("ledCtl1", "LED_CTL_1") \o Sub("ledCtl02", "LED_CTL_02")
     \o Plain(16, <<"reservedWord19h", "reservedWord1Ah", "reservedWord1Bh",
                    "reservedWord1Ch", "reservedWord1Dh", "_82567lmDeviceId",
                    "_82567lfDeviceId", "reservedWord20h", "_82567vDeviceId",
                    "reservedWord22h", "reservedWord23h">>)
     \o Array(16, "reservedWords24to2Fh", 12)
     \o Sub("pxeSoftwareRegion", "GBE_PXE_SOFTWARE_REGION")
     \o Plain(16, <<"checkSum">>) \o Padding(3968),
   GBEREGIONRECORD_8K |->
     Sub("main", "GBEREGIONRECORD_4K") \o Sub("backup", "GBEREGIONRECORD_4K")]

Members ==
  MapStructs @@ ComponentStructs @@ RegionStructs @@ MasterStructs @@ StrapStructs
  @@ TailStructs @@ DescriptorStruct @@ WordStructs @@ PxeStructs @@ GbeStructs

IsSub(m) == m.struct # "none"
Under(prefix, m) == [m EXCEPT !.name = prefix \o @]

(* All scalar members of a struct in the order of their declarations; a    *)
(* member that is a struct itself has those of that one.                   *)
Scalars(m, within) ==
  IF IsSub(m) THEN [j \in DOMAIN within |-> Under(m.name, within[j])] ELSE Elements(m)

Declared[s \in DOMAIN Members] ==
  FlattenSeq([i \in DOMAIN Members[s] |->
                Scalars(Members[s][i], Declared[Members[s][i].struct])])
=================================================================================
