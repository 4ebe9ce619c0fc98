------------------------------- MODULE MCIch9Code -------------------------------
(***************************************************************************)
(* Ich9Code for TLC: dumps of an 8 MiB machine with the onboard NIC, whose *)
(* main GbE half is broken, of a 4 MiB machine without it, and of a 16 MiB *)
(* machine whose reserved members and paddings hold something.             *)
(***************************************************************************)
EXTENDS Ich9Code

Region(r, base, limit) ==
  At(<<"regionSection", r>>, [BASE |-> base, LIMIT |-> limit])
Locked(m, read, write) ==
  [n \in In(<<"masterAccessSection", m>>, Accesses) |->
     IF n[3] \in read \cup write THEN 1 ELSE 0]

(* What a factory descriptor has otherwise than the shipped one.           *)
Base == GeneratedDescriptorStruct(ShippedDescriptorCode, 2048, TRUE)
Enabled ==
  At(<<"ichStraps", "ichStrap0">>, [meDisable |-> 0])
  @@ At(<<"mchStraps", "mchStrap0">>, [meDisable |-> 0, tpmDisable |-> 0])
  @@ At(<<"oemSection", "magicString">>, Each(Indices(8), 255))
  @@ Locked("flMstr1", {"fdRegionReadAccess", "biosRegionReadAccess"},
            {"biosRegionWriteAccess", "gbeRegionWriteAccess"})
  @@ Locked("flMstr2", {"fdRegionReadAccess", "meRegionReadAccess"},
            {"meRegionWriteAccess"})
  @@ Base

NicFd ==
  Region("flReg1", 1536, 2047) @@ Region("flReg2", 3, 1525)
  @@ Region("flReg3", 1526, 1527) @@ Region("flReg4", 1528, 1535)
  @@ At(<<"flMaps", "flMap0">>, [NR |-> 4])
  @@ At(<<"componentSection", "flcomp">>, [component1Density |-> 4, component2Density |-> 2])
  @@ Enabled

NoNicFd ==
  Region("flReg1", 512, 1023) @@ Region("flReg2", 1, 511)
  @@ At(<<"flMaps", "flMap0">>, [NR |-> 2])
  @@ At(<<"ichStraps", "ichStrap0">>, [integratedGbe |-> 0, lanPhy |-> 1])
  @@ Region("flReg3", \hfff, 0) @@ Enabled

(* Each reserved member has all its bits, each padding other bytes.        *)
ReservedNames == {"reserved", "reserved1", "reserved2", "reserved3", "reserved4"}
OddFd ==
  [n \in DOMAIN FdMember |->
     CASE Last(n) = "padding" -> 7
       [] Last(n) \in ReservedNames -> 2^FdMember[n].bits - 1
       [] OTHER -> (Region("flReg1", 3000, 4095)
                    @@ At(<<"masterAccessSection", "flMstr2">>, [requesterId |-> \h1234])
                    @@ NicFd)[n]]

NicGbe ==
  LET half == At(<<"macAddress">>, ArrayOf(<<0, 31, 22, 5, 6, 7>>))
              @@ At(<<>>, [checkSum |-> \h1234, padding |-> 3]) @@ Shipped
  IN [main |-> At(<<>>, [checkSum |-> 1, reservedWord1Ah |-> \hffff]) @@ half,
      backup |-> half]
OddGbe ==
  LET half == [n \in DOMAIN GbeMember |->
                 IF GbeMember[n].bits < 31 THEN 2^GbeMember[n].bits - 1 ELSE 0]
  IN [main |-> half, backup |-> half]

MCFactory ==
  {[fd |-> NicFd, gbe |-> NicGbe, blocks |-> 2048],
   [fd |-> NoNicFd, gbe |-> None, blocks |-> 1024],
   [fd |-> OddFd, gbe |-> OddGbe, blocks |-> 4096]}

MCAddress == {ArrayOf(<<1, 35, 69, 103, 137, 171>>), ArrayOf(<<255, 255, 255, 255, 255, 255>>)}
=============================================================================
