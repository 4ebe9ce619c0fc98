------------------------------ MODULE MCIch9Tools ------------------------------
(***************************************************************************)
(* Ich9Tools for TLC: the dumps of an 8 MiB machine with the onboard NIC,  *)
(* whose main GbE half is broken as some factories leave it, and of a      *)
(* 4 MiB machine without it; the code ich9gen is shipped with; and the     *)
(* address arguments that reach the edges of the argument check.           *)
(***************************************************************************)
EXTENDS Ich9Tools

At(base, limit) == [base |-> base, limit |-> limit]
Some == [read |-> {"gbe"}, write |-> {"gbe"}]
MeAccess == [read |-> {"fd", "me", "gbe"}, write |-> {"me", "gbe"}]
HostAccess == [read |-> {"fd", "bios", "gbe", "pd"}, write |-> {"bios", "gbe"}]
Nothing == [read |-> {}, write |-> {}]
All == [read |-> Region, write |-> Region]

NicDescriptor ==
  [extent |-> [fd |-> At(0, 0), bios |-> At(1536, 2047), me |-> At(3, 1525),
               gbe |-> At(1526, 1527), pd |-> At(1528, 1535)],
   count |-> 4, density |-> <<4, 2>>,
   access |-> [host |-> HostAccess, me |-> MeAccess, gbe |-> Some],
   integratedGbe |-> 1, lanPhy |-> 1,
   meOff |-> FALSE, tpmOff |-> FALSE, liberate |-> FALSE]

PlainDescriptor ==
  [extent |-> [fd |-> At(0, 0), bios |-> At(512, 1023), me |-> At(1, 511),
               gbe |-> At(8191, 0), pd |-> At(8191, 0)],
   count |-> 2, density |-> <<3, 3>>,
   access |-> [host |-> HostAccess, me |-> MeAccess, gbe |-> Nothing],
   integratedGbe |-> 0, lanPhy |-> 0,
   meOff |-> FALSE, tpmOff |-> FALSE, liberate |-> FALSE]

Half(mac, rest, sum, padded) ==
  [mac |-> mac, rest |-> rest, checkSum |-> sum, padded |-> padded]

NicRom ==
  [fd |-> NicDescriptor, blocks |-> 2048,
   gbe |-> [main   |-> Half(<<8192, 17664, 65535>>, 65000, 1, FALSE),
            backup |-> Half(<<8192, 17664, 65535>>, 65000, 22483, FALSE)]]

PlainRom ==
  [fd |-> PlainDescriptor, blocks |-> 1024,
   gbe |-> [main |-> Half(<<65535, 65535, 65535>>, 0, 65535, TRUE),
            backup |-> Half(<<65535, 65535, 65535>>, 0, 65535, TRUE)]]

MCRom == {NicRom, PlainRom}

(* mkdescriptor.c and mkgbe.c of the repository; 00:DE:AD:C0:FF:EE.        *)
MCDefault ==
  [dump |->
     [extent |-> [fd |-> At(0, 0), bios |-> At(3, 2047), me |-> Removed,
                  gbe |-> At(1, 2), pd |-> Removed],
      count |-> 2, density |-> <<4, 4>>,
      access |-> [host |-> All, me |-> Nothing, gbe |-> Some],
      integratedGbe |-> 1, lanPhy |-> 1,
      meOff |-> TRUE, tpmOff |-> TRUE, liberate |-> TRUE],
   gbe |-> Half(<<56832, 49325, 61183>>, 20943, 13450, TRUE)]

C == Colon
Good  == <<0,1, C, 2,3, C, 4,5, C, 6,7, C, 8,9, C, 10,11>>
Short == <<0,1, C, 2,3>>
Tight == [Good EXCEPT ![12] = 7]   \* the last separator that is looked at
Loose == [Good EXCEPT ![15] = 7]   \* the one after it

MCAddress    == {Good, Tight}
MCAnyAddress == {Good, Short, Tight, Loose}
=============================================================================
