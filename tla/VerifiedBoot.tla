------------------------------ MODULE VerifiedBoot ------------------------------
(***************************************************************************)
(* The boot keys, and what is signed with them (projects/cros-scripts and  *)
(* tools/boot-keys).                                                       *)
(*                                                                         *)
(* `cros-boot-keys generate` makes nine key pairs and five keyblocks, each *)
(* a public key signed by another, one file after the other and over the   *)
(* files of an earlier run; `verify` asks futility for the signature of    *)
(* each keyblock.  cros-firmware-prepare and cros-kernel-prepare sign and  *)
(* verify the images in place with whatever the keys' directory holds.     *)
(* The firmware trusts the root key in its GBB, which its keyblock leads   *)
(* to its body and the kernel subkey in it, and that, by way of the        *)
(* kernel's keyblock, to the kernel.                                       *)
(*                                                                         *)
(* A key is abstracted to the run of generate that made it; 0 are the      *)
(* developer keys the build signs firmware with.  Two keys of one run are  *)
(* told apart by their use.                                                *)
(***************************************************************************)
EXTENDS Naturals, Sequences, Functions

CONSTANTS
  MaxRun,      \* bound on the runs of generate
  FaultBound,  \* how many commands may fail or be interrupted
  Missing, Torn

ASSUME BoundAssumption == MaxRun \in Nat /\ FaultBound \in Nat
ASSUME ValueAssumption == {Missing, Torn} \cap Nat = {}

VARIABLES
  run,       \* runs of generate so far
  pub, priv, \* the run each <key>.vbpubk and <key>.vbprivk is from
  block,     \* the keyblocks
  firmware,  \* the installed firmware image
  gbb,       \* the root key in the GBB that was extracted to a file
  kernel,    \* the kernel image
  stage,     \* what the running command does next
  pos,       \* the key or keyblock it is at
  passed,    \* what ended well since the files it is about last changed
  faults

keyVars == <<run, pub, priv, block>>
vars == <<keyVars, firmware, gbb, kernel, stage, pos, passed, faults>>

-----------------------------------------------------------------------------
(* Keys and keyblocks                                                      *)

\* Mutant: data keys come before the keys that sign them.
KEYSDataFirst ==
  <<"ec_data_key", "ec_root_key", "firmware_data_key", "root_key", "kernel_data_key",
    "kernel_subkey", "recovery_kernel_data_key", "recovery_key",
    "installer_kernel_data_key">>

KEYS ==
  <<"ec_root_key", "ec_data_key", "root_key", "firmware_data_key", "kernel_subkey",
    "kernel_data_key", "recovery_key", "recovery_kernel_data_key",
    "installer_kernel_data_key">>
KEYBLOCKS == <<"firmware", "ec", "recovery_kernel", "kernel", "installer_kernel">>

\* SUBKEYS: the key a keyblock holds, and the key that signs it.
DataKey == [firmware         |-> "firmware_data_key",
            ec               |-> "ec_data_key",
            recovery_kernel  |-> "recovery_kernel_data_key",
            kernel           |-> "kernel_data_key",
            installer_kernel |-> "installer_kernel_data_key"]
SignKey == [firmware         |-> "root_key",
            ec               |-> "ec_root_key",
            recovery_kernel  |-> "recovery_key",
            kernel           |-> "kernel_subkey",
            installer_kernel |-> "recovery_key"]

Key      == Range(KEYS)
Keyblock == Range(KEYBLOCKS)

Made  == 0 .. run
Block == [data : Made, sign : Made]
Whole(x) == x \notin {Missing, Torn}

(* futility vbutil_keyblock --unpack --signpubkey.                         *)
Unpacks(b, keyblock) ==
  Whole(keyblock) /\ Whole(pub[SignKey[b]]) /\ keyblock.sign = pub[SignKey[b]]

-----------------------------------------------------------------------------
(* What boots                                                              *)

FirmwareBoots(f) == f.block.sign = f.root /\ f.body = f.block.data
KernelBoots(f, k) == k.block.sign = f.subkey /\ k.body = k.block.data

(* The build signs with the developer keys.                                *)
Fresh == [block |-> [data |-> 0, sign |-> 0], body |-> 0, subkey |-> 0, root |-> 0]

FirmwareSteps == {"firmwareSigned", "firmwareVerified"}
KernelSteps   == {"kernelSigned", "kernelVerified"}

-----------------------------------------------------------------------------

Init ==
  /\ run = 0
  /\ pub = [k \in Key |-> Missing] /\ priv = [k \in Key |-> Missing]
  /\ block = [b \in Keyblock |-> Missing]
  /\ firmware = Fresh /\ gbb = Missing /\ kernel = Missing
  /\ stage = "idle" /\ pos = 1 /\ passed = {}
  /\ faults = FaultBound

Idle == stage = "idle"
Goto(s, i) == stage' = s /\ pos' = i
End(steps) == Goto("idle", 1) /\ passed' = passed \cup steps

(* cros-boot-keys generate, once the user confirmed.                       *)
Generate ==
  /\ Idle /\ run < MaxRun
  /\ run' = run + 1
  /\ Goto("pub", 1)
  /\ passed' = {}
  /\ UNCHANGED <<pub, priv, block, firmware, gbb, kernel, faults>>

\* Mutant: a key that is there is not written over, and generate stops.
WritePubAnew ==
  /\ stage = "pub"
  /\ IF pub[KEYS[pos]] = Missing
       THEN /\ pub' = [pub EXCEPT ![KEYS[pos]] = run]
            /\ Goto("priv", pos) /\ UNCHANGED passed
       ELSE End({}) /\ UNCHANGED pub
  /\ UNCHANGED <<run, priv, block, firmware, gbb, kernel, faults>>

WritePub ==
  /\ stage = "pub"
  /\ pub' = [pub EXCEPT ![KEYS[pos]] = run]
  /\ Goto("priv", pos)
  /\ UNCHANGED <<run, priv, block, firmware, gbb, kernel, passed, faults>>

WritePriv ==
  /\ stage = "priv"
  /\ priv' = [priv EXCEPT ![KEYS[pos]] = run]
  /\ IF pos < Len(KEYS) THEN Goto("pub", pos + 1) ELSE Goto("block", 1)
  /\ UNCHANGED <<run, pub, block, firmware, gbb, kernel, passed, faults>>

(* Packed with the keys of the directory and unpacked at once.             *)
WriteBlock ==
  /\ stage = "block"
  /\ LET b      == KEYBLOCKS[pos]
         packed == [data |-> pub[DataKey[b]], sign |-> priv[SignKey[b]]]
     IN /\ block' = [block EXCEPT ![b] = packed]
        /\ IF Unpacks(b, packed) /\ pos < Len(KEYBLOCKS)
             THEN Goto("block", pos + 1) /\ UNCHANGED passed
             ELSE End(IF Unpacks(b, packed) THEN {"generated"} ELSE {})
  /\ UNCHANGED <<run, pub, priv, firmware, gbb, kernel, faults>>

(* cros-boot-keys verify; one that fails changes nothing.                  *)
VerifyKeys ==
  /\ Idle
  /\ \A b \in Keyblock : Unpacks(b, block[b])
  /\ End({"keysVerified"})
  /\ UNCHANGED <<keyVars, firmware, gbb, kernel, faults>>

-----------------------------------------------------------------------------
(* cros-firmware-prepare sign is two calls of futility on the same file,   *)
(* the second for the root and recovery keys in the GBB.                   *)

FirmwareSign ==
  /\ Idle
  /\ Goto("firmware", 1)
  /\ passed' = passed \ FirmwareSteps
  /\ UNCHANGED <<keyVars, firmware, gbb, kernel, faults>>

FirmwareKeys ==
  /\ Whole(priv["firmware_data_key"]) /\ Whole(block["firmware"])
  /\ Whole(pub["kernel_subkey"])

\* Mutant: futility takes what it is given for keys.
SignFirmwareUnread ==
  /\ stage = "firmware"
  /\ Whole(firmware) /\ Whole(block["firmware"])
  /\ firmware' = [firmware EXCEPT !.block = block["firmware"],
                                  !.body = priv["firmware_data_key"],
                                  !.subkey = pub["kernel_subkey"]]
  /\ Goto("gbb", 1)
  /\ UNCHANGED <<keyVars, gbb, kernel, passed, faults>>

SignFirmware ==
  /\ stage = "firmware"
  /\ Whole(firmware) /\ FirmwareKeys
  /\ firmware' = [firmware EXCEPT !.block = block["firmware"],
                                  !.body = priv["firmware_data_key"],
                                  !.subkey = pub["kernel_subkey"]]
  /\ Goto("gbb", 1)
  /\ UNCHANGED <<keyVars, gbb, kernel, passed, faults>>

\* Mutant: the recovery key is set, the root key is not.
SetRecoveryKey ==
  /\ stage = "gbb"
  /\ Whole(pub["root_key"]) /\ Whole(pub["recovery_key"])
  /\ End({"firmwareSigned"})
  /\ UNCHANGED <<keyVars, firmware, gbb, kernel, faults>>

SetRootKey ==
  /\ stage = "gbb"
  /\ Whole(pub["root_key"]) /\ Whole(pub["recovery_key"])
  /\ firmware' = [firmware EXCEPT !.root = pub["root_key"]]
  /\ End({"firmwareSigned"})
  /\ UNCHANGED <<keyVars, gbb, kernel, faults>>

(* The directory lacks what the call needs, or the image is broken.        *)
FirmwareSignFails ==
  /\ \/ stage = "firmware" /\ ~(Whole(firmware) /\ FirmwareKeys)
     \/ stage = "gbb" /\ ~(Whole(pub["root_key"]) /\ Whole(pub["recovery_key"]))
  /\ End({})
  /\ UNCHANGED <<keyVars, firmware, gbb, kernel, faults>>

\* Mutant: futility verify without -k, which takes the root key of the GBB.
VerifyFirmwareOwnRoot ==
  /\ Idle
  /\ Whole(firmware) /\ Whole(pub["root_key"])
  /\ FirmwareBoots(firmware)
  /\ End({"firmwareVerified"})
  /\ UNCHANGED <<keyVars, firmware, gbb, kernel, faults>>

(* futility verify -k asks for the signatures under that key: the root key *)
(* in the image's own GBB is not looked at.                                *)
VerifyFirmware ==
  /\ Idle
  /\ Whole(firmware) /\ Whole(pub["root_key"])
  /\ FirmwareBoots([firmware EXCEPT !.root = pub["root_key"]])
  /\ End({"firmwareVerified"})
  /\ UNCHANGED <<keyVars, firmware, gbb, kernel, faults>>

GbbExtract ==
  /\ Idle
  /\ Whole(firmware)
  /\ gbb' = firmware.root
  /\ UNCHANGED <<keyVars, firmware, kernel, stage, pos, passed, faults>>

GbbReplace ==
  /\ Idle
  /\ Whole(firmware) /\ gbb # Missing
  /\ firmware' = [firmware EXCEPT !.root = gbb]
  /\ passed' = passed \ FirmwareSteps
  /\ UNCHANGED <<keyVars, gbb, kernel, stage, pos, faults>>

(* The project is installed anew.                                          *)
InstallFirmware ==
  /\ Idle
  /\ firmware' = Fresh
  /\ passed' = passed \ FirmwareSteps
  /\ UNCHANGED <<keyVars, gbb, kernel, stage, pos, faults>>

-----------------------------------------------------------------------------
(* cros-kernel-prepare: pack makes an image, sign repacks the one that is  *)
(* there; boot-keys signs an image if there is one, and packs it if not.   *)

KernelPrepare(action) ==
  /\ Idle
  /\ Goto(action, 1)
  /\ passed' = passed \ KernelSteps
  /\ UNCHANGED <<keyVars, firmware, gbb, kernel, faults>>

Signable ==
  /\ stage = "sign" => Whole(kernel)
  /\ Whole(block["kernel"]) /\ Whole(priv["kernel_data_key"])

WriteKernel ==
  /\ stage \in {"pack", "sign"}
  /\ Signable
  /\ kernel' = [block |-> block["kernel"], body |-> priv["kernel_data_key"]]
  /\ End({"kernelSigned"})
  /\ UNCHANGED <<keyVars, firmware, gbb, faults>>

KernelPrepareFails ==
  /\ stage \in {"pack", "sign"}
  /\ ~Signable
  /\ End({})
  /\ UNCHANGED <<keyVars, firmware, gbb, kernel, faults>>

VerifyKernel ==
  /\ Idle
  /\ Whole(kernel) /\ Whole(pub["kernel_subkey"])
  /\ KernelBoots([subkey |-> pub["kernel_subkey"]], kernel)
  /\ End({"kernelVerified"})
  /\ UNCHANGED <<keyVars, firmware, gbb, kernel, faults>>

InstallKernel ==
  /\ Idle
  /\ kernel' = Missing
  /\ passed' = passed \ KernelSteps
  /\ UNCHANGED <<keyVars, firmware, gbb, stage, pos, faults>>

-----------------------------------------------------------------------------
(* A call fails or is interrupted; `set -e` ends the script.  The file it  *)
(* was writing is as before or cut short.                                  *)
Interrupt ==
  /\ ~Idle
  /\ faults > 0
  /\ faults' = faults - 1
  /\ \/ UNCHANGED <<pub, priv, block, firmware, kernel>>
     \/ /\ stage = "pub" /\ pub' = [pub EXCEPT ![KEYS[pos]] = Torn]
        /\ UNCHANGED <<priv, block, firmware, kernel>>
     \/ /\ stage = "priv" /\ priv' = [priv EXCEPT ![KEYS[pos]] = Torn]
        /\ UNCHANGED <<pub, block, firmware, kernel>>
     \/ /\ stage = "block" /\ block' = [block EXCEPT ![KEYBLOCKS[pos]] = Torn]
        /\ UNCHANGED <<pub, priv, firmware, kernel>>
     \/ /\ stage \in {"firmware", "gbb"} /\ firmware' = Torn
        /\ UNCHANGED <<pub, priv, block, kernel>>
     \/ /\ stage \in {"pack", "sign"} /\ kernel' = Torn
        /\ UNCHANGED <<pub, priv, block, firmware>>
  /\ End({})
  /\ UNCHANGED <<run, gbb>>

Advance ==
  \/ WritePub \/ WritePriv \/ WriteBlock
  \/ SignFirmware \/ SetRootKey \/ FirmwareSignFails
  \/ WriteKernel \/ KernelPrepareFails

Next ==
  \/ Advance
  \/ Generate \/ VerifyKeys
  \/ FirmwareSign \/ VerifyFirmware \/ GbbExtract \/ GbbReplace \/ InstallFirmware
  \/ \E action \in {"pack", "sign"} : KernelPrepare(action)
  \/ VerifyKernel \/ InstallKernel
  \/ Interrupt

Spec == Init /\ [][Next]_vars

(* A command that was started keeps running; nobody has to start one.      *)
FairSpec == Spec /\ WF_vars(Advance)

-----------------------------------------------------------------------------
(* Properties                                                              *)

Image == [block : Block, body : Made, subkey : Made, root : Made]

(* Types; in particular no image is ever signed with a broken key.         *)
TypeOK ==
  /\ run \in 0 .. MaxRun
  /\ pub \in [Key -> Made \cup {Missing, Torn}]
  /\ priv \in [Key -> Made \cup {Missing, Torn}]
  /\ block \in [Keyblock -> Block \cup {Missing, Torn}]
  /\ firmware \in Image \cup {Torn}
  /\ gbb \in Made \cup {Missing}
  /\ kernel \in [block : Block, body : Made] \cup {Missing, Torn}
  /\ stage \in {"idle", "pub", "priv", "block", "firmware", "gbb", "pack", "sign"}
  /\ pos \in 1 .. Len(KEYS) /\ (stage = "block" => pos \in 1 .. Len(KEYBLOCKS))
  /\ passed \subseteq {"generated", "keysVerified"} \cup FirmwareSteps \cup KernelSteps
  /\ faults \in 0 .. FaultBound

\* All keys are of one run, public and private, and so are the keyblocks.
KeysOf(n) ==
  /\ \A k \in Key : pub[k] = n /\ priv[k] = n
  /\ \A b \in Keyblock : block[b] = [data |-> n, sign |-> n]

\* verify looks at no private key and at no key a keyblock holds, and yet: once
\* it, or generate, ended well, the directory has no half of a pair and no
\* keyblock from another run, however often generate was interrupted before.
KeysAgree ==
  passed \cap {"generated", "keysVerified"} # {} => KeysOf(pub["ec_root_key"])

\* Keys that were verified, before or after they were used, make images that
\* boot: the firmware from the root key in its GBB, and the kernel from it.
SignedBoots ==
  passed \cap {"generated", "keysVerified"} # {} /\ "firmwareSigned" \in passed =>
    /\ FirmwareBoots(firmware)
    /\ "kernelSigned" \in passed => KernelBoots(firmware, kernel)

\* A firmware and a kernel that both verified with the keys of the directory,
\* whichever they are and whenever the two were signed, go together, although
\* nobody compared the kernel subkey in the one with the other's keyblock.
VerifiedBoots ==
  {"firmwareVerified", "kernelVerified"} \subseteq passed
    => KernelBoots(firmware, kernel)

\* Whatever interruptions left, generate run again gets to keys that verify.
GenerateRecovers ==
  stage = "pub" /\ pos = 1 /\ faults = 0
    ~> Idle /\ "generated" \in passed /\ \A b \in Keyblock : Unpacks(b, block[b])
=============================================================================
