--------------------------- MODULE VerifiedBoot_proofs ---------------------------
(***************************************************************************)
(* Theorems about the boot keys, for any number of runs of generate and of *)
(* failures.                                                               *)
(***************************************************************************)
EXTENDS VerifiedBoot, TLAPS

-----------------------------------------------------------------------------
(* The lists of keys and keyblocks                                         *)

LEMMA KeyNames ==
  /\ Len(KEYS) = 9
  /\ KEYS[1] = "ec_root_key" /\ KEYS[3] = "root_key"
  /\ KEYS[4] = "firmware_data_key" /\ KEYS[5] = "kernel_subkey"
  /\ \A i, j \in 1 .. 9 : KEYS[i] = KEYS[j] => i = j
  /\ \A i \in 1 .. 9 : KEYS[i] \in Key
  /\ \A k \in Key : \E i \in 1 .. 9 : k = KEYS[i]
<1>1. Len(KEYS) = 9 /\ DOMAIN KEYS = 1 .. 9
  BY DEF KEYS
<1>2. Key = {KEYS[i] : i \in 1 .. 9}
  BY <1>1 DEF Key, Range
<1>3. \A i, j \in 1 .. 9 : KEYS[i] = KEYS[j] => i = j
  BY DEF KEYS
<1>4. QED
  BY <1>1, <1>2, <1>3 DEF KEYS

LEMMA KeyblockNames ==
  /\ Len(KEYBLOCKS) = 5
  /\ \A i, j \in 1 .. 5 : KEYBLOCKS[i] = KEYBLOCKS[j] => i = j
  /\ \A i \in 1 .. 5 : KEYBLOCKS[i] \in Keyblock
  /\ \A b \in Keyblock : \E i \in 1 .. 5 : b = KEYBLOCKS[i]
  /\ Keyblock = {"firmware", "ec", "recovery_kernel", "kernel", "installer_kernel"}
<1>1. Len(KEYBLOCKS) = 5 /\ DOMAIN KEYBLOCKS = 1 .. 5
  BY DEF KEYBLOCKS
<1>2. Keyblock = {KEYBLOCKS[i] : i \in 1 .. 5}
  BY <1>1 DEF Keyblock, Range
<1>3. \A i, j \in 1 .. 5 : KEYBLOCKS[i] = KEYBLOCKS[j] => i = j
  BY DEF KEYBLOCKS
<1>4. {KEYBLOCKS[i] : i \in 1 .. 5}
        = {"firmware", "ec", "recovery_kernel", "kernel", "installer_kernel"}
  BY DEF KEYBLOCKS
<1>5. QED
  BY <1>1, <1>2, <1>3, <1>4

LEMMA KeyUses ==
  /\ {"ec_root_key", "root_key", "firmware_data_key", "kernel_subkey", "kernel_data_key",
      "recovery_key"} \subseteq Key
  /\ \A b \in Keyblock : DataKey[b] \in Key /\ SignKey[b] \in Key
  /\ DataKey["firmware"] = "firmware_data_key" /\ SignKey["firmware"] = "root_key"
  /\ DataKey["kernel"] = "kernel_data_key" /\ SignKey["kernel"] = "kernel_subkey"
  /\ SignKey["ec"] = "ec_root_key"
<1>1. Key = {KEYS[i] : i \in 1 .. 9}
  <2>1. DOMAIN KEYS = 1 .. 9
    BY DEF KEYS
  <2>2. QED
    BY <2>1 DEF Key, Range
<1>2. KEYS[1] = "ec_root_key" /\ KEYS[2] = "ec_data_key" /\ KEYS[3] = "root_key"
      /\ KEYS[4] = "firmware_data_key" /\ KEYS[5] = "kernel_subkey"
      /\ KEYS[6] = "kernel_data_key" /\ KEYS[7] = "recovery_key"
      /\ KEYS[8] = "recovery_kernel_data_key" /\ KEYS[9] = "installer_kernel_data_key"
  BY DEF KEYS
<1>3. {"ec_root_key", "ec_data_key", "root_key", "firmware_data_key", "kernel_subkey",
       "kernel_data_key", "recovery_key", "recovery_kernel_data_key",
       "installer_kernel_data_key"} \subseteq Key
  BY <1>1, <1>2
<1>4. \A b \in Keyblock : DataKey[b] \in Key /\ SignKey[b] \in Key
  BY <1>3, KeyblockNames DEF DataKey, SignKey
<1>5. QED
  BY <1>3, <1>4 DEF DataKey, SignKey

-----------------------------------------------------------------------------
(* Types                                                                   *)

LEMMA BlockFields ==
  ASSUME NEW x \in Block
  PROVE  x.data \in Made /\ x.sign \in Made
  BY DEF Block

LEMMA ImageFields ==
  ASSUME NEW f \in Image
  PROVE  /\ f.block \in Block /\ f.body \in Made /\ f.subkey \in Made /\ f.root \in Made
  BY DEF Image

(* The files' part of TypeOK, and the rest of it.                           *)
FilesOK ==
  /\ run \in 0 .. MaxRun
  /\ pub \in [Key -> Made \cup {Missing, Torn}]
  /\ priv \in [Key -> Made \cup {Missing, Torn}]
  /\ block \in [Keyblock -> Block \cup {Missing, Torn}]
  /\ firmware \in Image \cup {Torn}
  /\ gbb \in Made \cup {Missing}
  /\ kernel \in [block : Block, body : Made] \cup {Missing, Torn}

CommandOK ==
  /\ stage \in {"idle", "pub", "priv", "block", "firmware", "gbb", "pack", "sign"}
  /\ pos \in 1 .. 9 /\ (stage = "block" => pos \in 1 .. 5)
  /\ passed \subseteq {"generated", "keysVerified"} \cup FirmwareSteps \cup KernelSteps
  /\ faults \in 0 .. FaultBound

LEMMA TypeParts == TypeOK <=> FilesOK /\ CommandOK
  BY KeyNames, KeyblockNames DEF TypeOK, FilesOK, CommandOK

LEMMA MadeFacts ==
  ASSUME FilesOK
  PROVE  run \in Nat /\ run \in Made /\ 0 \in Made /\ Made \subseteq Nat
  BY BoundAssumption DEF FilesOK, Made

(* With another run, the files of the runs before are what they were.      *)
LEMMA FilesKeep ==
  ASSUME FilesOK, run' \in {run, run + 1}, run' \in 0 .. MaxRun,
         UNCHANGED <<pub, priv, block, firmware, gbb, kernel>>
  PROVE  FilesOK'
<1>1. Made \subseteq Made'
  BY MadeFacts DEF Made
<1>2. Block \subseteq Block'
  BY <1>1 DEF Block
<1>3. Image \subseteq Image'
  BY <1>1, <1>2 DEF Image
<1>4. [block : Block, body : Made] \subseteq [block : Block', body : Made']
  BY <1>1, <1>2
<1>5. QED
  BY <1>1, <1>2, <1>3, <1>4 DEF FilesOK

LEMMA SameFiles ==
  ASSUME FilesOK, UNCHANGED <<keyVars, firmware, gbb, kernel>>
  PROVE  FilesOK'
  BY FilesKeep DEF keyVars, FilesOK

(* What futility is given whole has its type.                              *)
LEMMA FirmwareKeysTypes ==
  ASSUME FilesOK, FirmwareKeys
  PROVE  /\ priv["firmware_data_key"] \in Made /\ pub["kernel_subkey"] \in Made
         /\ block["firmware"] \in Block
  BY KeyUses, KeyblockNames DEF FilesOK, FirmwareKeys, Whole

-----------------------------------------------------------------------------
(* The inductive invariant                                                 *)

AllKeys(n) == \A k \in Key : pub[k] = n /\ priv[k] = n

(* KEYS has the kernel subkey after the root key and the firmware's data   *)
(* key: as long as one of these is from run n, so is the subkey.           *)
Leads(n) ==
  priv["firmware_data_key"] = n \/ pub["root_key"] = n => pub["kernel_subkey"] = n

(* KEYS begins with the key the first keyblock verify asks for is signed   *)
(* by: once a run has written anything, only its own keyblocks unpack.     *)
KeysInv ==
  /\ \A k \in Key : pub[k] # 0 /\ priv[k] # 0
  /\ \A b \in Keyblock : Whole(block[b]) => block[b].data = block[b].sign
  /\ (\E n \in Nat : AllKeys(n)) \/ ~Unpacks("ec", block["ec"])
  /\ Whole(block["firmware"]) => Leads(block["firmware"].sign)

ImageInv ==
  Whole(firmware) \/ stage = "gbb" =>
    /\ firmware.block.data = firmware.block.sign
    /\ firmware.body = firmware.block.data => firmware.subkey = firmware.body
    /\ Leads(firmware.block.sign)

(* How far generate is; what was there before is of earlier runs.          *)
GenerateInv ==
  /\ stage \in {"pub", "priv", "block"} => passed = {} /\ run # 0
  /\ stage \in {"pub", "priv"} =>
       /\ \A i \in 1 .. 9 : i < pos => pub[KEYS[i]] = run /\ priv[KEYS[i]] = run
       /\ \A b \in Keyblock : Whole(block[b]) => block[b].sign < run
       /\ Whole(firmware) => firmware.block.sign < run
  /\ stage = "priv" => pub[KEYS[pos]] = run
  /\ stage = "block" =>
       /\ AllKeys(run)
       /\ \A i \in 1 .. 5 : i < pos => block[KEYBLOCKS[i]] = [data |-> run, sign |-> run]

(* What was signed is from the directory as it still is.                   *)
SignInv ==
  /\ stage \in {"firmware", "gbb"} => passed \cap FirmwareSteps = {}
  /\ stage \in {"pack", "sign"} => passed \cap KernelSteps = {}
  /\ stage = "gbb" => firmware \in Image
  /\ "firmwareSigned" \in passed \/ stage = "gbb" =>
       /\ firmware.block = block["firmware"]
       /\ firmware.body = priv["firmware_data_key"]
       /\ firmware.subkey = pub["kernel_subkey"]
  /\ "firmwareSigned" \in passed => firmware.root = pub["root_key"]
  /\ "kernelSigned" \in passed =>
       kernel.block = block["kernel"] /\ kernel.body = priv["kernel_data_key"]

VerifyInv ==
  /\ "firmwareVerified" \in passed =>
       /\ Whole(firmware)
       /\ firmware.body = firmware.block.data
       /\ firmware.block.sign = pub["root_key"]
  /\ "kernelVerified" \in passed =>
       kernel.body = kernel.block.data /\ kernel.block.sign = pub["kernel_subkey"]

IInv ==
  FilesOK /\ CommandOK /\ KeysInv /\ ImageInv /\ GenerateInv /\ SignInv /\ VerifyInv
  /\ KeysAgree

-----------------------------------------------------------------------------
(* Lemmas about the parts                                                  *)

LEMMA SameKeys ==
  ASSUME KeysInv, UNCHANGED keyVars
  PROVE  KeysInv'
  BY DEF KeysInv, keyVars, AllKeys, Leads, Unpacks, Whole

LEMMA SameImage ==
  ASSUME ImageInv, UNCHANGED <<keyVars, firmware>>, stage' = "gbb" => stage = "gbb"
  PROVE  ImageInv'
  BY DEF ImageInv, keyVars, Leads, Whole

LEMMA SameVerified ==
  ASSUME VerifyInv, UNCHANGED <<keyVars, firmware, kernel>>,
         passed' \cap {"firmwareVerified", "kernelVerified"} \subseteq passed
  PROVE  VerifyInv'
  BY DEF VerifyInv, keyVars, Whole

LEMMA SameAgreement ==
  ASSUME KeysAgree, UNCHANGED keyVars,
         passed' \cap {"generated", "keysVerified"} \subseteq passed
  PROVE  KeysAgree'
  BY DEF KeysAgree, KeysOf, keyVars

(* generate writes a key, whole or not.                                    *)
LEMMA KeyWritten ==
  ASSUME FilesOK, CommandOK, KeysInv, ImageInv, GenerateInv,
         stage \in {"pub", "priv"}, NEW v \in {run, Torn},
         \/ stage = "pub" /\ pub' = [pub EXCEPT ![KEYS[pos]] = v] /\ priv' = priv
         \/ stage = "priv" /\ priv' = [priv EXCEPT ![KEYS[pos]] = v] /\ pub' = pub,
         UNCHANGED <<run, block, firmware>>
  PROVE  KeysInv' /\ (stage' # "gbb" => ImageInv')
<1>1. /\ pos \in 1 .. 9 /\ KEYS[pos] \in Key /\ run \in Nat /\ run # 0 /\ v # 0
      /\ Torn \notin Nat
  BY KeyNames, MadeFacts, ValueAssumption DEF CommandOK, GenerateInv
<1>2. /\ pub \in [Key -> Made \cup {Missing, Torn}]
      /\ priv \in [Key -> Made \cup {Missing, Torn}]
  BY DEF FilesOK
<1>3. \A k \in Key : pub'[k] # 0 /\ priv'[k] # 0
  BY <1>1, <1>2 DEF KeysInv
<1>4. \A n \in Nat : n < run /\ Leads(n) => Leads(n)'
  <2> SUFFICES ASSUME NEW n \in Nat, n < run, Leads(n)
               PROVE  Leads(n)'
    OBVIOUS
  <2>1. n # v
    BY <1>1
  <2>2. CASE stage = "pub" /\ pos = 5
    <3>1. pub["root_key"] = run /\ priv["firmware_data_key"] = run
      BY <2>2, KeyNames DEF GenerateInv
    <3>2. pub'["root_key"] = run /\ priv'["firmware_data_key"] = run
      BY <1>2, <2>2, <3>1, KeyNames
    <3>3. QED
      BY <3>2 DEF Leads
  <2>3. CASE ~(stage = "pub" /\ pos = 5)
    <3>1. pub'["kernel_subkey"] = pub["kernel_subkey"]
      BY <1>1, <1>2, <2>3, KeyNames
    <3>2. pub'["root_key"] \in {pub["root_key"], v}
          /\ priv'["firmware_data_key"] \in {priv["firmware_data_key"], v}
      BY <1>1, <1>2, KeyUses
    <3>3. QED
      BY <2>1, <3>1, <3>2 DEF Leads
  <2>4. QED
    BY <2>2, <2>3
<1>5. \A b \in Keyblock : Whole(block[b]) => block[b].sign \in Nat
  BY MadeFacts DEF FilesOK, Whole, Block
<1>6. ~Unpacks("ec", block["ec"])'
  <2>1. pub'["ec_root_key"] \in {run, Torn}
    <3>1. CASE pos = 1 /\ stage = "pub"
      BY <1>1, <1>2, <3>1, KeyNames
    <3>2. CASE pos = 1 /\ stage = "priv"
      BY <3>2, KeyNames DEF GenerateInv
    <3>3. CASE pos # 1
      <4>1. 1 < pos /\ 1 \in 1 .. 9
        BY <1>1, <3>3
      <4>2. pub["ec_root_key"] = run
        BY <4>1, KeyNames DEF GenerateInv
      <4>3. pub'["ec_root_key"] = pub["ec_root_key"]
        BY <1>1, <1>2, <3>3, KeyNames
      <4>4. QED
        BY <4>2, <4>3
    <3>4. QED
      BY <3>1, <3>2, <3>3
  <2>2. Whole(block["ec"]) => block["ec"].sign < run /\ block["ec"].sign \in Nat
    BY <1>5, KeyblockNames DEF GenerateInv
  <2>3. QED
    BY <1>1, <2>1, <2>2, KeyUses DEF Unpacks, Whole
<1>7. KeysInv'
  <2>1. Whole(block["firmware"]) => Leads(block["firmware"].sign)'
    BY <1>4, <1>5, KeyblockNames DEF KeysInv, GenerateInv
  <2>2. QED
    BY <1>3, <1>6, <2>1 DEF KeysInv, Whole
<1>8. stage' # "gbb" => ImageInv'
  <2>1. Whole(firmware) => firmware.block.sign \in Nat
    BY MadeFacts DEF FilesOK, Whole, Image, Block
  <2>2. Whole(firmware) => Leads(firmware.block.sign)'
    BY <1>4, <2>1 DEF ImageInv, GenerateInv
  <2>3. QED
    BY <2>2 DEF ImageInv, Whole
<1>9. QED
  BY <1>7, <1>8

-----------------------------------------------------------------------------
(* Every action keeps the invariant                                        *)

LEMMA InitIInv == Init => IInv
<1> SUFFICES ASSUME Init PROVE IInv
  OBVIOUS
<1>1. FilesOK
  <2>1. run = 0 /\ run \in 0 .. MaxRun /\ 0 \in Made
    BY BoundAssumption DEF Init, Made
  <2>2. Fresh \in Image
    BY <2>1 DEF Fresh, Image, Block
  <2>3. QED
    BY <2>1, <2>2 DEF Init, FilesOK
<1>2. CommandOK
  BY BoundAssumption DEF Init, CommandOK
<1>3. KeysInv
  <2>1. \A b \in Keyblock : ~Whole(block[b])
    BY DEF Init, Whole
  <2>2. Missing # 0
    BY ValueAssumption
  <2>3. \A k \in Key : pub[k] = Missing /\ priv[k] = Missing
    BY DEF Init
  <2>4. ~Unpacks("ec", block["ec"]) /\ ~Whole(block["firmware"])
    BY <2>1, KeyblockNames DEF Unpacks
  <2>5. QED
    BY <2>1, <2>2, <2>3, <2>4 DEF KeysInv
<1>4. ImageInv
  <2>1. pub["root_key"] # 0 /\ priv["firmware_data_key"] # 0
    BY <1>3, KeyUses DEF KeysInv
  <2>2. QED
    BY <2>1 DEF Init, ImageInv, Fresh, Leads
<1>5. GenerateInv /\ SignInv /\ VerifyInv /\ KeysAgree
  BY DEF Init, GenerateInv, SignInv, VerifyInv, KeysAgree
<1>6. QED
  BY <1>1, <1>2, <1>3, <1>4, <1>5 DEF IInv

(* A command that ends, or starts, with the files as they were.            *)
LEMMA NothingWritten ==
  ASSUME IInv, UNCHANGED <<keyVars, firmware, gbb, kernel>>, CommandOK',
         stage' \in {"idle", "firmware", "pack", "sign"}, passed' \subseteq passed,
         stage' = "firmware" => passed' \cap FirmwareSteps = {},
         stage' \in {"pack", "sign"} => passed' \cap KernelSteps = {}
  PROVE  IInv'
<1> USE DEF IInv
<1>1. FilesOK' /\ KeysInv' /\ ImageInv'
  BY SameFiles, SameKeys, SameImage
<1>2. GenerateInv'
  BY DEF GenerateInv
<1>3. SignInv'
  BY DEF SignInv, keyVars
<1>4. VerifyInv' /\ KeysAgree'
  BY SameVerified, SameAgreement
<1>5. QED
  BY <1>1, <1>2, <1>3, <1>4

LEMMA CommandsStart ==
  ASSUME IInv,
         FirmwareSign \/ (\E action \in {"pack", "sign"} : KernelPrepare(action))
  PROVE  IInv'
<1>1. CASE FirmwareSign
  <2>1. stage' = "firmware" /\ pos' = 1 /\ passed' = passed \ FirmwareSteps
        /\ UNCHANGED <<keyVars, firmware, gbb, kernel, faults>>
    BY <1>1 DEF FirmwareSign, Goto
  <2>2. CommandOK'
    BY <2>1 DEF IInv, CommandOK, FirmwareSteps, KernelSteps
  <2>3. QED
    BY <2>1, <2>2, NothingWritten
<1>2. CASE \E action \in {"pack", "sign"} : KernelPrepare(action)
  <2>1. stage' \in {"pack", "sign"} /\ pos' = 1 /\ passed' = passed \ KernelSteps
        /\ UNCHANGED <<keyVars, firmware, gbb, kernel, faults>>
    BY <1>2 DEF KernelPrepare, Goto
  <2>2. CommandOK'
    BY <2>1 DEF IInv, CommandOK, FirmwareSteps, KernelSteps
  <2>3. QED
    BY <2>1, <2>2, NothingWritten
<1>3. QED
  BY <1>1, <1>2

LEMMA CommandsFail ==
  ASSUME IInv, FirmwareSignFails \/ KernelPrepareFails
  PROVE  IInv'
<1>1. stage' = "idle" /\ passed' = passed /\ pos' = 1
  BY DEF FirmwareSignFails, KernelPrepareFails, End, Goto
<1>2. CommandOK'
  BY <1>1 DEF IInv, FirmwareSignFails, KernelPrepareFails, CommandOK
<1>3. QED
  BY <1>1, <1>2, NothingWritten DEF FirmwareSignFails, KernelPrepareFails

LEMMA VerifyKeysKeeps ==
  ASSUME IInv, VerifyKeys
  PROVE  IInv'
<1> USE DEF IInv
<1>1. stage' = "idle" /\ pos' = 1 /\ passed' = passed \cup {"keysVerified"}
      /\ UNCHANGED <<keyVars, firmware, gbb, kernel, faults>>
  BY DEF VerifyKeys, End, Goto
<1>2. FilesOK' /\ KeysInv' /\ ImageInv' /\ VerifyInv'
  BY <1>1, SameFiles, SameKeys, SameImage, SameVerified
<1>3. CommandOK' /\ GenerateInv' /\ SignInv'
  BY <1>1 DEF CommandOK, GenerateInv, SignInv, keyVars
<1>4. \E n \in Nat : KeysOf(n) /\ n = pub["ec_root_key"]
  <2>1. \A b \in Keyblock : Unpacks(b, block[b])
    BY DEF VerifyKeys
  <2>2. PICK n \in Nat : AllKeys(n)
    BY <2>1, KeyblockNames DEF KeysInv
  <2>3. \A b \in Keyblock : block[b] = [data |-> n, sign |-> n]
    <3> SUFFICES ASSUME NEW b \in Keyblock
                 PROVE  block[b] = [data |-> n, sign |-> n]
      OBVIOUS
    <3>1. Whole(block[b]) /\ block[b].sign = n
      BY <2>1, <2>2, KeyUses DEF Unpacks, AllKeys
    <3>2. block[b].data = n /\ block[b] \in Block
      BY <3>1 DEF KeysInv, FilesOK, Whole
    <3>3. QED
      BY <3>1, <3>2 DEF Block
  <2>4. QED
    BY <2>2, <2>3, KeyUses DEF KeysOf, AllKeys
<1>5. KeysAgree'
  BY <1>1, <1>4 DEF KeysAgree, KeysOf, keyVars
<1>6. QED
  BY <1>2, <1>3, <1>5

LEMMA GenerateKeeps ==
  ASSUME IInv, Generate
  PROVE  IInv'
<1> USE DEF IInv
<1>1. stage' = "pub" /\ pos' = 1 /\ passed' = {} /\ run' = run + 1 /\ run < MaxRun
      /\ UNCHANGED <<pub, priv, block, firmware, gbb, kernel, faults>>
  BY DEF Generate, Goto
<1>2. run \in Nat /\ MaxRun \in Nat /\ \A n \in Made : n < run + 1
  BY BoundAssumption DEF FilesOK, Made
<1>3. FilesOK'
  BY <1>1, <1>2, FilesKeep
<1>4. CommandOK' /\ SignInv' /\ VerifyInv' /\ KeysAgree'
  BY <1>1 DEF CommandOK, SignInv, VerifyInv, KeysAgree
<1>5. KeysInv' /\ ImageInv'
  BY <1>1 DEF KeysInv, ImageInv, AllKeys, Leads, Unpacks, Whole
<1>6. GenerateInv'
  <2>1. \A b \in Keyblock : Whole(block[b]) => block[b].sign < run'
    <3>1. \A b \in Keyblock : Whole(block[b]) => block[b].sign \in Made
      BY BlockFields DEF FilesOK, Whole
    <3>2. QED
      BY <1>1, <1>2, <3>1
  <2>2. Whole(firmware) => firmware.block.sign < run'
    <3>1. Whole(firmware) => firmware.block.sign \in Made
      BY ImageFields, BlockFields DEF FilesOK, Whole
    <3>2. QED
      BY <1>1, <1>2, <3>1
  <2>3. run' # 0 /\ \A i \in 1 .. 9 : ~(i < 1)
    BY <1>1, <1>2
  <2>4. QED
    BY <1>1, <2>1, <2>2, <2>3 DEF GenerateInv, Whole
<1>7. QED
  BY <1>3, <1>4, <1>5, <1>6

(* Nothing has ended well while keys are written.                          *)
LEMMA NothingPassed ==
  ASSUME passed = {}, passed' = {}
  PROVE  VerifyInv' /\ KeysAgree'
  BY DEF VerifyInv, KeysAgree

LEMMA WritePubKeeps ==
  ASSUME IInv, WritePub
  PROVE  IInv'
<1> USE DEF IInv
<1>1. stage = "pub" /\ stage' = "priv" /\ pos' = pos /\ passed' = passed
      /\ pub' = [pub EXCEPT ![KEYS[pos]] = run]
      /\ UNCHANGED <<run, priv, block, firmware, gbb, kernel, faults>>
  BY DEF WritePub, Goto
<1>2. passed = {} /\ run # 0 /\ pos \in 1 .. 9 /\ KEYS[pos] \in Key
  BY <1>1, KeyNames DEF GenerateInv, CommandOK
<1>3. FilesOK'
  BY <1>1, MadeFacts DEF FilesOK, Made, Block, Image
<1>4. KeysInv' /\ ImageInv'
  BY <1>1, KeyWritten
<1>5. GenerateInv'
  <2>1. \A i \in 1 .. 9 : i < pos => pub'[KEYS[i]] = run /\ priv[KEYS[i]] = run
    BY <1>1, <1>2, KeyNames DEF GenerateInv, FilesOK
  <2>2. pub'[KEYS[pos]] = run
    BY <1>1, <1>2 DEF FilesOK
  <2>3. QED
    BY <1>1, <1>2, <2>1, <2>2 DEF GenerateInv, Whole
<1>6. CommandOK' /\ SignInv' /\ VerifyInv' /\ KeysAgree'
  BY <1>1, <1>2, NothingPassed DEF CommandOK, SignInv
<1>7. QED
  BY <1>3, <1>4, <1>5, <1>6

LEMMA WritePrivKeeps ==
  ASSUME IInv, WritePriv
  PROVE  IInv'
<1> USE DEF IInv
<1>1. stage = "priv" /\ passed' = passed
      /\ priv' = [priv EXCEPT ![KEYS[pos]] = run]
      /\ UNCHANGED <<run, pub, block, firmware, gbb, kernel, faults>>
      /\ IF pos < 9 THEN stage' = "pub" /\ pos' = pos + 1 ELSE stage' = "block" /\ pos' = 1
  BY KeyNames DEF WritePriv, Goto
<1>2. passed = {} /\ run # 0 /\ pos \in 1 .. 9 /\ KEYS[pos] \in Key
  BY <1>1, KeyNames DEF GenerateInv, CommandOK
<1>3. FilesOK'
  BY <1>1, MadeFacts DEF FilesOK, Made, Block, Image
<1>4. KeysInv' /\ ImageInv'
  BY <1>1, KeyWritten
<1>5. GenerateInv'
  <2>1. \A i \in 1 .. 9 : i <= pos => pub[KEYS[i]] = run /\ priv'[KEYS[i]] = run
    BY <1>1, <1>2, KeyNames DEF GenerateInv, FilesOK
  <2>2. CASE pos < 9
    <3>1. \A i \in 1 .. 9 : i < pos + 1 => i <= pos
      BY <1>2
    <3>2. QED
      BY <1>1, <1>2, <2>1, <2>2, <3>1 DEF GenerateInv, Whole
  <2>3. CASE ~(pos < 9)
    <3>1. \A k \in Key : pub[k] = run /\ priv'[k] = run
      BY <1>2, <2>1, <2>3, KeyNames
    <3>2. \A i \in 1 .. 5 : ~(i < 1)
      OBVIOUS
    <3>3. QED
      BY <1>1, <1>2, <2>3, <3>1, <3>2 DEF GenerateInv, AllKeys
  <2>4. QED
    BY <2>2, <2>3
<1>6. CommandOK' /\ SignInv' /\ VerifyInv' /\ KeysAgree'
  BY <1>1, <1>2, NothingPassed DEF CommandOK, SignInv
<1>7. QED
  BY <1>3, <1>4, <1>5, <1>6

LEMMA WriteBlockKeeps ==
  ASSUME IInv, WriteBlock
  PROVE  IInv'
<1> USE DEF IInv
<1> DEFINE b == KEYBLOCKS[pos]
           packed == [data |-> run, sign |-> run]
<1>1. stage = "block" /\ passed = {} /\ run # 0 /\ AllKeys(run) /\ pos \in 1 .. 5
      /\ b \in Keyblock
  BY KeyblockNames DEF WriteBlock, GenerateInv, CommandOK
<1>2. packed = [data |-> pub[DataKey[b]], sign |-> priv[SignKey[b]]]
  BY <1>1, KeyUses DEF AllKeys
<1>3. /\ UNCHANGED <<run, pub, priv, firmware, gbb, kernel, faults>>
      /\ block' = [block EXCEPT ![b] = packed]
      /\ \/ stage' = "block" /\ pos < 5 /\ pos' = pos + 1 /\ passed' = passed
         \/ stage' = "idle" /\ pos' = 1 /\ passed' = passed
         \/ stage' = "idle" /\ pos' = 1 /\ pos = 5 /\ passed' = {"generated"}
  <2>1. /\ UNCHANGED <<run, pub, priv, firmware, gbb, kernel, faults>>
        /\ block' = [block EXCEPT ![b] = packed]
        /\ \/ stage' = "block" /\ pos < 5 /\ pos' = pos + 1 /\ passed' = passed
           \/ /\ ~(Unpacks(b, packed) /\ pos < 5)
              /\ End(IF Unpacks(b, packed) THEN {"generated"} ELSE {})
    BY <1>2, KeyblockNames DEF WriteBlock, Goto
  <2>2. CASE Unpacks(b, packed) /\ ~(pos < 5)
    <3>1. \/ stage' = "block" /\ pos < 5 /\ pos' = pos + 1 /\ passed' = passed
          \/ End({"generated"})
      BY <2>1, <2>2
    <3>2. QED
      BY <1>1, <2>1, <2>2, <3>1 DEF End, Goto
  <2>3. CASE ~Unpacks(b, packed)
    <3>1. \/ stage' = "block" /\ pos < 5 /\ pos' = pos + 1 /\ passed' = passed
          \/ End({})
      BY <2>1, <2>3
    <3>2. QED
      BY <1>1, <2>1, <3>1 DEF End, Goto
  <2>4. QED
    BY <1>1, <2>1, <2>2, <2>3
<1> HIDE DEF b, packed
<1>4. packed \in Block /\ packed.data = run /\ packed.sign = run
  BY MadeFacts DEF packed, Block
<1>5. FilesOK'
  BY <1>1, <1>3, <1>4 DEF FilesOK, Made, Block, Image
<1>6. CommandOK'
  BY <1>1, <1>3 DEF CommandOK, FirmwareSteps, KernelSteps
<1>7. \A c \in Keyblock : block'[c] = IF c = b THEN packed ELSE block[c]
  BY <1>1, <1>3 DEF FilesOK
<1>8. KeysInv'
  <2>1. \A c \in Keyblock : Whole(block'[c]) => block'[c].data = block'[c].sign
    BY <1>4, <1>7 DEF KeysInv
  <2>2. AllKeys(run)' /\ run' \in Nat
    BY <1>1, <1>3, MadeFacts DEF AllKeys
  <2>3. Leads(run)
    BY <1>1, KeyUses DEF Leads, AllKeys
  <2>4. (Whole(block["firmware"]) => Leads(block["firmware"].sign))'
    BY <1>3, <1>4, <1>7, <2>3, KeyblockNames DEF KeysInv, Leads
  <2>5. QED
    BY <1>3, <2>1, <2>2, <2>4 DEF KeysInv, Whole
<1>9. ImageInv'
  BY <1>3 DEF ImageInv, Leads, Whole
<1>10. SignInv' /\ VerifyInv'
  BY <1>1, <1>3 DEF SignInv, VerifyInv
<1>11. \A i \in 1 .. 5 : i <= pos => block'[KEYBLOCKS[i]] = packed
  <2>1. \A i \in 1 .. 5 : KEYBLOCKS[i] = b => i = pos
    BY <1>1, KeyblockNames DEF b
  <2>2. \A i \in 1 .. 5 : i < pos => block[KEYBLOCKS[i]] = packed
    BY <1>1 DEF GenerateInv, packed
  <2>3. \A i \in 1 .. 5 : i <= pos => i < pos \/ KEYBLOCKS[i] = b
    BY <1>1 DEF b
  <2>4. QED
    BY <1>7, <2>2, <2>3, KeyblockNames
<1>12. GenerateInv'
  <2>1. CASE stage' = "block"
    <3>1. \A i \in 1 .. 5 : i < pos' => block'[KEYBLOCKS[i]] = packed
      BY <1>1, <1>3, <1>11, <2>1
    <3>2. AllKeys(run)' /\ passed' = {} /\ run' # 0
      BY <1>1, <1>3, <2>1 DEF AllKeys
    <3>3. QED
      BY <1>3, <2>1, <3>1, <3>2 DEF GenerateInv, packed
  <2>2. CASE stage' = "idle"
    BY <2>2 DEF GenerateInv
  <2>3. QED
    BY <1>3, <2>1, <2>2
<1>13. KeysAgree'
  <2>1. CASE passed' = {}
    BY <2>1 DEF KeysAgree
  <2>2. CASE pos = 5
    <3>1. \A c \in Keyblock : block'[c] = packed
      BY <1>11, <2>2, KeyblockNames
    <3>2. pub'["ec_root_key"] = run
      BY <1>1, <1>3, KeyUses DEF AllKeys
    <3>3. KeysOf(run)'
      BY <1>1, <1>3, <3>1 DEF KeysOf, AllKeys, packed
    <3>4. QED
      BY <1>3, <3>2, <3>3 DEF KeysAgree, KeysOf
  <2>3. QED
    BY <1>1, <1>3, <2>1, <2>2
<1>14. QED
  BY <1>5, <1>6, <1>8, <1>9, <1>10, <1>12, <1>13

-----------------------------------------------------------------------------
(* The actions on the images                                               *)

(* An action that writes the firmware image, or the GBB beside it.         *)
LEMMA FirmwareWritten ==
  ASSUME IInv, UNCHANGED <<keyVars, kernel>>, CommandOK', stage' \in {"idle", "gbb"},
         firmware' \in Image, gbb' \in Made \cup {Missing},
         firmware'.block.data = firmware'.block.sign,
         firmware'.body = firmware'.block.data => firmware'.subkey = firmware'.body,
         Leads(firmware'.block.sign),
         passed' \subseteq passed \cup {"firmwareSigned"},
         "firmwareVerified" \notin passed',
         "firmwareSigned" \in passed' \/ stage' = "gbb" =>
           /\ firmware'.block = block["firmware"]
           /\ firmware'.body = priv["firmware_data_key"]
           /\ firmware'.subkey = pub["kernel_subkey"],
         "firmwareSigned" \in passed' => firmware'.root = pub["root_key"],
         stage' = "gbb" => "firmwareSigned" \notin passed'
  PROVE  IInv'
<1> USE DEF IInv
<1>1. FilesOK'
  BY DEF FilesOK, keyVars, Made, Block, Image
<1>2. KeysInv' /\ KeysAgree'
  BY SameKeys, SameAgreement
<1>3. ImageInv'
  BY DEF ImageInv, keyVars, Leads
<1>4. GenerateInv'
  BY DEF GenerateInv
<1>5. SignInv'
  BY DEF SignInv, keyVars, Made, Block, Image, FirmwareSteps
<1>6. VerifyInv'
  BY DEF VerifyInv, keyVars
<1>7. QED
  BY <1>1, <1>2, <1>3, <1>4, <1>5, <1>6

LEMMA SignFirmwareKeeps ==
  ASSUME IInv, SignFirmware
  PROVE  IInv'
<1> USE DEF IInv
<1>1. /\ stage = "firmware" /\ stage' = "gbb" /\ pos' = 1
      /\ Whole(firmware) /\ FirmwareKeys
      /\ firmware' = [firmware EXCEPT !.block = block["firmware"],
                                      !.body = priv["firmware_data_key"],
                                      !.subkey = pub["kernel_subkey"]]
      /\ UNCHANGED <<keyVars, gbb, kernel, passed, faults>>
  BY DEF SignFirmware, Goto
<1>2. firmware \in Image /\ gbb \in Made \cup {Missing}
  BY <1>1 DEF FilesOK, Whole
<1>3. /\ firmware' \in Image
      /\ firmware'.block = block["firmware"]
      /\ firmware'.body = priv["firmware_data_key"]
      /\ firmware'.subkey = pub["kernel_subkey"]
  BY <1>1, <1>2, FirmwareKeysTypes DEF Image
<1>4. block["firmware"].data = block["firmware"].sign /\ Leads(block["firmware"].sign)
  BY <1>1, KeyblockNames DEF FirmwareKeys, KeysInv
<1>5. "firmwareSigned" \notin passed /\ "firmwareVerified" \notin passed
  BY <1>1 DEF SignInv, FirmwareSteps
<1>6. CommandOK'
  BY <1>1 DEF CommandOK, FirmwareSteps, KernelSteps
<1>7. firmware'.body = firmware'.block.data => firmware'.subkey = firmware'.body
  BY <1>3, <1>4 DEF Leads
<1>8. QED
  BY <1>1, <1>2, <1>3, <1>4, <1>5, <1>6, <1>7, FirmwareWritten

LEMMA SetRootKeyKeeps ==
  ASSUME IInv, SetRootKey
  PROVE  IInv'
<1> USE DEF IInv
<1>1. /\ stage = "gbb" /\ stage' = "idle" /\ pos' = 1
      /\ Whole(pub["root_key"])
      /\ firmware' = [firmware EXCEPT !.root = pub["root_key"]]
      /\ passed' = passed \cup {"firmwareSigned"}
      /\ UNCHANGED <<keyVars, gbb, kernel, faults>>
  BY DEF SetRootKey, End, Goto
<1>2. firmware \in Image /\ gbb \in Made \cup {Missing} /\ pub["root_key"] \in Made
  BY <1>1, KeyUses DEF FilesOK, SignInv, Whole
<1>3. /\ firmware' \in Image /\ firmware'.root = pub["root_key"]
      /\ firmware'.block = firmware.block /\ firmware'.body = firmware.body
      /\ firmware'.subkey = firmware.subkey
  BY <1>1, <1>2 DEF Image
<1>4. "firmwareVerified" \notin passed'
  BY <1>1 DEF SignInv, FirmwareSteps
<1>5. CommandOK'
  BY <1>1 DEF CommandOK, FirmwareSteps, KernelSteps
<1>6. /\ firmware.block.data = firmware.block.sign /\ Leads(firmware.block.sign)
      /\ firmware.body = firmware.block.data => firmware.subkey = firmware.body
  BY <1>1 DEF ImageInv
<1>7. /\ firmware.block = block["firmware"] /\ firmware.body = priv["firmware_data_key"]
      /\ firmware.subkey = pub["kernel_subkey"]
  BY <1>1 DEF SignInv
<1>8. QED
  BY <1>1, <1>2, <1>3, <1>4, <1>5, <1>6, <1>7, FirmwareWritten

LEMMA VerifyFirmwareKeeps ==
  ASSUME IInv, VerifyFirmware
  PROVE  IInv'
<1> USE DEF IInv
<1>1. /\ stage' = "idle" /\ pos' = 1
      /\ Whole(firmware)
      /\ FirmwareBoots([firmware EXCEPT !.root = pub["root_key"]])
      /\ passed' = passed \cup {"firmwareVerified"}
      /\ UNCHANGED <<keyVars, firmware, gbb, kernel, faults>>
  BY DEF VerifyFirmware, End, Goto
<1>2. firmware.block.sign = pub["root_key"] /\ firmware.body = firmware.block.data
  BY <1>1 DEF FilesOK, Whole, FirmwareBoots, Image
<1>3. FilesOK' /\ KeysInv' /\ ImageInv' /\ KeysAgree'
  BY <1>1, SameFiles, SameKeys, SameImage, SameAgreement
<1>4. CommandOK' /\ GenerateInv'
  BY <1>1 DEF CommandOK, GenerateInv, FirmwareSteps, KernelSteps
<1>5. SignInv' /\ VerifyInv'
  BY <1>1, <1>2 DEF SignInv, VerifyInv, keyVars, Whole
<1>6. QED
  BY <1>3, <1>4, <1>5

LEMMA GbbExtractKeeps ==
  ASSUME IInv, GbbExtract
  PROVE  IInv'
<1> USE DEF IInv
<1>1. /\ stage = "idle" /\ Whole(firmware) /\ gbb' = firmware.root
      /\ UNCHANGED <<keyVars, firmware, kernel, stage, pos, passed, faults>>
  BY DEF GbbExtract, Idle
<1>2. FilesOK'
  BY <1>1, ImageFields DEF FilesOK, Whole, keyVars, Made, Block, Image
<1>3. KeysInv' /\ ImageInv' /\ KeysAgree' /\ VerifyInv'
  BY <1>1, SameKeys, SameImage, SameAgreement, SameVerified
<1>4. CommandOK' /\ GenerateInv' /\ SignInv'
  BY <1>1 DEF CommandOK, GenerateInv, SignInv, keyVars, FirmwareSteps, KernelSteps
<1>5. QED
  BY <1>2, <1>3, <1>4

LEMMA GbbReplaceKeeps ==
  ASSUME IInv, GbbReplace
  PROVE  IInv'
<1> USE DEF IInv
<1>1. /\ stage = "idle" /\ stage' = stage /\ pos' = pos /\ faults' = faults
      /\ Whole(firmware) /\ gbb # Missing
      /\ firmware' = [firmware EXCEPT !.root = gbb]
      /\ passed' = passed \ FirmwareSteps
      /\ UNCHANGED <<keyVars, gbb, kernel>>
  BY DEF GbbReplace, Idle
<1>2. firmware \in Image /\ gbb \in Made
  BY <1>1 DEF FilesOK, Whole
<1>3. /\ firmware' \in Image
      /\ firmware'.block = firmware.block /\ firmware'.body = firmware.body
      /\ firmware'.subkey = firmware.subkey
  BY <1>1, <1>2 DEF Image
<1>4. "firmwareVerified" \notin passed' /\ "firmwareSigned" \notin passed'
      /\ passed' \subseteq passed
  BY <1>1 DEF FirmwareSteps
<1>5. CommandOK'
  BY <1>1, <1>4 DEF CommandOK, FirmwareSteps, KernelSteps
<1>6. /\ firmware.block.data = firmware.block.sign /\ Leads(firmware.block.sign)
      /\ firmware.body = firmware.block.data => firmware.subkey = firmware.body
  BY <1>1 DEF ImageInv
<1>7. QED
  BY <1>1, <1>2, <1>3, <1>4, <1>5, <1>6, FirmwareWritten

LEMMA InstallFirmwareKeeps ==
  ASSUME IInv, InstallFirmware
  PROVE  IInv'
<1> USE DEF IInv
<1>1. /\ stage = "idle" /\ stage' = stage /\ pos' = pos /\ faults' = faults
      /\ firmware' = Fresh /\ passed' = passed \ FirmwareSteps
      /\ UNCHANGED <<keyVars, gbb, kernel>>
  BY DEF InstallFirmware, Idle
<1>2. Fresh \in Image /\ Fresh.block.data = 0 /\ Fresh.block.sign = 0
      /\ Fresh.subkey = Fresh.body
  BY MadeFacts DEF Fresh, Image, Block
<1>3. Leads(0)
  BY KeyUses DEF KeysInv, Leads
<1>4. "firmwareVerified" \notin passed' /\ "firmwareSigned" \notin passed'
      /\ passed' \subseteq passed
  BY <1>1 DEF FirmwareSteps
<1>5. CommandOK' /\ gbb' \in Made \cup {Missing}
  BY <1>1, <1>4 DEF CommandOK, FilesOK, FirmwareSteps, KernelSteps
<1>6. QED
  BY <1>1, <1>2, <1>3, <1>4, <1>5, FirmwareWritten

(* An action that writes the kernel image.                                 *)
LEMMA KernelWritten ==
  ASSUME IInv, UNCHANGED <<keyVars, firmware, gbb>>, CommandOK', stage' = "idle",
         kernel' \in [block : Block, body : Made] \cup {Missing, Torn},
         passed' \subseteq passed \cup {"kernelSigned"},
         "kernelVerified" \notin passed',
         "kernelSigned" \in passed' =>
           kernel'.block = block["kernel"] /\ kernel'.body = priv["kernel_data_key"]
  PROVE  IInv'
<1> USE DEF IInv
<1>1. FilesOK'
  BY DEF FilesOK, keyVars, Made, Block, Image
<1>2. KeysInv' /\ ImageInv' /\ KeysAgree'
  BY SameKeys, SameImage, SameAgreement
<1>3. GenerateInv' /\ SignInv' /\ VerifyInv'
  BY DEF GenerateInv, SignInv, VerifyInv, keyVars, Whole
<1>4. QED
  BY <1>1, <1>2, <1>3

LEMMA WriteKernelKeeps ==
  ASSUME IInv, WriteKernel
  PROVE  IInv'
<1> USE DEF IInv
<1>1. /\ stage \in {"pack", "sign"} /\ stage' = "idle" /\ pos' = 1 /\ Signable
      /\ kernel' = [block |-> block["kernel"], body |-> priv["kernel_data_key"]]
      /\ passed' = passed \cup {"kernelSigned"}
      /\ UNCHANGED <<keyVars, firmware, gbb, faults>>
  BY DEF WriteKernel, End, Goto
<1>2. block["kernel"] \in Block /\ priv["kernel_data_key"] \in Made
  BY <1>1, KeyUses, KeyblockNames DEF Signable, FilesOK, Whole
<1>3. "kernelVerified" \notin passed'
  BY <1>1 DEF SignInv, KernelSteps
<1>4. CommandOK'
  BY <1>1 DEF CommandOK, FirmwareSteps, KernelSteps
<1>5. QED
  BY <1>1, <1>2, <1>3, <1>4, KernelWritten

LEMMA VerifyKernelKeeps ==
  ASSUME IInv, VerifyKernel
  PROVE  IInv'
<1> USE DEF IInv
<1>1. /\ stage' = "idle" /\ pos' = 1 /\ passed' = passed \cup {"kernelVerified"}
      /\ kernel.block.sign = pub["kernel_subkey"] /\ kernel.body = kernel.block.data
      /\ UNCHANGED <<keyVars, firmware, gbb, kernel, faults>>
  BY DEF VerifyKernel, KernelBoots, End, Goto
<1>2. FilesOK' /\ KeysInv' /\ ImageInv' /\ KeysAgree'
  BY <1>1, SameFiles, SameKeys, SameImage, SameAgreement
<1>3. CommandOK' /\ GenerateInv'
  BY <1>1 DEF CommandOK, GenerateInv, FirmwareSteps, KernelSteps
<1>4. SignInv' /\ VerifyInv'
  BY <1>1 DEF SignInv, VerifyInv, keyVars, Whole
<1>5. QED
  BY <1>2, <1>3, <1>4

LEMMA InstallKernelKeeps ==
  ASSUME IInv, InstallKernel
  PROVE  IInv'
<1> USE DEF IInv
<1>1. /\ stage' = "idle" /\ pos' = pos /\ kernel' = Missing
      /\ stage = "idle" /\ passed' = passed \ KernelSteps
      /\ UNCHANGED <<keyVars, firmware, gbb, faults>>
  BY DEF InstallKernel, Idle
<1>2. "kernelVerified" \notin passed' /\ "kernelSigned" \notin passed'
      /\ passed' \subseteq passed
  BY <1>1 DEF KernelSteps
<1>3. CommandOK'
  BY <1>1, <1>2 DEF CommandOK, FirmwareSteps, KernelSteps
<1>4. QED
  BY <1>1, <1>2, <1>3, KernelWritten

-----------------------------------------------------------------------------
(* A failure, and all steps together                                       *)

LEMMA InterruptKeeps ==
  ASSUME IInv, Interrupt
  PROVE  IInv'
<1> USE DEF IInv
<1>1. /\ stage # "idle" /\ stage' = "idle" /\ pos' = 1 /\ passed' = passed
      /\ faults > 0 /\ faults' = faults - 1 /\ UNCHANGED <<run, gbb>>
  BY DEF Interrupt, Idle, End, Goto
<1>2. CommandOK' /\ GenerateInv'
  BY <1>1, BoundAssumption DEF CommandOK, GenerateInv, FirmwareSteps, KernelSteps
<1>3. CASE UNCHANGED <<pub, priv, block, firmware, kernel>>
  BY <1>1, <1>2, <1>3, NothingWritten DEF keyVars
<1>4. ASSUME stage \in {"pub", "priv"},
             \/ stage = "pub" /\ pub' = [pub EXCEPT ![KEYS[pos]] = Torn] /\ priv' = priv
             \/ stage = "priv" /\ priv' = [priv EXCEPT ![KEYS[pos]] = Torn] /\ pub' = pub,
             UNCHANGED <<block, firmware, kernel>>
      PROVE  IInv'
  <2>1. passed = {}
    BY <1>4 DEF GenerateInv
  <2>2. KeysInv' /\ ImageInv'
    BY <1>1, <1>4, KeyWritten
  <2>3. FilesOK'
    BY <1>1, <1>4 DEF FilesOK, Made, Block, Image
  <2>4. SignInv' /\ VerifyInv' /\ KeysAgree'
    BY <1>1, <2>1, NothingPassed DEF SignInv
  <2>5. QED
    BY <1>2, <2>2, <2>3, <2>4
<1>5. CASE /\ stage = "block" /\ block' = [block EXCEPT ![KEYBLOCKS[pos]] = Torn]
           /\ UNCHANGED <<pub, priv, firmware, kernel>>
  <2>1. passed = {} /\ AllKeys(run) /\ run \in Nat
    BY <1>5, MadeFacts DEF GenerateInv
  <2>2. \A b \in Keyblock : block'[b] \in {block[b], Torn}
    BY <1>5 DEF FilesOK
  <2>3. KeysInv'
    BY <1>1, <1>5, <2>1, <2>2, KeyblockNames DEF KeysInv, AllKeys, Leads, Whole
  <2>4. FilesOK' /\ ImageInv'
    BY <1>1, <1>5 DEF FilesOK, ImageInv, Leads, Whole, Made, Block, Image
  <2>5. SignInv' /\ VerifyInv' /\ KeysAgree'
    BY <1>1, <2>1, NothingPassed DEF SignInv
  <2>6. QED
    BY <1>2, <2>3, <2>4, <2>5
<1>6. CASE /\ stage \in {"firmware", "gbb"} /\ firmware' = Torn
           /\ UNCHANGED <<pub, priv, block, kernel>>
  <2>1. "firmwareSigned" \notin passed /\ "firmwareVerified" \notin passed
    BY <1>6 DEF SignInv, FirmwareSteps
  <2>2. FilesOK' /\ KeysInv' /\ KeysAgree'
    BY <1>1, <1>6, SameKeys, SameAgreement DEF FilesOK, Made, Block, Image, keyVars
  <2>3. ImageInv'
    BY <1>1, <1>6 DEF ImageInv, Whole
  <2>4. SignInv' /\ VerifyInv'
    BY <1>1, <1>6, <2>1 DEF SignInv, VerifyInv
  <2>5. QED
    BY <1>2, <2>2, <2>3, <2>4
<1>7. CASE /\ stage \in {"pack", "sign"} /\ kernel' = Torn
           /\ UNCHANGED <<pub, priv, block, firmware>>
  <2>1. "kernelSigned" \notin passed /\ "kernelVerified" \notin passed
    BY <1>7 DEF SignInv, KernelSteps
  <2>2. QED
    BY <1>1, <1>2, <1>7, <2>1, KernelWritten DEF keyVars
<1>8. QED
  BY <1>3, <1>4, <1>5, <1>6, <1>7 DEF Interrupt

LEMMA StutterKeeps ==
  ASSUME IInv, UNCHANGED vars
  PROVE  IInv'
<1>1. /\ UNCHANGED <<keyVars, firmware, gbb, kernel>> /\ stage' = stage /\ pos' = pos
      /\ passed' = passed /\ faults' = faults
  BY DEF vars
<1>2. UNCHANGED <<run, pub, priv, block>>
  BY <1>1 DEF keyVars
<1>3. FilesOK' /\ KeysInv' /\ ImageInv' /\ VerifyInv' /\ KeysAgree'
  BY <1>1, SameFiles, SameKeys, SameImage, SameVerified, SameAgreement DEF IInv
<1>4. CommandOK'
  BY <1>1 DEF IInv, CommandOK, FirmwareSteps, KernelSteps
<1>5. GenerateInv'
  BY <1>1, <1>2 DEF IInv, GenerateInv, AllKeys, Whole
<1>6. SignInv'
  BY <1>1, <1>2 DEF IInv, SignInv, FirmwareSteps, KernelSteps, Image, Block, Made
<1>7. QED
  BY <1>3, <1>4, <1>5, <1>6 DEF IInv

LEMMA NextKeeps == IInv /\ [Next]_vars => IInv'
<1> SUFFICES ASSUME IInv, [Next]_vars
             PROVE  IInv'
  OBVIOUS
<1>1. CASE Advance
  BY <1>1, WritePubKeeps, WritePrivKeeps, WriteBlockKeeps, SignFirmwareKeeps,
     SetRootKeyKeeps, CommandsFail, WriteKernelKeeps DEF Advance
<1>2. CASE Generate \/ VerifyKeys
  BY <1>2, GenerateKeeps, VerifyKeysKeeps
<1>3. CASE FirmwareSign \/ \E action \in {"pack", "sign"} : KernelPrepare(action)
  BY <1>3, CommandsStart
<1>4. CASE VerifyFirmware \/ GbbExtract \/ GbbReplace \/ InstallFirmware
  BY <1>4, VerifyFirmwareKeeps, GbbExtractKeeps, GbbReplaceKeeps, InstallFirmwareKeeps
<1>5. CASE VerifyKernel \/ InstallKernel
  BY <1>5, VerifyKernelKeeps, InstallKernelKeeps
<1>6. CASE Interrupt
  BY <1>6, InterruptKeeps
<1>7. CASE UNCHANGED vars
  BY <1>7, StutterKeeps
<1>8. QED
  BY <1>1, <1>2, <1>3, <1>4, <1>5, <1>6, <1>7 DEF Next

LEMMA Invariant == Spec => []IInv
<1>1. Init => IInv
  BY InitIInv
<1>2. IInv /\ [Next]_vars => IInv'
  BY NextKeeps
<1>3. QED
  BY <1>1, <1>2, PTL DEF Spec

-----------------------------------------------------------------------------
(* Theorems                                                                *)

(* cros-boot-keys and the prepare scripts keep the types of TypeOK: above  *)
(* all, no image is ever signed with a key or a keyblock that an           *)
(* interrupted generate left broken.                                       *)
THEOREM Types == Spec => []TypeOK
<1>1. IInv => TypeOK
  BY TypeParts DEF IInv
<1>2. QED
  BY <1>1, Invariant, PTL

(* Keys on which cros-boot-keys generate or verify ended well are all of   *)
(* one run, with their private halves and keyblocks, however many runs of  *)
(* generate were interrupted before.                                       *)
THEOREM Agreement == Spec => []KeysAgree
<1>1. IInv => KeysAgree
  BY DEF IInv
<1>2. QED
  BY <1>1, Invariant, PTL

(* What cros-firmware-prepare and cros-kernel-prepare sign with such keys  *)
(* boots, from the root key in the GBB to the kernel.                      *)
THEOREM SignedImagesBoot == Spec => []SignedBoots
<1>1. IInv => SignedBoots
  <2> SUFFICES ASSUME IInv, passed \cap {"generated", "keysVerified"} # {},
                      "firmwareSigned" \in passed
               PROVE  /\ FirmwareBoots(firmware)
                      /\ "kernelSigned" \in passed => KernelBoots(firmware, kernel)
    BY DEF SignedBoots
  <2> DEFINE n == pub["ec_root_key"]
  <2>1. KeysOf(n)
    BY DEF IInv, KeysAgree
  <2> HIDE DEF n
  <2>2. /\ pub["root_key"] = n /\ priv["firmware_data_key"] = n
        /\ pub["kernel_subkey"] = n /\ priv["kernel_data_key"] = n
    BY <2>1, KeyUses DEF KeysOf
  <2>3. block["firmware"] = [data |-> n, sign |-> n]
        /\ block["kernel"] = [data |-> n, sign |-> n]
    BY <2>1, KeyblockNames DEF KeysOf
  <2>4. QED
    BY <2>2, <2>3 DEF IInv, SignInv, FirmwareBoots, KernelBoots
<1>2. QED
  BY <1>1, Invariant, PTL

(* A firmware and a kernel that both verified with the keys of the         *)
(* directory go together: the subkey in the firmware is the one the        *)
(* kernel's keyblock is signed by, which neither verification looks at.    *)
THEOREM VerifiedImagesBoot == Spec => []VerifiedBoots
<1>1. IInv => VerifiedBoots
  <2> SUFFICES ASSUME IInv, "firmwareVerified" \in passed, "kernelVerified" \in passed
               PROVE  KernelBoots(firmware, kernel)
    BY DEF VerifiedBoots
  <2>1. /\ Whole(firmware) /\ firmware.body = firmware.block.data
        /\ firmware.block.sign = pub["root_key"]
        /\ kernel.body = kernel.block.data /\ kernel.block.sign = pub["kernel_subkey"]
    BY DEF IInv, VerifyInv
  <2>2. /\ firmware.block.data = firmware.block.sign /\ firmware.subkey = firmware.body
        /\ pub["kernel_subkey"] = firmware.block.sign
    BY <2>1 DEF IInv, ImageInv, Leads
  <2>3. QED
    BY <2>1, <2>2 DEF KernelBoots
<1>2. QED
  BY <1>1, Invariant, PTL
=============================================================================
