----------------------------- MODULE FlashI945_proofs -----------------------------
(***************************************************************************)
(* Theorems about the first flash of an i945 Thinkpad, for any images, a   *)
(* chip of either maker and any number of failures.                        *)
(***************************************************************************)
EXTENDS FlashI945, TLAPS

-----------------------------------------------------------------------------
(* The inductive invariant                                                 *)

Bits == {"TS=0", "TS=1"}

(* What the script may be at, by mode.                                     *)
StageOK ==
  /\ mode = "update" => stage \in {"idle", "flashrom"}
  /\ mode = "i945lenovo_firstflash" =>
       stage \in {"idle", "bucts1", "flashrom_lenovobios_sst",
                  "flashrom_lenovobios_macronix"}
  /\ mode = "i945lenovo_secondflash" => stage \in {"idle", "flashrom", "bucts0"}

(* One flashrom of a command knows the chip: until it is done nothing was  *)
(* said of writing.  bucts is first, or comes when nothing was said of it. *)
SaidOK ==
  /\ stage \in {"flashrom", "bucts1", "flashrom_lenovobios_sst", Maker} =>
       said \subseteq Bits
  /\ stage \in {"flashrom", "bucts0", "bucts1"} => said \cap Bits = {}
  /\ stage = "bucts0" => said \cap {"failed", "VERIFIED"} # {}

(* What is said stays true until something else is said.                   *)
SaidIsTrue ==
  /\ "TS=0" \in said => ts = 0
  /\ "TS=1" \in said => ts = 1
  /\ "VERIFIED" \in said =>
       chip["main"] = rom /\ chip["swap"] = rom /\ chip["top"] = rom
  /\ "failedAtTop" \in said => chip["main"] = rom /\ chip["swap"] = rom

(* flashrom's progress.                                                    *)
Written ==
  /\ pos > 1 => chip["main"] = rom
  /\ pos > 2 => chip["swap"] = rom
  /\ pos > 3 => chip["top"] = rom

(* Once the first half is done the lower block boots, or else all are the  *)
(* same image; what is left of the script writes what is there already, or *)
(* nothing.                                                                *)
HalfInv ==
  half # "none" =>
    /\ chip["main"] \in Doubled /\ chip["swap"] = chip["main"]
    /\ ts = 1 \/ chip["top"] = chip["main"]
    /\ half = "booted" /\ runs # Off => runs = chip["main"]
    /\ \/ Idle
       \/ stage = "flashrom_lenovobios_macronix" /\ stage # Maker
       \/ half = "booted" /\ mode = "i945lenovo_secondflash" /\ rom = chip["main"]

IInv == TypeOK /\ StageOK /\ SaidOK /\ SaidIsTrue /\ Written /\ HalfInv

-----------------------------------------------------------------------------
(* The order of the calls                                                  *)

LEMMA Names ==
  /\ Maker \in {"flashrom_lenovobios_sst", "flashrom_lenovobios_macronix"}
  /\ Len(Areas) = 3 /\ Areas[1] = "main" /\ Areas[2] = "swap" /\ Areas[3] = "top"
  /\ Flashroms = {"flashrom_lenovobios_sst", "flashrom_lenovobios_macronix"}
  BY MakerAssumption DEF Areas, Flashroms, Patched

LEMMA UpdateOrder ==
  /\ Order["update"][1] = "flashrom"
  /\ Len(Order["update"]) = 1 /\ DOMAIN Order["update"] = {1}
  BY DEF Order

LEMMA FirstOrder ==
  /\ Order["i945lenovo_firstflash"][1] = "bucts1"
  /\ Order["i945lenovo_firstflash"][2] = "flashrom_lenovobios_sst"
  /\ Order["i945lenovo_firstflash"][3] = "flashrom_lenovobios_macronix"
  /\ Len(Order["i945lenovo_firstflash"]) = 3
  /\ DOMAIN Order["i945lenovo_firstflash"] = {1, 2, 3}
<1> DEFINE calls == <<"bucts1">> \o Patched
<1>1. Order["i945lenovo_firstflash"] = calls
  BY DEF Order
<1>2. calls[1] = "bucts1"
  BY DEF Patched
<1>3. calls[2] = "flashrom_lenovobios_sst"
  BY DEF Patched
<1>4. calls[3] = "flashrom_lenovobios_macronix"
  BY DEF Patched
<1>5. Len(calls) = 3
  BY DEF Patched
<1>6. DOMAIN calls = 1 .. 3
  BY DEF Patched
<1> HIDE DEF calls
<1>7. QED
  <2>1. 1 .. 3 = {1, 2, 3}
    OBVIOUS
  <2>2. QED
    BY <1>1, <1>2, <1>3, <1>4, <1>5, <1>6, <2>1

LEMMA SecondOrder ==
  /\ Order["i945lenovo_secondflash"][1] = "flashrom"
  /\ Order["i945lenovo_secondflash"][2] = "bucts0"
  /\ Len(Order["i945lenovo_secondflash"]) = 2
  /\ DOMAIN Order["i945lenovo_secondflash"] = {1, 2}
  BY DEF Order

(* What comes after one of the calls that the script may be at.            *)
LEMMA AfterCall ==
  ASSUME \E i \in DOMAIN Order[mode] : Order[mode][i] = stage
  PROVE  \E i \in DOMAIN Order[mode] :
           /\ Order[mode][i] = stage
           /\ After = IF i < Len(Order[mode]) THEN Order[mode][i + 1] ELSE "idle"
<1> DEFINE k == CHOOSE k \in DOMAIN Order[mode] : Order[mode][k] = stage
<1>1. k \in DOMAIN Order[mode] /\ Order[mode][k] = stage
  OBVIOUS
<1>2. After = IF k < Len(Order[mode]) THEN Order[mode][k + 1] ELSE "idle"
  BY DEF After
<1>3. QED
  BY <1>1, <1>2

LEMMA NextCall ==
  ASSUME mode \in Mode, StageOK, ~Idle
  PROVE  /\ mode = "update" => After = "idle"
         /\ mode = "i945lenovo_firstflash" =>
              /\ stage = "bucts1" => After = "flashrom_lenovobios_sst"
              /\ stage = "flashrom_lenovobios_sst" => After = "flashrom_lenovobios_macronix"
              /\ stage = "flashrom_lenovobios_macronix" => After = "idle"
         /\ mode = "i945lenovo_secondflash" =>
              /\ stage = "flashrom" => After = "bucts0"
              /\ stage = "bucts0" => After = "idle"
<1>1. CASE mode = "update"
  BY <1>1, UpdateOrder, AfterCall DEF StageOK, Idle
<1>2. CASE mode = "i945lenovo_firstflash"
  <2>1. stage \in {Order[mode][1], Order[mode][2], Order[mode][3]}
    BY <1>2, FirstOrder DEF StageOK, Idle
  <2>2. \E i \in DOMAIN Order[mode] : Order[mode][i] = stage
    BY <1>2, <2>1, FirstOrder
  <2>3. PICK i \in {1, 2, 3} :
          /\ Order[mode][i] = stage
          /\ After = IF i < Len(Order[mode]) THEN Order[mode][i + 1] ELSE "idle"
    BY <1>2, <2>2, FirstOrder, AfterCall
  <2>4. i + 1 \in {2, 3, 4} /\ (i = 1 => i + 1 = 2) /\ (i = 2 => i + 1 = 3)
        /\ (i < 3 <=> i # 3)
    OBVIOUS
  <2>5. CASE i = 1
    BY <1>2, <2>3, <2>4, <2>5, FirstOrder
  <2>6. CASE i = 2
    BY <1>2, <2>3, <2>4, <2>6, FirstOrder
  <2>7. CASE i = 3
    BY <1>2, <2>3, <2>4, <2>7, FirstOrder
  <2>8. QED
    BY <2>5, <2>6, <2>7
<1>3. CASE mode = "i945lenovo_secondflash"
  <2>1. \E i \in DOMAIN Order[mode] : Order[mode][i] = stage
    BY <1>3, SecondOrder DEF StageOK, Idle
  <2>2. PICK i \in {1, 2} :
          /\ Order[mode][i] = stage
          /\ After = IF i < Len(Order[mode]) THEN Order[mode][i + 1] ELSE "idle"
    BY <1>3, <2>1, SecondOrder, AfterCall
  <2>3. (i = 1 => i + 1 = 2) /\ (i < 2 <=> i # 2)
    OBVIOUS
  <2>4. CASE i = 1
    <3>1. stage = "flashrom" /\ After = "bucts0"
      BY <1>3, <2>2, <2>3, <2>4, SecondOrder
    <3>2. QED
      BY <1>3, <3>1
  <2>5. CASE i = 2
    <3>1. stage = "bucts0" /\ After = "idle"
      BY <1>3, <2>2, <2>3, <2>5, SecondOrder
    <3>2. QED
      BY <1>3, <3>1
  <2>6. QED
    BY <2>4, <2>5
<1>4. QED
  BY <1>1, <1>2, <1>3 DEF Mode

(* What follows a call, seen from the call.                                *)
LEMMA Follows ==
  ASSUME IInv, ~Idle
  PROVE  /\ After \in {"idle", "bucts0"} \cup Flashroms
         /\ After = "bucts0" =>
              stage = "flashrom" /\ mode = "i945lenovo_secondflash"
         /\ After \in Flashroms => mode = "i945lenovo_firstflash"
         /\ After = "flashrom_lenovobios_sst" => stage = "bucts1"
         /\ After = "flashrom_lenovobios_macronix" => stage = "flashrom_lenovobios_sst"
  BY NextCall, Names DEF IInv, TypeOK, StageOK, Mode, Idle

-----------------------------------------------------------------------------
(* Every action keeps the invariant                                        *)

LEMMA FaultsLeft ==
  ASSUME TypeOK, faults' = faults \/ (faults > 0 /\ faults' = faults - 1)
  PROVE  faults' \in 0 .. FaultBound
<1>1. faults \in 0 .. FaultBound
  BY DEF TypeOK
<1>2. QED
  BY <1>1, FaultAssumption

LEMMA InitIInv == Init => IInv
  BY RomAssumption, FaultAssumption, Names
  DEF Init, IInv, TypeOK, StageOK, SaidOK, SaidIsTrue, Written, HalfInv, Idle, Mode, Halves

LEMMA AtArea ==
  ASSUME TypeOK
  PROVE  /\ pos \in 1 .. 4
         /\ pos <= Len(Areas) => pos \in 1 .. 3
         /\ pos \in 1 .. 3 => Areas[pos] \in {"main", "swap", "top"}
         /\ pos > Len(Areas) => pos = 4
<1>1. pos \in 1 .. Len(Areas) + 1
  BY DEF TypeOK
<1>2. /\ pos \in 1 .. 4
      /\ (pos <= Len(Areas) => pos \in 1 .. 3) /\ (pos > Len(Areas) => pos = 4)
  BY <1>1, Names
<1>3. pos \in 1 .. 3 => Areas[pos] \in {"main", "swap", "top"}
  BY Names
<1>4. QED
  BY <1>2, <1>3

LEMMA NextArea ==
  ASSUME pos' \in 1 .. 4
  PROVE  (pos \in 1 .. Len(Areas) + 1)'
<1>1. Len(Areas') = 3
  BY DEF Areas
<1>2. QED
  BY <1>1

LEMMA FirstArea ==
  ASSUME pos' = 1
  PROVE  (pos \in 1 .. Len(Areas) + 1)'
  BY NextArea

LEMMA Unwritten ==
  ASSUME pos' = 1
  PROVE  Written'
  BY DEF Written

LEMMA SameSaid ==
  ASSUME SaidIsTrue, UNCHANGED <<chip, ts, rom, said>>
  PROVE  SaidIsTrue'
  BY DEF SaidIsTrue

LEMMA PowerOnKeeps ==
  ASSUME IInv, PowerOn
  PROVE  IInv'
<1> USE Names DEF IInv, Bits, Idle
<1>1. /\ runs = Off /\ runs' = chip["main"] /\ chip["main"] # Torn /\ Idle
      /\ half' = IF half = "first" THEN "booted" ELSE half
      /\ UNCHANGED <<chip, ts, mode, rom, stage, pos, said, faults>>
  BY DEF PowerOn, Boots, script, TypeOK
<1>2. TypeOK'
  BY <1>1 DEF TypeOK, Mode, Halves, Flashroms, Patched, Areas
<1>3. StageOK' /\ SaidOK' /\ SaidIsTrue' /\ Written'
  BY <1>1 DEF StageOK, SaidOK, SaidIsTrue, Written
<1>4. HalfInv'
  BY <1>1 DEF HalfInv
<1>5. QED
  BY <1>2, <1>3, <1>4

LEMMA ShutdownKeeps ==
  ASSUME IInv, Shutdown
  PROVE  IInv'
<1> USE Names DEF IInv, Bits, Idle
<1>1. /\ Idle /\ runs' = Off
      /\ UNCHANGED <<chip, ts, mode, rom, stage, pos, said, half, faults>>
  BY DEF Shutdown, script
<1>2. TypeOK'
  BY <1>1 DEF TypeOK, Mode, Halves, Flashroms, Patched, Areas
<1>3. StageOK' /\ SaidOK' /\ SaidIsTrue' /\ Written' /\ HalfInv'
  BY <1>1 DEF StageOK, SaidOK, SaidIsTrue, Written, HalfInv
<1>4. QED
  BY <1>2, <1>3

LEMMA UnbuiltKeeps ==
  ASSUME IInv, LoseBattery \/ Recover
  PROVE  IInv'
<1> USE Names DEF IInv, Bits, Idle
<1>1. /\ Idle /\ pos = 1 /\ ts' = 0 /\ half' = "none" /\ said' = {}
      /\ UNCHANGED <<runs, mode, rom, stage, pos>>
  <2>1. runs = Off /\ ts' = 0 /\ half' = "none" /\ said' = {}
        /\ UNCHANGED <<runs, mode, rom, stage, pos>>
    <3>1. CASE LoseBattery
      BY <3>1 DEF LoseBattery, script
    <3>2. CASE Recover
      BY <3>2 DEF Recover, script
    <3>3. QED
      BY <3>1, <3>2
  <2>2. Idle
    BY <2>1 DEF TypeOK
  <2>3. pos = 1
    BY <2>2 DEF TypeOK
  <2>4. QED
    BY <2>1, <2>2, <2>3
<1>2. faults' \in 0 .. FaultBound
  BY FaultsLeft DEF LoseBattery, Recover
<1>3. chip' \in [{"main", "swap", "top"} -> Rom \cup {Lenovo, Torn}]
  BY DEF LoseBattery, Recover, TypeOK
<1>4. TypeOK'
  BY <1>1, <1>2, <1>3 DEF TypeOK, Mode, Halves, Flashroms, Patched, Areas
<1>5. StageOK' /\ SaidOK' /\ HalfInv'
  BY <1>1 DEF StageOK, SaidOK, HalfInv
<1>6. SaidIsTrue'
  BY <1>1 DEF SaidIsTrue
<1>7. Written'
  BY <1>1 DEF Written
<1>8. QED
  BY <1>4, <1>5, <1>6, <1>7

LEMMA FlashKeeps ==
  ASSUME IInv, NEW m \in Mode, NEW r \in Rom, Flash(m, r)
  PROVE  IInv'
<1> USE Names DEF IInv, Bits, Idle
<1>1. /\ Idle /\ runs # Off /\ mode' = m /\ rom' = r /\ pos' = 1 /\ said' = {}
      /\ stage' = Order[m][1]
      /\ half' # "none" => half' = half /\ half = "booted"
                           /\ m = "i945lenovo_secondflash" /\ r = runs
      /\ half' \in {half, "none"}
      /\ UNCHANGED <<chip, ts, runs, faults>>
  BY DEF Flash, Goto, machine
<1>2. /\ m = "update" => stage' = "flashrom"
      /\ m = "i945lenovo_firstflash" => stage' = "bucts1"
      /\ m = "i945lenovo_secondflash" => stage' = "flashrom"
  BY <1>1, UpdateOrder, FirstOrder, SecondOrder
<1>3. TypeOK'
  BY <1>1, <1>2 DEF TypeOK, Mode, Halves, Flashroms, Patched, Areas
<1>4. StageOK' /\ SaidOK'
  BY <1>1, <1>2 DEF StageOK, SaidOK, Mode
<1>5. HalfInv'
  BY <1>1, <1>2 DEF HalfInv
<1>6. SaidIsTrue'
  BY <1>1 DEF SaidIsTrue
<1>7. Written'
  BY <1>1 DEF Written
<1>8. QED
  BY <1>3, <1>4, <1>5, <1>6, <1>7

LEMMA BuctsKeeps ==
  ASSUME IInv, Bucts \/ BuctsFails
  PROVE  IInv'
<1> USE Names DEF IInv, Bits, Idle
<1>1. /\ stage \in {"bucts0", "bucts1"} /\ ~Idle
      /\ stage' = After /\ pos' = 1 /\ pos = 1
      /\ UNCHANGED <<chip, runs, mode, rom>>
      /\ half' = IF "failed" \in said /\ Asked = 0 THEN "none" ELSE half
      /\ faults' \in 0 .. FaultBound
  <2>1. /\ stage \in {"bucts0", "bucts1"} /\ stage' = After /\ pos' = 1
        /\ UNCHANGED <<chip, runs, mode, rom>>
        /\ half' = IF "failed" \in said /\ Asked = 0 THEN "none" ELSE half
        /\ faults' = faults \/ (faults > 0 /\ faults' = faults - 1)
    BY DEF Bucts, BuctsFails, Calls, Continue, Goto, HalfAfterBucts
  <2>2. pos = 1
    BY <2>1 DEF TypeOK
  <2>3. faults' \in 0 .. FaultBound
    BY <2>1, FaultsLeft
  <2>4. QED
    BY <2>1, <2>2, <2>3
<1>2. \/ said' = said /\ ts' = ts
      \/ said' = said \cup {"TS=1"} /\ ts' = 1
      \/ said' = said \cup {"TS=0"} /\ ts' = 0
  BY DEF Bucts, BuctsFails, Continue, Says, Asked, TypeOK
<1>3. ts' = ts \/ ts' = Asked
  BY DEF Bucts, BuctsFails
<1>4. \/ stage = "bucts1" /\ stage' = "flashrom_lenovobios_sst"
         /\ mode = "i945lenovo_firstflash" /\ Asked = 1
      \/ stage = "bucts0" /\ stage' = "idle" /\ mode = "i945lenovo_secondflash"
         /\ Asked = 0
  BY <1>1, NextCall DEF StageOK, TypeOK, Mode, Asked
<1>5. TypeOK'
  BY <1>1, <1>2, <1>4 DEF TypeOK, Mode, Halves, Flashroms, Patched, Areas
<1>6. StageOK' /\ Written'
  BY <1>1, <1>4 DEF StageOK, Written
<1>7. SaidOK' /\ SaidIsTrue'
  BY <1>1, <1>2, <1>4 DEF SaidOK, SaidIsTrue, Bits
<1>8. HalfInv'
  <2>1. CASE stage = "bucts1"
    BY <1>1, <1>4, <2>1 DEF HalfInv
  <2>2. CASE stage = "bucts0"
    <3>1. half' # "none" => half' = half /\ "VERIFIED" \in said
      BY <1>1, <1>4, <2>2 DEF SaidOK
    <3>2. QED
      BY <1>1, <1>4, <2>2, <3>1 DEF HalfInv, SaidIsTrue
  <2>3. QED
    BY <1>1, <2>1, <2>2
<1>9. QED
  BY <1>5, <1>6, <1>7, <1>8

(* A flashrom that knows the chip ends, with the message that goes with    *)
(* what it has written.                                                    *)
LEMMA FlashromEnds ==
  ASSUME IInv, stage \in {"flashrom", Maker}, NEW words,
         stage' = After, pos' = 1, said' = said \cup words,
         words \in {{"VERIFIED"}, {"failed"}, {"failed", "failedAtTop"}},
         UNCHANGED <<runs, mode, rom, ts>>
  PROVE  StageOK' /\ SaidOK' /\ Written'
<1> USE Names DEF IInv, Bits, Idle
<1>1. /\ stage = "flashrom" => stage' \in {"idle", "bucts0"}
      /\ stage = "flashrom_lenovobios_sst" => stage' = "flashrom_lenovobios_macronix"
      /\ stage = "flashrom_lenovobios_macronix" => stage' = "idle"
      /\ stage' = "bucts0" => mode = "i945lenovo_secondflash"
      /\ stage' = "flashrom_lenovobios_macronix" => mode = "i945lenovo_firstflash"
  BY NextCall DEF StageOK, TypeOK, Mode
<1>2. said \subseteq Bits /\ (stage = "flashrom" => said = {})
  BY DEF SaidOK
<1>3. StageOK'
  BY <1>1 DEF StageOK, TypeOK, Mode
<1>4. SaidOK'
  BY <1>1, <1>2 DEF SaidOK
<1>5. Written'
  BY Unwritten
<1>6. QED
  BY <1>3, <1>4, <1>5

LEMMA FlashromTypes ==
  ASSUME IInv, stage \in {"flashrom", Maker}, stage' = After, pos' = 1,
         said' \subseteq said \cup {"VERIFIED", "failed", "failedAtTop"},
         chip' \in [{"main", "swap", "top"} -> Rom \cup {Lenovo, Torn}],
         half' \in Halves, faults' \in 0 .. FaultBound,
         UNCHANGED <<runs, mode, rom, ts>>
  PROVE  TypeOK'
<1> USE Names DEF IInv, Idle
<1>1. stage' \in {"idle", "bucts0"} \cup Flashroms /\ ~Idle
  BY Follows
<1>2. runs # Off
  BY <1>1 DEF TypeOK
<1>3. said' \subseteq {"TS=0", "TS=1", "VERIFIED", "failed", "failedAtTop"}
  BY DEF TypeOK
<1>4. ts' \in {0, 1} /\ runs' \in Rom \cup {Lenovo, Off} /\ runs' # Off
  BY <1>2 DEF TypeOK
<1>5. mode' \in Mode' /\ rom' \in Rom
  BY DEF TypeOK, Mode
<1>6. stage' \in {"idle", "bucts0", "bucts1", "flashrom"} \cup Flashroms'
  BY <1>1 DEF Flashroms, Patched
<1>7. (pos \in 1 .. Len(Areas) + 1)'
  BY FirstArea
<1>8. half' \in Halves'
  BY DEF Halves
<1>9. QED
  BY <1>3, <1>4, <1>5, <1>6, <1>7, <1>8 DEF TypeOK

LEMMA WrongFlashromKeeps ==
  ASSUME IInv, WrongFlashrom
  PROVE  IInv'
<1> USE Names DEF IInv, Bits, Idle
<1>1. /\ stage \in Flashroms /\ stage # Maker /\ stage' = After /\ pos' = 1 /\ said' = said
      /\ UNCHANGED <<chip, ts, runs, mode, rom, half, faults>>
  BY DEF WrongFlashrom, Calls, Continue, Goto
<1>2. /\ mode = "i945lenovo_firstflash" /\ ~Idle
      /\ stage = "flashrom_lenovobios_sst" => stage' = "flashrom_lenovobios_macronix"
      /\ stage = "flashrom_lenovobios_macronix" => stage' = "idle"
  BY <1>1, NextCall DEF StageOK, TypeOK, Mode
<1>3. TypeOK'
  BY <1>1, <1>2 DEF TypeOK, Mode, Halves, Flashroms, Patched, Areas
<1>4. StageOK' /\ SaidOK'
  BY <1>1, <1>2 DEF StageOK, SaidOK
<1>5. SaidIsTrue' /\ Written'
  BY <1>1, SameSaid, Unwritten
<1>6. HalfInv'
  BY <1>1, <1>2 DEF HalfInv
<1>7. QED
  BY <1>3, <1>4, <1>5, <1>6

LEMMA WriteAreaKeeps ==
  ASSUME IInv, WriteArea
  PROVE  IInv'
<1> USE Names DEF IInv, Bits, Idle
<1>1. /\ stage \in {"flashrom", Maker} /\ pos \in 1 .. 3
      /\ chip' = [chip EXCEPT ![Areas[pos]] = rom] /\ pos' = pos + 1
      /\ UNCHANGED <<ts, runs, mode, rom, stage, said, half, faults>>
  BY AtArea DEF WriteArea, Flashing, Calls, Area
<1>2. Areas[pos] \in {"main", "swap", "top"} /\ rom \in Rom
      /\ chip \in [{"main", "swap", "top"} -> Rom \cup {Lenovo, Torn}]
  BY <1>1, AtArea DEF TypeOK
<1>3. TypeOK'
  <2>1. chip' \in [{"main", "swap", "top"} -> Rom \cup {Lenovo, Torn}]
    BY <1>1, <1>2
  <2>2. (pos \in 1 .. Len(Areas) + 1)'
    BY <1>1, NextArea
  <2>3. QED
    BY <1>1, <2>1, <2>2 DEF TypeOK, Mode, Halves, Flashroms, Patched
<1>4. StageOK' /\ SaidOK'
  BY <1>1 DEF StageOK, SaidOK
<1>5. SaidIsTrue'
  <2>1. said \subseteq Bits
    BY <1>1 DEF SaidOK
  <2>2. QED
    BY <1>1, <2>1 DEF SaidIsTrue
<1>6. Written'
  <2>1. CASE pos = 1
    BY <1>1, <1>2, <2>1 DEF Written
  <2>2. CASE pos = 2
    BY <1>1, <1>2, <2>2 DEF Written
  <2>3. CASE pos = 3
    BY <1>1, <1>2, <2>3 DEF Written
  <2>4. QED
    BY <1>1, <2>1, <2>2, <2>3
<1>7. HalfInv'
  <2>1. half # "none" => rom = chip["main"] /\ chip["swap"] = chip["main"]
    BY <1>1 DEF HalfInv
  <2>2. half # "none" => chip'["main"] = chip["main"] /\ chip'["swap"] = chip["swap"]
                         /\ (chip'["top"] = chip["top"] \/ chip'["top"] = chip["main"])
    BY <1>1, <1>2, <2>1
  <2>3. QED
    BY <1>1, <2>2 DEF HalfInv
<1>8. QED
  BY <1>3, <1>4, <1>5, <1>6, <1>7

LEMMA VerifiedKeeps ==
  ASSUME IInv, Verified
  PROVE  IInv'
<1> USE Names DEF IInv, Bits, Idle
<1>1. /\ stage \in {"flashrom", Maker} /\ pos = 4 /\ ~Idle
      /\ stage' = After /\ pos' = 1 /\ said' = said \cup {"VERIFIED"}
      /\ UNCHANGED <<chip, ts, runs, mode, rom, half, faults>>
  BY AtArea DEF Verified, Flashing, Calls, Continue, Goto
<1>2. TypeOK'
  BY <1>1, FlashromTypes DEF TypeOK
<1>3. StageOK' /\ SaidOK' /\ Written'
  BY <1>1, FlashromEnds
<1>4. SaidIsTrue'
  <2>1. chip["main"] = rom /\ chip["swap"] = rom /\ chip["top"] = rom
    BY <1>1 DEF Written
  <2>2. QED
    BY <1>1, <2>1 DEF SaidIsTrue
<1>5. HalfInv'
  BY <1>1 DEF HalfInv
<1>6. QED
  BY <1>2, <1>3, <1>4, <1>5

LEMMA ProtectedKeeps ==
  ASSUME IInv, Protected
  PROVE  IInv'
<1> USE Names DEF IInv, Bits, Idle
<1>1. /\ stage \in {"flashrom", Maker} /\ pos \in 1 .. 3 /\ ~Idle
      /\ stage' = After /\ pos' = 1 /\ said' = said \cup Failed
      /\ half' = IF /\ mode = "i945lenovo_firstflash" /\ rom \in Doubled
                    /\ "TS=1" \in said /\ Area = "top"
                   THEN "first" ELSE half
      /\ UNCHANGED <<chip, ts, runs, mode, rom, faults>>
  BY AtArea DEF Protected, Flashing, Calls, Continue, Goto
<1>2. /\ Failed \in {{"failed"}, {"failed", "failedAtTop"}}
      /\ "failedAtTop" \in Failed => Area = "top"
  BY DEF Failed
<1>3. Area = "top" => chip["main"] = rom /\ chip["swap"] = rom
  BY <1>1 DEF Area, Written
<1>4. half' \in {half, "first"} /\ half' \in Halves
  BY <1>1 DEF TypeOK, Halves
<1>5. TypeOK'
  BY <1>1, <1>2, <1>4, FlashromTypes DEF TypeOK
<1>6. StageOK' /\ SaidOK' /\ Written'
  BY <1>1, <1>2, FlashromEnds
<1>7. SaidIsTrue'
  BY <1>1, <1>2, <1>3 DEF SaidIsTrue
<1>8. HalfInv'
  <2>1. CASE half' = half
    BY <1>1, <2>1 DEF HalfInv
  <2>2. CASE /\ half' = "first" /\ mode = "i945lenovo_firstflash" /\ rom \in Doubled
             /\ "TS=1" \in said /\ Area = "top"
    <3>1. ts = 1
      BY <2>2 DEF SaidIsTrue
    <3>2. stage' = "idle" \/ (stage' = "flashrom_lenovobios_macronix" /\ stage' # Maker)
      BY <1>1, <2>2, NextCall DEF StageOK, TypeOK
    <3>3. QED
      BY <1>1, <1>3, <2>2, <3>1, <3>2 DEF HalfInv
  <2>3. QED
    BY <1>1, <2>1, <2>2
<1>9. QED
  BY <1>5, <1>6, <1>7, <1>8

(* flashrom fails, or the machine loses power, in the middle of an area or *)
(* between two.                                                            *)
LEMMA Broken ==
  ASSUME IInv, stage \in {"flashrom", Maker}, pos \in 1 .. 3,
         \/ UNCHANGED chip
         \/ chip' = [chip EXCEPT ![Areas[pos]] = IF @ = rom THEN @ ELSE Torn]
  PROVE  /\ chip' \in [{"main", "swap", "top"} -> Rom \cup {Lenovo, Torn}]
         /\ pos > 1 => chip'["main"] = rom
         /\ pos > 2 => chip'["swap"] = rom
         /\ half # "none" =>
              /\ chip'["main"] = chip["main"] /\ chip'["swap"] = chip["swap"]
              /\ chip["top"] = chip["main"] => chip'["top"] = chip["top"]
<1> USE Names DEF IInv, Bits, Idle
<1>1. /\ chip \in [{"main", "swap", "top"} -> Rom \cup {Lenovo, Torn}]
      /\ Areas[pos] \in {"main", "swap", "top"}
  BY AtArea DEF TypeOK
<1>2. \A area \in {"main", "swap", "top"} :
        \/ chip'[area] = chip[area]
        \/ area = Areas[pos] /\ chip[area] # rom
  BY <1>1
<1>3. chip' \in [{"main", "swap", "top"} -> Rom \cup {Lenovo, Torn}]
  BY <1>1
<1>4. (pos > 1 => chip'["main"] = rom) /\ (pos > 2 => chip'["swap"] = rom)
  <2>1. (pos > 1 => chip["main"] = rom) /\ (pos > 2 => chip["swap"] = rom)
    BY DEF Written
  <2>2. QED
    BY <1>2, <2>1
<1>5. half # "none" => rom = chip["main"] /\ chip["swap"] = chip["main"]
  BY DEF HalfInv
<1>6. QED
  BY <1>2, <1>3, <1>4, <1>5

LEMMA FlashromFailsKeeps ==
  ASSUME IInv, FlashromFails
  PROVE  IInv'
<1> USE Names DEF IInv, Bits, Idle
<1>1. /\ stage \in {"flashrom", Maker} /\ pos \in 1 .. 3 /\ ~Idle
      /\ stage' = After /\ pos' = 1 /\ said' = said \cup Failed
      /\ faults > 0 /\ faults' = faults - 1
      /\ \/ UNCHANGED chip
         \/ chip' = [chip EXCEPT ![Areas[pos]] = IF @ = rom THEN @ ELSE Torn]
      /\ UNCHANGED <<ts, runs, mode, rom, half>>
  BY AtArea DEF FlashromFails, Flashing, Calls, Continue, Goto, Breaks, Area
<1>2. /\ chip' \in [{"main", "swap", "top"} -> Rom \cup {Lenovo, Torn}]
      /\ pos > 1 => chip'["main"] = rom
      /\ pos > 2 => chip'["swap"] = rom
      /\ half # "none" =>
           /\ chip'["main"] = chip["main"] /\ chip'["swap"] = chip["swap"]
           /\ chip["top"] = chip["main"] => chip'["top"] = chip["top"]
  BY <1>1, Broken
<1>3. /\ Failed \in {{"failed"}, {"failed", "failedAtTop"}}
      /\ "failedAtTop" \in Failed => Area = "top"
  BY DEF Failed
<1>4. Area = "top" => pos = 3
  BY <1>1 DEF Area
<1>5. TypeOK'
  BY <1>1, <1>2, <1>3, FaultsLeft, FlashromTypes DEF TypeOK
<1>6. StageOK' /\ SaidOK' /\ Written'
  BY <1>1, <1>3, FlashromEnds
<1>7. SaidIsTrue'
  <2>1. said \subseteq Bits
    BY <1>1 DEF SaidOK
  <2>2. "failedAtTop" \in said' => chip'["main"] = rom /\ chip'["swap"] = rom
    <3>1. "failedAtTop" \notin said
      BY <2>1
    <3>2. "failedAtTop" \in said' => "failedAtTop" \in Failed
      BY <1>1, <3>1
    <3>3. pos = 3 => pos > 1 /\ pos > 2
      OBVIOUS
    <3>4. QED
      BY <1>2, <1>3, <1>4, <3>2, <3>3
  <2>3. QED
    BY <1>1, <1>3, <2>1, <2>2 DEF SaidIsTrue
<1>8. HalfInv'
  <2>1. half # "none" => stage' = "bucts0" \/ stage' = "idle"
    BY <1>1, NextCall DEF HalfInv, StageOK, TypeOK, Mode
  <2>2. QED
    BY <1>1, <1>2, <2>1 DEF HalfInv
<1>9. QED
  BY <1>5, <1>6, <1>7, <1>8

LEMMA PowerLossKeeps ==
  ASSUME IInv, PowerLoss
  PROVE  IInv'
<1> USE Names DEF IInv, Bits, Idle
<1>1. /\ ~Idle /\ stage' = "idle" /\ pos' = 1 /\ said' = {} /\ runs' = Off
      /\ faults > 0 /\ faults' = faults - 1
      /\ \/ UNCHANGED chip
         \/ /\ stage \in {"flashrom", Maker} /\ pos \in 1 .. 3
            /\ chip' = [chip EXCEPT ![Areas[pos]] = IF @ = rom THEN @ ELSE Torn]
      /\ UNCHANGED <<ts, mode, rom, half>>
  BY AtArea DEF PowerLoss, Goto, Breaks, Area
<1>2. /\ chip' \in [{"main", "swap", "top"} -> Rom \cup {Lenovo, Torn}]
      /\ half # "none" =>
           /\ chip'["main"] = chip["main"] /\ chip'["swap"] = chip["swap"]
           /\ chip["top"] = chip["main"] => chip'["top"] = chip["top"]
  <2>1. CASE UNCHANGED chip
    BY <2>1 DEF TypeOK
  <2>2. CASE ~UNCHANGED chip
    BY <1>1, <2>2, Broken
  <2>3. QED
    BY <2>1, <2>2
<1>3. TypeOK'
  <2>1. faults' \in 0 .. FaultBound
    BY <1>1, FaultsLeft
  <2>2. (pos \in 1 .. Len(Areas) + 1)'
    BY <1>1, FirstArea
  <2>3. QED
    BY <1>1, <1>2, <2>1, <2>2 DEF TypeOK, Mode, Halves, Flashroms, Patched
<1>4. StageOK' /\ SaidOK'
  BY <1>1 DEF StageOK, SaidOK
<1>5. SaidIsTrue'
  BY <1>1 DEF SaidIsTrue
<1>6. Written'
  BY <1>1, Unwritten
<1>7. HalfInv'
  BY <1>1, <1>2 DEF HalfInv
<1>8. QED
  BY <1>3, <1>4, <1>5, <1>6, <1>7

LEMMA StutterKeeps ==
  ASSUME IInv, UNCHANGED vars
  PROVE  IInv'
<1> USE Names DEF IInv, Bits, Idle
<1>1. UNCHANGED <<chip, ts, runs, mode, rom, stage, pos, said, half, faults>>
  BY DEF vars, machine, script
<1>2. TypeOK'
  BY <1>1 DEF TypeOK, Mode, Halves, Flashroms, Patched, Areas
<1>3. StageOK' /\ SaidOK' /\ HalfInv'
  BY <1>1 DEF StageOK, SaidOK, HalfInv
<1>4. SaidIsTrue' /\ Written'
  BY <1>1, SameSaid DEF Written
<1>5. QED
  BY <1>2, <1>3, <1>4

LEMMA Invariant == Spec => []IInv
<1>1. Init => IInv
  BY InitIInv
<1>2. IInv /\ [Next]_vars => IInv'
  <2> SUFFICES ASSUME IInv, [Next]_vars
               PROVE  IInv'
    OBVIOUS
  <2>1. ASSUME \E m \in Mode, r \in Rom : Flash(m, r)
        PROVE  IInv'
    BY <2>1, FlashKeeps
  <2>2. QED
    BY <2>1, PowerOnKeeps, ShutdownKeeps, UnbuiltKeeps, BuctsKeeps, WrongFlashromKeeps,
       WriteAreaKeeps, VerifiedKeeps, ProtectedKeeps, FlashromFailsKeeps, PowerLossKeeps,
       StutterKeeps DEF Next
<1>3. QED
  BY <1>1, <1>2, PTL DEF Spec

-----------------------------------------------------------------------------
(* Theorems                                                                *)

(* The types of TypeOK: nothing runs on a machine that is off, and only a  *)
(* flashrom that found the chip has areas behind it.                       *)
THEOREM Types == Spec => []TypeOK
<1>1. IInv => TypeOK
  BY DEF IInv
<1>2. QED
  BY <1>1, Invariant, PTL

(* From the end of the first half of the guide to that of the second the   *)
(* machine boots whatever fails in `flash`, bucts or flashrom.             *)
THEOREM SecondHalf == Spec => []SecondHalfIsSafe
<1>1. IInv => SecondHalfIsSafe
  <2> SUFFICES ASSUME IInv, half # "none"
               PROVE  Boots
    BY DEF SecondHalfIsSafe
  <2>1. chip["main"] \in Rom /\ chip["main"] # Torn
    BY RomAssumption DEF IInv, HalfInv
  <2>2. QED
    BY <2>1 DEF IInv, TypeOK, HalfInv, Boots, BootBlock
<1>2. QED
  BY <1>1, Invariant, PTL

(* A machine whose user saw in the output of `flash` what the guide quotes *)
(* boots the image that was flashed -- one with two equal last 64 KiB, if  *)
(* the top swap bit is or was set, which the guide does not ask for.       *)
THEOREM Reports == Spec => []ReportedBoots
<1>1. IInv => ReportedBoots
  <2> SUFFICES ASSUME IInv, Reported
               PROVE  Boots /\ chip["main"] = rom
    BY DEF ReportedBoots
  <2>1. rom # Torn /\ ts \in {0, 1}
    BY RomAssumption DEF IInv, TypeOK
  <2>2. /\ chip["main"] = rom
        /\ ts = 1 => chip["swap"] = rom /\ rom \in Doubled
        /\ ts = 0 => chip["top"] = rom
    <3>1. CASE mode = "update" /\ "VERIFIED" \in said /\ (ts = 1 => rom \in Doubled)
      BY <3>1 DEF IInv, SaidIsTrue
    <3>2. CASE "TS=1" \in said /\ "failedAtTop" \in said /\ rom \in Doubled
      <4>1. ts = 1 /\ chip["main"] = rom /\ chip["swap"] = rom
        BY <3>2 DEF IInv, SaidIsTrue
      <4>2. QED
        BY <3>2, <4>1, 1 # 0
    <3>3. CASE "TS=0" \in said /\ "VERIFIED" \in said
      <4>1. ts = 0 /\ chip["main"] = rom /\ chip["top"] = rom
        BY <3>3 DEF IInv, SaidIsTrue
      <4>2. QED
        BY <4>1
    <3>4. QED
      BY <3>1, <3>2, <3>3 DEF Reported
  <2>3. QED
    BY <2>1, <2>2 DEF Boots, BootBlock
<1>2. QED
  BY <1>1, Invariant, PTL
===================================================================================
