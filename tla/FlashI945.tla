-------------------------------- MODULE FlashI945 --------------------------------
(***************************************************************************)
(* The `flash` script on a Thinkpad X60 or T60, and bucts.                 *)
(*                                                                         *)
(* The vendor's firmware protects the top 64 KiB of the flash chip, which  *)
(* hold the boot block.  `flash i945lenovo_firstflash` therefore sets the  *)
(* top swap bit, BUC.TS, with which the machine boots from the 64 KiB      *)
(* below, and writes all but the top.  Once the machine was booted from    *)
(* there, `flash i945lenovo_secondflash` writes the rest and resets the    *)
(* bit.  The script looks at no status of what it calls: what tells the    *)
(* user whether it is safe to go on is the output, as the installation     *)
(* guide quotes it.  The bit lives as long as the RTC battery.             *)
(*                                                                         *)
(* The chip is abstracted to the two blocks and the rest of it below them, *)
(* each to the image it was written from.                                  *)
(***************************************************************************)
EXTENDS Naturals, Sequences

CONSTANTS
  Rom,         \* images the user flashes
  Doubled,     \* those whose two last 64 KiB are the same
  Lenovo,      \* the vendor's image
  Maker,       \* of the flash chip, by the flashrom that knows it
  FaultBound,  \* how many calls, batteries and mains may fail
  Torn, Off

ASSUME RomAssumption ==
  /\ Doubled \subseteq Rom
  /\ {Lenovo, Torn, Off} \cap Rom = {} /\ Lenovo # Torn /\ Lenovo # Off

ASSUME MakerAssumption ==
  Maker \in {"flashrom_lenovobios_sst", "flashrom_lenovobios_macronix"}

ASSUME FaultAssumption == FaultBound \in Nat

VARIABLES
  chip,    \* the image each area of the chip is from, or Torn
  ts,      \* BUC.TS
  runs,    \* the firmware that was booted, or Off
  mode,    \* of the running, or last, flash
  rom,     \* its image
  stage,   \* what the script does next
  pos,     \* the area flashrom is at
  said,    \* what the script's output says
  half,    \* how far the user got with the guide, see Halves
  faults

machine == <<chip, ts, runs>>
script  == <<mode, rom, stage, pos>>
vars == <<machine, script, said, half, faults>>

Areas == <<"main", "swap", "top">>   \* in ascending order
Mode  == {"update", "i945lenovo_firstflash", "i945lenovo_secondflash"}

(* The guide's first half was done, and then booted from.                  *)
Halves == {"none", "first", "booted"}

-----------------------------------------------------------------------------
(* The machine: i945 and ICH7 with their flash chip                        *)

BootBlock == IF ts = 1 THEN "swap" ELSE "top"

Boots ==
  /\ chip["main"] # Torn
  /\ chip[BootBlock] = chip["main"]
  /\ BootBlock = "swap" => chip["main"] \in Doubled

(* The vendor's firmware locks the top, and lets only the patched flashroms *)
(* write to the others.                                                    *)
Writable(area) ==
  runs # Lenovo \/ (mode = "i945lenovo_firstflash" /\ area # "top")

Init ==
  /\ chip = [area \in {"main", "swap", "top"} |-> Lenovo]
  /\ ts = 0 /\ runs = Off
  /\ mode = "update" /\ rom \in Rom /\ stage = "idle" /\ pos = 1
  /\ said = {} /\ half = "none"
  /\ faults = FaultBound

Idle == stage = "idle"

PowerOn ==
  /\ runs = Off /\ Boots
  /\ runs' = chip["main"]
  /\ half' = IF half = "first" THEN "booted" ELSE half
  /\ UNCHANGED <<chip, ts, script, said, faults>>

Shutdown ==
  /\ Idle /\ runs # Off
  /\ runs' = Off
  /\ UNCHANGED <<chip, ts, script, said, half, faults>>

(* The battery runs empty.                                                 *)
LoseBattery ==
  /\ runs = Off /\ faults > 0
  /\ faults' = faults - 1
  /\ ts' = 0 /\ half' = "none" /\ said' = {}
  /\ UNCHANGED <<chip, runs, script>>

(* The recovery guide: take the battery out, or flash externally.          *)
Recover ==
  /\ runs = Off /\ ~Boots
  /\ ts' = 0 /\ half' = "none" /\ said' = {}
  /\ \/ UNCHANGED chip
     \/ \E r \in Rom \cup {Lenovo} : chip' = [area \in DOMAIN chip |-> r]
  /\ UNCHANGED <<runs, script, faults>>

-----------------------------------------------------------------------------
(* flash                                                                   *)

\* Mutant: the next flashrom begins where the last one stopped.
GotoKeepsPos(s) == stage' = s /\ pos' = pos

Goto(s) == stage' = s /\ pos' = 1

Patched == <<"flashrom_lenovobios_sst", "flashrom_lenovobios_macronix">>
Flashroms == {Patched[1], Patched[2]}

\* Mutant: secondflash resets the bit before it writes.
OrderSwapped == [update                 |-> <<"flashrom">>,
                 i945lenovo_firstflash  |-> <<"bucts1">> \o Patched,
                 i945lenovo_secondflash |-> <<"bucts0", "flashrom">>]

(* What each mode calls, one after the other.  forceupdate and             *)
(* i945apple_firstflash are update with other arguments of flashrom's.     *)
Order == [update                 |-> <<"flashrom">>,
          i945lenovo_firstflash  |-> <<"bucts1">> \o Patched,
          i945lenovo_secondflash |-> <<"flashrom", "bucts0">>]

(* The guide is left by anything but its next command.                     *)
Flash(m, r) ==
  /\ Idle /\ runs # Off
  /\ mode' = m /\ rom' = r
  /\ Goto(Order[m][1])
  /\ said' = {}
  /\ half' = IF half = "booted" /\ m = "i945lenovo_secondflash" /\ r = runs
               THEN half ELSE "none"
  /\ UNCHANGED <<machine, faults>>

After ==
  LET calls == Order[mode]
      i == CHOOSE i \in DOMAIN calls : calls[i] = stage
  IN  IF i < Len(calls) THEN calls[i + 1] ELSE "idle"

(* The status of what was called decides nothing.                          *)
Continue(message) ==
  /\ Goto(After)
  /\ said' = said \cup message
  /\ UNCHANGED <<mode, rom>>

Calls(program) == stage \in program /\ UNCHANGED runs

Says(bit) == IF bit = 1 THEN "TS=1" ELSE "TS=0"
Asked == IF stage = "bucts1" THEN 1 ELSE 0

\* `bucts 0` after a flashrom that failed: the top is whatever it left.
HalfAfterBucts ==
  half' = IF "failed" \in said /\ Asked = 0 THEN "none" ELSE half

(* The register is read back after it was written, and printed; a bit that *)
(* is right already is printed as it is.                                   *)
Bucts ==
  /\ Calls({"bucts0", "bucts1"})
  /\ ts' = Asked
  /\ Continue({Says(Asked)})
  /\ HalfAfterBucts
  /\ UNCHANGED <<chip, faults>>

\* Mutant: what is printed is the argument.
BuctsFailsAsked ==
  /\ Calls({"bucts0", "bucts1"})
  /\ faults > 0
  /\ faults' = faults - 1
  /\ Continue({}) \/ Continue({Says(Asked)})
  /\ HalfAfterBucts
  /\ UNCHANGED <<chip, ts>>

(* It does not start or finds no bridge it knows, or the register does not *)
(* take the bit, with which it succeeds.                                   *)
BuctsFails ==
  /\ Calls({"bucts0", "bucts1"})
  /\ faults > 0
  /\ faults' = faults - 1
  /\ Continue({}) \/ Continue({Says(ts)})
  /\ HalfAfterBucts
  /\ UNCHANGED <<chip, ts>>

Area == Areas[pos]

(* The patched flashroms each know the chips of one maker.                 *)
Flashing == Calls({"flashrom", Maker})

WrongFlashrom ==
  /\ Calls(Flashroms \ {Maker})
  /\ Continue({})
  /\ UNCHANGED <<chip, ts, half, faults>>

(* flashrom: areas that are right already are left alone.                  *)
WriteArea ==
  /\ Flashing /\ pos <= Len(Areas)
  /\ Writable(Area)
  /\ chip' = [chip EXCEPT ![Area] = rom]
  /\ pos' = pos + 1
  /\ UNCHANGED <<ts, mode, rom, stage, said, half, faults>>

Verified ==
  /\ Flashing /\ pos > Len(Areas)
  /\ Continue({"VERIFIED"})
  /\ UNCHANGED <<chip, ts, half, faults>>

Failed == {"failed"} \cup IF Area = "top" THEN {"failedAtTop"} ELSE {}

(* The expected failure of the first half: at address 0x1f0000.            *)
Protected ==
  /\ Flashing /\ pos <= Len(Areas)
  /\ ~Writable(Area)
  /\ Continue(Failed)
  /\ half' = IF /\ mode = "i945lenovo_firstflash" /\ rom \in Doubled
                /\ "TS=1" \in said /\ Area = "top"
               THEN "first" ELSE half
  /\ UNCHANGED <<chip, ts, faults>>

Breaks == chip' = [chip EXCEPT ![Area] = IF @ = rom THEN @ ELSE Torn]

FlashromFails ==
  /\ Flashing /\ pos <= Len(Areas)
  /\ faults > 0
  /\ faults' = faults - 1
  /\ UNCHANGED chip \/ (Writable(Area) /\ Breaks)
  /\ Continue(Failed)
  /\ UNCHANGED <<ts, half>>

(* The mains, or ^C and a shutdown, at any point.  ^C alone leaves what    *)
(* failures of the remaining calls leave, and a bucts killed before it     *)
(* prints leaves what Bucts does; neither prints more than these.          *)
PowerLoss ==
  /\ ~Idle /\ faults > 0
  /\ faults' = faults - 1
  /\ runs' = Off
  /\ Goto("idle")
  /\ \/ UNCHANGED chip
     \/ stage \in {"flashrom", Maker} /\ pos <= Len(Areas)
        /\ Writable(Area) /\ Breaks
  /\ said' = {}
  /\ UNCHANGED <<ts, mode, rom, half>>

Next ==
  \/ PowerOn \/ Shutdown \/ LoseBattery \/ Recover
  \/ \E m \in Mode, r \in Rom : Flash(m, r)
  \/ Bucts \/ BuctsFails
  \/ WrongFlashrom \/ WriteArea \/ Verified \/ Protected \/ FlashromFails
  \/ PowerLoss

Spec == Init /\ [][Next]_vars

-----------------------------------------------------------------------------
(* Properties                                                              *)

\* The variables have their types; nothing runs on a machine that is off, and
\* only a flashrom that found the chip has areas behind it.
TypeOK ==
  /\ chip \in [{"main", "swap", "top"} -> Rom \cup {Lenovo, Torn}]
  /\ ts \in {0, 1}
  /\ runs \in Rom \cup {Lenovo, Off} /\ (runs = Off => Idle)
  /\ mode \in Mode /\ rom \in Rom
  /\ stage \in {"idle", "bucts0", "bucts1", "flashrom"} \cup Flashroms
  /\ pos \in 1 .. Len(Areas) + 1
  /\ pos # 1 => stage \in {"flashrom", Maker}
  /\ said \subseteq {"TS=0", "TS=1", "VERIFIED", "failed", "failedAtTop"}
  /\ half \in Halves
  /\ faults \in 0 .. FaultBound

\* What the installation guide (docs/install) tells the user to look for in the
\* output before he shuts down, whatever happened to the machine before that.
\* `rom \in Doubled` is not in the guide: the machine then starts from the
\* block below the top, and only images of the former build system have the
\* boot block there, too (resources/scripts/helpers/build/roms/withgrub).
Reported ==
  /\ Idle
  /\ \/ /\ mode = "update" /\ "VERIFIED" \in said
        /\ ts = 1 => rom \in Doubled
     \/ /\ mode = "i945lenovo_firstflash" /\ {"TS=1", "failedAtTop"} \subseteq said
        /\ rom \in Doubled
     \/ mode = "i945lenovo_secondflash" /\ {"TS=0", "VERIFIED"} \subseteq said

\* No status is looked at, and yet a machine whose user saw in the output what
\* the guide quotes boots the image that was flashed, if that image's two last
\* 64 KiB are the same wherever the machine starts from the lower one.
ReportedBoots == Reported => Boots /\ chip["main"] = rom

\* From the end of the first half the machine boots whatever fails, the second
\* half's flashrom in the middle of the boot block included; what is not safe is
\* `bucts 0`, which is called after a flashrom that failed all the same.
SecondHalfIsSafe == half # "none" => Boots
=============================================================================
