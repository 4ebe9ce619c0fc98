# libreboot: a TLA+ verification project

This directory holds TLA+ models of the libreboot build system and of the
programs of its own that it carries, the TLC configurations that check them, and
theorems about them that TLAPS proves. Paths are relative to the repository;
`libs/git:352` is line 352 of that file.

## 1. The system

`libreboot <action> <project> [arguments]` (BUILD_HOWTO) runs an action of a
project: a shell function in `projects/<project>/<project>`, mostly a call of a
generic function of `libs/project` or `libs/git`. Nothing runs in the
background, and the only state is files: `sources/` (git repositories shared by
projects and targets, or extracted archives), `build/`, `install/` and
`release/`. What is hard is not threads but a *history*: any sequence of actions,
for any targets, each of which stops at its first failure (`set -e`) and leaves
what it did, followed by checks that look at those files to decide what need not
be done again.

| component | state | operations | modelled |
|---|---|---|---|
| git sources (`libs/git`, git half of `libs/project`) | one repository's branches, HEAD, index, a `git am` session | download, update, checkout in build and release | `GitProject`, `PreparedSources` |
| stages (`libs/project`, `libreboot`, as `projects/coreboot` uses them) | build, install and release files | build, install, release, produce, clean, and their checks | `ProjectStages` |
| released archives (`libs/project`, `libs/common`) | archives, checksums, signatures, extracted sources | extract, sources, download, update | `SourcesArchive` |
| flash descriptors (`projects/ich9gen`) | dumps, images, generated C code, the code built in | ich9deblob, demefactory, ich9gen, placing code and building | `Ich9Descriptor`, `Ich9Tools`; member by member `Ich9Structs`, `Ich9Layout`, `Ich9Code` |
| boot keys (`projects/cros-scripts`, `tools/boot-keys`) | key pairs, keyblocks, firmware and kernel image | generate, verify, sign, verify images, replace the GBB | `VerifiedBoot` |
| first flash of i945 Thinkpads (`flash`, `projects/bucts`) | flash chip areas, top swap bit | update, firstflash, secondflash, bucts | `FlashI945` |
| arguments and dependencies (`libs/project:59-381`) | none, recursion over configuration files | expansion, tsort | no, see section 7 |
| tools (`libs/tool`, `tools/*`) | lists of blobs | discover, verify | no, see section 7 |
| media, GRUB, other projects, meta-projects, the former build system, vendored code, documentation | | | no, see section 7 |

How they interact. `GitProject` makes the trees that `ProjectStages` compiles and
releases (there the version in `sources`); `ProjectStages` makes the archives that
`SourcesArchive` reads (there `Place`, because the user carries them to another
checkout); both git and extraction answer `project_sources_path`, where an
extraction shadows the repository. The tools of ich9gen and the boot keys work on
what `install` puts in place (`InstallFirmware`, `InstallKernel`), and otherwise
on files of the user's. The components are composed where they share state:
`PreparedSources` is the interface of the git half, and the abstraction of a
source tree to one version in `ProjectStages` is what `PreparedIsExact` and
`ReadsPrepared` allow.

What makes each correct, in one sentence:

- git sources: a target whose preparation succeeded has the tree its
  configuration describes, although all targets share one HEAD and one index;
- stages: what is skipped need not be done, and what is released is complete,
  verified and, when built from nothing, current;
- archives: nothing unverified becomes sources, and success means whole sources;
- descriptors: every image is bootable (regions cover the chip, checksum right)
  and free (no ME), and the code route gives what the direct route gives;
- boot keys: keys that pass go together, and images signed with them boot.

None of the first four is true of the code without a condition: see sections 4 and 6.

## 2. The modules

A *fault* is a command of the action that fails, or ^C: every model has an action
`Interrupt` that ends the running command between any two of its steps, with the
file being written as before or cut short (`Torn`) where the tool can leave it so,
and a bound `FaultBound` on their number. `stage`, `phase` or `todo` say what the
running command does next; a request is accepted only when it is idle, because
one person runs one command at a time in one checkout.

### GitProject and PreparedSources

A tree is abstracted to `[base, removed, patched]`, the upstream commit, the blobs
removed and the patches applied: what preparing changes. `branch[t]` is the branch
`libreboot-<project>-<arguments>` of a target; `head`, `loose`, `index` and
`amLeft` are git's HEAD, the tree it names when detached, the staged removals, and
`.git/rebase-apply`.

| actions | code |
|---|---|
| `DownloadSkipped`, `Download`, `Clone` | `project_download_check_git`, `project_download_git`, `git_project_clone` |
| `BranchCreate`, `ResetToRevision` | `git_branch_create` (`checkout -B`, `reset --hard`) |
| `RemoveBlob`, `CommitBlobs` | `git_project_prepare_blobs`, with its loop over `project_blobs` |
| `ApplyPatch`, `ApplyPatchFails` | `git_project_prepare_patch`, `git_am` with its `git am --abort` |
| `Update`, `Fetch`, `CheckoutOrigin`, `BranchDelete` | `project_update_git`, `git_project_update`, `git_project_prepare_clean` |
| `Build`, `Release` | the checkout in `projects/coreboot/coreboot` and `git_project_release` |

git itself is outside the repository: what its commands do to HEAD, index and
working tree (`Pristine`, `WorkTree`, `CarryIndex`, `Attach`) is modelled from how
`libs/git` uses them and marked external. A `.diff` patch (apply, add, commit) is
one step like `git am`; a repository left half-cloned by SIGKILL is not modelled,
since git removes it on any other failure.

`PreparedSources` is what the repository promises: one private register of sources
per target, which only its owner writes, ready or not. `GitProject` implements it
(`ImplementsPreparedSources`) with `ready` the targets whose outcome is ok and
`owner` the target of the running action.

### ProjectStages

A file is the version of the sources it was built from, a directory a function
from `File`. Each action begins with its check (`BuildCheck`, `InstallCheck`,
`ReleaseCheck`, as the code evaluates them, lost statuses included), which
`PROJECTS_FORCE` (`forced`) overrides; `produce` is three of them in a row. make
builds files in any order (`MakeFile`), install copies rule by rule (`CopyFile`),
release packs images, sums them, packs sources, sums them; clean removes files one
by one, and from the release directory those of all targets.

### SourcesArchive

A *node* is a project's name with a prefix of a target's arguments, the names the
lookups try; `Chain[t]` is a target's, from the general to the specific. An archive
carries whether its checksum and signature verify, whether it is whole and which
directory it holds; extracted sources carry whether they are whole and whether
they came from verified archives only (`trusted`, a history the code does not
keep). `Extracting` under `sources` is the condition of an `if`, where `set -e` is
off (`libreboot:82`).

### Ich9Descriptor and Ich9Tools

`Ich9Descriptor` is `descriptor.c`: pure operators on a descriptor's regions (base
and limit in 4 KiB blocks, 13 bits), master access, densities and straps.
`Ich9Tools` is the three programs: which files they write in which order, the GbE
region with its 16 bit checksum (words in `Word`, sums modulo 65536), the check of
the MAC address character by character (`Accepted`), and the way of dumped code
into ich9gen (`Place`, building). It keeps the fields the tools decide on; what they
copy unchanged is in the next three modules, and only what is printed is in none.

### Ich9Structs, Ich9Layout and Ich9Code

The tools read a dump's bytes into C structs of bit-fields, and write C code that
assigns their members one by one. `Ich9Structs` is `descriptor.h` and `gbe.h`: every
struct as a sequence of members with type, width and count. `Ich9Layout` puts the
members where a compiler and a machine may (`Abi`: four ways of packing bit-fields,
two byte orders, two bit orders, bytes turned or not: 32 layouts) and has the check of
`common/x86compatibility.c` that every tool starts with (`SystemOrCompilerIncompatible`),
test structs included. `Ich9Code` runs a whole tool in one step on structs that are
functions from member names to values: what ich9deblob, demefactory and ich9gen do to
them, which members `notCreatedCFileFromDescriptorStruct` and its GbE twin print as
assignments (an unprinted one of the built code is `Garbage`, whatever was on the
stack), and the two C files in the repository, number by number, as the code ich9gen
is first built with. Their failures and files are `Ich9Tools`' business; the contents
of a padding array are one value.

### VerifiedBoot

A key is the run of `generate` that made it, 0 for the developer keys the build
signs with. `generate` writes nine public and nine private keys and five keyblocks
in the script's order; `VerifyKeys`, `VerifyFirmware` and `VerifyKernel` ask
futility exactly what the scripts ask it. What futility and the firmware do
(`Unpacks`, `FirmwareBoots`, `KernelBoots`) is external, and so is coreboot's make, which
signs a new image with the developer keys (`Fresh`). All scripts are taken to be
given the same `VBOOT_KEYS_PATH`, and one medium stands for the loop over media.

### FlashI945

The chip is three areas, the main part and the two last 64 KiB, written in ascending
order; an area is from an image, or `Torn`. `Order` is what each mode of the script
calls, and `Continue` goes to the next whatever the status. `said` is what was printed,
because the guide (docs/install) tells the user to go by that. flashrom, the protection
of the top block by the vendor's firmware, booting and the user are external. `half`
is a history: how far the user got with the guide. An image with two different last
blocks cannot be booted by the top swap; of libreboot's, only the former build system
doubles the block (`resources/scripts/helpers/build/roms/withgrub`), hence `Doubled`.
Images are compared as a whole: one area of another image counts as not booting. ^C
without a shutdown has no action of its own: the chip and the bit are then as after
failures of the remaining calls (`BuctsFails`, `FlashromFails`).

## 3. Runs

| run | instance | shows |
|---|---|---|
| `git_pair` | a board with a revision, two blobs and a patch, and a project that borrows its repository without a revision; one fault; fairness | `TypeOK`, `PreparedIsExact`, `BranchIsolation`, `ReadsPrepared`, `ImplementsPreparedSources`, `ActionEnds`, `RetryRecovers` |
| `stages_unforced` | two targets, two files, two faults, no force | `TypeOK`, `ArchiveComesLast`, `ProducedIsComplete`, `FreshArchiveIsCurrent` |
| `stages_forced` | one target, two versions, two faults, force at will; fairness | `ReleaseIsCurrent`, `CommandEnds`, `ProduceReleases` |
| `stages_skipped` | two targets, one fault | violates `SkippedBuildIsComplete` |
| `archive_commands` | two targets sharing the project's name; archives for the project and for either target, good, unsigned and truncated; own sources or none; one fault; fairness | `TypeOK`, `EndsWhole`, `OnlyTrusted`, `GitIsKept`, `CommandEnds`, `SourcesObtains` |
| `archive_unverified` | the same without faults | violates `ExtractedIsVerified` |
| `ich9_images` | a dump with the NIC whose main GbE half is broken, one without; the shipped code; an address accepted and one refused; one fault | `TypeOK`, `ImagesSound`, `GbeSound`, `AddressUsed`, `Recreates` |
| `ich9_address` | addresses too short and with a wrong last separator | violates `InvalidAddressExits` |
| `ich9_code` | all 32 layouts; an 8 MiB dump with the NIC, a 4 MiB dump without, a 16 MiB dump with every reserved bit set; the shipped code; two addresses | `TypeOK`, `AcceptedIsRight`, `Recreates`, `ImplementsDescriptor`, `MapsAgree`, `FixedSumsUp`, `ImagesSound` |
| `ich9_checksum` | as `ich9_code` | violates `SumsUp` |
| `boot_keys` | three runs of generate, two faults; fairness | `TypeOK`, `KeysAgree`, `SignedBoots`, `VerifiedBoots`, `GenerateRecovers` |
| `flash_i945` | three images, two doubled; an SST chip; three faults | `TypeOK`, `ReportedBoots`, `SecondHalfIsSafe` |

Why the bounds are enough. Two targets are the least that can disturb each other, and no
action looks at more than its own target and the shared HEAD and index; two blobs give
the list a middle, so that a fault falls between elements, and blobs and patches each
have an end that the other begins at. One fault leaves every half-done state, from which
everything else then runs; two, where a half-done state could be met by the repair of
another, are used where the models are small enough (stages, keys). Two versions tell
current from old. Three runs of generate let a keyblock be of a generation that neither
its data key nor its signing key is of. The dumps cover NIC and no NIC, region order the
tools must change, three chip sizes and the padded GbE half; layouts are enumerated, not
sampled. Three faults let a battery, a `bucts` and a flashrom fail in one procedure; the
maker of the chip only decides which of two calls finds it. The requests are otherwise
unbounded: the state spaces are closed under any sequence of commands (except `generate`
and `Update`, which `MaxRun` and `MaxVersion` bound).

Deadlock is checked in every run: a user can always give another command.

Fairness is `WF_vars(Advance)`: a command that was started keeps running, for it is
one process with nothing to wait for but its own children. Requests are not fair,
since nobody has to give a command, and neither are faults. The liveness properties
that speak of recovery start where `faults = 0`, in the middle of whatever the faults
before it left.

## 4. Properties worth a second look

- `PreparedIsExact` (git): blob removal and patches commit to HEAD, not to a branch, and
  a failed preparation leaves removals staged that the next checkout of *another* target
  carries over. It is the `reset --hard` to the revision that saves the next
  preparation. Hence `HasRevision` in it: a borrower without a revision starts where
  HEAD is, and the code promises nothing about it.
- `ReadsPrepared` needs `index = {}`: build compiles a working tree, and staged removals
  of another target's failed preparation are in it (libs/git:366). The property leaves
  that case out, because the code does not look; what it checks is that the checkout
  before build and release gets the tree right. That such removals are never committed to
  another target's branch is `PreparedIsExact`.
- `RetryRecovers`: a forced download or an update repairs what failures left. It does not
  say that a plain download does (a half-prepared branch is skipped, section 6), nor that
  the first retry clears a session of `git am` that was killed: it starts without one.
- `ArchiveComesLast`: `release_check` keeps the status of the sources archive only
  (`projects/coreboot/coreboot:134`). It is sound because release packs images first and
  clean removes them last. With `PROJECTS_FORCE` it is not, and says so.
- `ProducedIsComplete`: `build_check` cannot be trusted, but install fails on a file
  that is not there and `install_check` does look at every file.
- `EndsWhole` (archives): success means that the tree `project_sources_path` then
  answers is whole. It holds for archives of one of the target's directories and for
  targets with one argument: update removes only the most specific sources there are
  (libs/project:566), so of three names the middle one, cut short by an earlier
  extraction, would come to light behind an archive that unpacks at the top.
- `KeysAgree`: `verify` looks at five signatures by public keys and at no private key
  and no data key. Because `generate` writes public before private key, signing keys
  before data keys where it matters, and keyblocks last, a whole keyblock signed by
  today's key implies that everything is of that run. Reordering `KEYS` breaks it.
- `ReportedBoots` (flash): what the guide tells the user to look for is enough, but only
  for an image whose two last 64 KiB are the same (`rom \in Doubled` in `Reported`)
  where the machine starts from the lower of them; section 6.
- `SecondHalfIsSafe`: the second half overwrites the boot block the machine will later
  use while it boots from the other, and only then gives the other up. It depends on the
  order of the two calls, and on the image having been the first half's.
- `Recreates`: the generated C code takes densities and straps from constants and sizes,
  and everything else from the dump; the round trip is exact apart from the densities,
  and only for dumps whose ME region is gone. `Ich9Code` has it again for every member,
  where a member that the generator forgets to print shows as `Garbage`.
- `AcceptedIsRight`: each layout the check of x86compatibility.c accepts puts every
  member of the descriptor and the GbE region on the bits the chips read. The check
  looks at a few test structs and the sizes of the real ones; that this rules out all
  other packings, also of the structs it does not look at, is what the run shows.
- `MapsAgree`, `FixedSumsUp`: the pointers of the descriptor's maps are the offsets the
  structs have, and every GbE region whose checksum a tool recomputed sums up to 0xBABA.
  The shipped one, which no tool recomputed, does not: section 6.
- `ImplementsDescriptor`: forgetting the other members, the structs' changes are those
  of `Ich9Descriptor`, on which the theorems about images rest.
- `ImagesSound` is a property of both `Ich9Tools`, where files may be torn or missing,
  and `Ich9Code`, where it is about the 4 KiB that are written. In the latter it hangs on
  the user: demefactory writes C files of the same names as ich9deblob's, of a descriptor
  that has its ME region, and only ich9deblob asks for them to be placed in ich9gen
  (`Place`; its mutant `PlaceAny` takes demefactory's, too, and the next ich9gen lays the
  BIOS over the ME). It does not speak of demefactory's image: that keeps the factory's
  regions, sound or not.

## 5. Proofs

**`GitProject_proofs`** (any targets, configuration, number of faults). `IInv` is
`TypeOK`, `RunningInv` (the running target's outcome is running), `HeadInv` (while a
branch is being prepared HEAD is on it), `ProgressInv` (between the blob and patch
steps, the branch is at its revision less the removed blobs, with the patches so far)
and `PreparedIsExact`. `ProgressInv` is what makes it inductive: `PreparedIsExact`
speaks of finished preparations and a step only sees the one it continues.
`TypeCorrect`, `PreparedExactly`, and from the same invariant the action properties
`BranchesIsolated` and `ReadsPreparedSources`, and `Refinement`, that every step is a
step of `PreparedSources` or none of its concern.

**`Ich9Descriptor_proofs`** (any descriptor whose own region is the first block, any
image of 16 KiB to 32 MiB). What the operators of `Ich9Descriptor` make of a descriptor,
edit by edit: `DeblobbedSound`, `GeneratedSound`, `GeneratedRecreates`. They carry the
arithmetic on regions for both of the next two modules.

**`Ich9_proofs`** (any dumps that are descriptors with room for a BIOS, any address,
any number of faults). Operator theorems first, those of `Ich9Descriptor_proofs` and
`DeblobbedGbeGood` about the checksum. The state part adds to the properties `JobInv`
(what the running tool has left to write, and what it wrote), `InvitedInv` (code the user was told to place
is whole and from a freed dump) and `BuiltInv` (so is the code built in): an image's
soundness depends on code that was dumped, placed and built any number of commands
before. Results: `TypeCorrect`, `AllImagesSound`, `AllGbeSound`, `AddressAlwaysUsed`,
`AlwaysRecreates`.

**`ProjectStages_proofs`** (any targets, files, versions, number of faults). A job is
what the running command has left to do, and most of the invariant says what follows
from its place: `JobOK` (a phase is of the action at the head of the job, and nothing is
logged of what is left), `MadeOK`, `CopiedOK`, `PackedOK` (files made, copied or packed
so far are there and of the version read), `FreshOK` (in a produce from nothing nothing
is older than its start), `AllRun` (under force no check skipped a step) and
`UnforcedOK` (without force, the archive is last). Results: `Types`, `ArchiveLast`,
`ProducedComplete`, `ReleasesCurrent`, `FreshArchiveCurrent`.

**`SourcesArchive_proofs`** (any names, archives, targets, number of faults). `PhaseOK`
says of each phase of extract and update what its checks have established, `ClearedOK`
that what update removed is still away when the archive is unpacked. `EndsWhole` speaks of
the most specific name there is, so the lemma `Last` first shows that a set of
positions has a last one, from the well-foundedness of proper inclusion on finite sets.
Results: `Types`, `OnlyVerified`, `RepositoryIsKept`, `SuccessIsWhole`.

**`VerifiedBoot_proofs`** (any number of runs of generate and of faults). `KeysInv` is
the heart: a whole keyblock ties two keys of one run together, the first keyblock that
verify asks for unpacks only where all keys are of one run, and by `Leads`, which is
about the order of `KEYS`, a root key or firmware data key that a newer run has not
overwritten yet implies the same of the kernel subkey. `GenerateInv`, `VerifyInv` and
`SignInv` say what the running script has written or asked so far, `ImageInv` what a
signed image is made of. Results: `Types`, `Agreement`, `SignedImagesBoot`,
`VerifiedImagesBoot`.

**`FlashI945_proofs`** (any images, either maker, number of faults). `StageOK` and
`Written` say what each call has left on the chip (the areas before `pos` are the
image's), `SaidOK` what can have been printed by then, `SaidIsTrue` that it is still
true, and `HalfInv` that once the guide's first half is done main and swap are one
doubled image with the bit set, or all three areas are that image. Results: `Types`,
`SecondHalf`, `Reports`.

**`Ich9Code_proofs`** (any dumps that fit the structs, any addresses, each layout the
check accepts). Four layers. The *members*: every edit, and a generated function, sets
its members and keeps the others (`Kept`, `DeblobbedEdit`, `DemedEdit`, `GeneratedSet`),
which needs that no member of one part is one of another (`NamesApart`); from this,
what `Ich9Descriptor` keeps of the result is its own operator on what it keeps of the
argument (`DeblobbedFields`, `DemedFields`, `GeneratedFields`), and what is written fits
(`EditedFits`, `GeneratedFits`). The *sum*: `SumOfWords` counts bits of memory by their
weight, with a fold over 0 .. 15; `FoldExists` and `FoldUnique` write the fold out,
`CountAdded` and `Binary` add the bits of a 16 bit number whose word was empty,
`SummedSums` concludes that a region with its checksum sums to 0xBABA modulo 65536,
whatever its other words are. The *layouts of the chip*: a struct that fits reads as a
descriptor (`AsDescriptorType`), so that the theorems of `Ich9Descriptor_proofs`, taken
over with INSTANCE, hold of what the tools make of it; code is `FreedCode` if what it
returns, with the NIC and without, has no ME, and then all it returns is sound
(`FreedCodeSound`), as are the structs and the code of ich9deblob (`DeblobbedFreed`). The
*rounds*: `IInv` says that code which is built in, or
dumped and not placed yet, names each member with its count and has only literals that
fit or the arguments (`IsDescriptorCode`), that its maps point at the sections and its
GbE region sums up or is the repository's (`Buildable`, `Placeable`), that code which is
built in, or was dumped by another tool than demefactory, is `FreedCode`, and that each
image is what its tool makes of the dump or of the code (`ImagesWritten`). The
properties are about images only, and are not inductive: the code that an image is
generated from was dumped, placed and built any number of commands before. TLC checked
`IInv` on the instance of `ich9_code` before it was proved. Results:
`EveryMemberIsAssigned`, `DumpedCodeRecreates`, `StructsImplementDescriptor`,
`StructImagesSound`, `MapsAlwaysAgree`, `ChecksumsAlwaysRight`.

The assumptions are the named ASSUMEs of the components, which TLC evaluates in
every run. They say that configuration is well-typed and that the distinguished
values (`NoTree`, `Detached`, `None`, ...) are not among the ordinary ones, and that a
dump's descriptor is in its first block and its blocks are numbered by 13 bits; in
`Ich9Code`, that a dump fits the structs, too, and that its maps are right for them
(`MapsAssumption`: the tools never look at the maps, so `MapsAgree` can only promise
that they stay right). Five assumptions of `Ich9Code` have no constant in them
(`WrittenAssumption`, `BitsAssumption`, `ShippedAssumption`, `FreedAssumption`,
`LayoutAssumption`): they
say what tables come to, such as that the generator prints every member with its
count, how many bits the edited members have, that the code in the repository is
complete and of a descriptor without ME, and where the accepted layouts put the
checksum. The tables are folds over
the lists of `Ich9Structs` and names made by `ToString`, which the provers cannot
compute and TLC does, completely.

Only model-checked: `AcceptedIsRight`, which is such a computation as a whole (no
constant occurs in what it says of a layout, and the run goes through all 32); and all
liveness, since fairness and ENABLED are out of the proof system's reach.

## 6. What the code does otherwise than it says

Each is a run whose property TLC violates:

- `stages_skipped`: `build_check` returns from a pipeline's subshell
  (libs/project:1033): a half-built directory counts as built.
- `archive_unverified`: `sources` unpacks an archive that does not verify, because
  its call of extract is the condition of an `if` (libreboot:82).
- `ich9_address`: the loop over separators stops before the last (ich9gen.c:69).
- `ich9_checksum`: the words of the GbE region up to its checksum shall sum to 0xBABA
  (gbe.h:60); those of the region in `ich9gen/mkgbe.c`, with which ich9gen is first
  built, do not. Given an address ich9gen recomputes the sum; without one it writes the
  built-in region as it is.

Seen while modelling, and in the models, without a run of their own:

- a git download that failed after creating the branch is skipped, with success, from
  then on (libs/git:466); only `update` or force repair it (`RetryRecovers`);
- a forced release after an update makes new images and keeps the archive of the old
  sources (libs/project:1397); a sources archive that is torn or has no checksum makes
  every later release be skipped (libs/project:1402);
- clean of one target removes the release files of all of them (libs/project:1604);
- update removes sources, the project's own included, before it knows that the archive
  verifies, and only those of the most specific name (libs/project:566);
- an archive truncated in extraction leaves a directory that keeps `sources` from
  downloading, and the next `sources` is skipped with success (libs/project:873);
- archives released without `RELEASE_KEY` can never be extracted (libs/common:186), and
  git sources are released under a name extract does not look for (libs/git:574);
- the code demefactory dumps "will recreate the deactivatedME descriptor from scratch"
  (demefactory.c:126), but the printed function computes the BIOS and GbE regions, the
  number of regions and the LAN straps as libreboot has them, over the factory's ME region,
  which it keeps: what it returns is another descriptor (see `ImagesSound` in section 4);
- ich9deblob on a machine without the NIC leaves the mkgbe files of an earlier one;
- `flash` looks at no status: `i945lenovo_firstflash` writes the chip although `bucts 1`
  failed (flash:125; docs/release.md:607 has it fail), and `i945lenovo_secondflash` calls
  `bucts 0` although flashrom failed (flash:131);
- the guide quotes the output of `i945lenovo_firstflash` as the sign of "a *resounding*
  success" (docs/install/index.md:312-335) whatever the image. The machine then starts
  from the 64 KiB below the last; only images of the former build system have the boot
  block there as well (`resources/scripts/helpers/build/roms/withgrub`), others do not boot;
- a firmware whose signing stopped between its two calls verifies and does not boot
  (cros-firmware-prepare:59), and `boot-keys sign` repacks a torn kernel image, in vain,
  instead of packing it again (boot-keys:69).

## 7. Not modelled

- arguments and dependencies (`libs/project:59-381`): pure functions of configuration
  files, whose order comes from the system's `tsort`; they keep no state, and the other
  modules begin where they end, at one target whose dependencies are there. Two flaws
  are on the list of hazards: the count lost in a subshell (libs/project:156), and the
  recursion that a cycle never leaves (libs/project:133).
- a release of a target without a branch: `git_project_release_check` then returns 0 and
  `git_project_release` packs no sources (libs/git:572, 607); in `ProjectStages` each target
  has its branch.
- `libs/tool` and `tools/blobs-discover`: the first is the control of libs/project's
  actions again; the second a search whose only state is the list it writes, and which
  is skipped once that list is there, complete or not (blobs-discover:158).
- `cros-medium-setup`, `cros-kernel-install`: one pass of block-device commands; the
  state is the device's.
- `projects/grub` and other projects' scripts: the generic actions with another
  compiler; grub-helper writes text.
- meta-projects: loops over projects. `project_release_install` (rootfs) copies where
  release packs.
- `tools/dependencies`, `tools/release-external`, i945-pwm: print, or act once on each
  file of a list.
- `oldbuild`, `download`, `resources/scripts`: the former build system, straight-line.
- `resources/utilities/ich9deblob` is an older, differing copy of `projects/ich9gen`.
- deblob-check, patches, board configurations, docs, www, i18n: vendored code and data.

## 8. Plan

What would add most to this project next:

1. Composition of `GitProject` with `ProjectStages` on one repository, so that the
   versions of the latter are the former's trees.
2. Expansion of arguments and sorting of dependencies as recursive functions against a
   reference: each leaf visited once, dependencies before dependents.
3. Failures in `Ich9Code`: its tools run in one step, so that `Ich9Tools`, which takes
   one step per file, cannot be its abstraction step by step. What the two share are the
   operators of `Ich9Descriptor`, of which `ImplementsDescriptor` shows that the structs
   have them; writing file by file in `Ich9Code` would make the refinement possible.
