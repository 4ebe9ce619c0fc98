------------------------------ MODULE ProjectStages ------------------------------
(***************************************************************************)
(* build, install, release, produce and clean for the targets of one       *)
(* project (libs/project, with `produce` from libreboot), as in            *)
(* projects/coreboot/coreboot.                                             *)
(*                                                                         *)
(* Every action is preceded by a check that looks at files only -- does    *)
(* the directory, the installed file, the archive exist? -- and skips the  *)
(* action when it finds them.  An action writes its files one by one and   *)
(* may fail or be interrupted between any two of them, or in the middle of *)
(* one.  A file is abstracted to the version of the sources it was built   *)
(* from.                                                                   *)
(***************************************************************************)
EXTENDS Naturals, Sequences

CONSTANTS
  Target,       \* the targets of the project (its lists of arguments)
  File,         \* the files the install rules name
  Rules,        \* the rules of the `install` file, in order
  Checked,      \* targets whose rules are in their last argument's directory
  MaxVersion,   \* bound on the versions of the sources
  FaultBound,   \* how many steps may fail or be interrupted
  Forcing,      \* may PROJECTS_FORCE name the project: a set of Booleans
  Missing, Torn, Nothing

Version == 1 .. MaxVersion
Content == Version \cup {Missing, Torn}
Dir == [File -> Content]

ASSUME ProjectAssumption ==
  /\ Checked \subseteq Target
  /\ Rules \in Seq(File) /\ Rules # <<>>
  /\ \A f \in File : \E i \in 1 .. Len(Rules) : Rules[i] = f
  /\ Forcing \in SUBSET BOOLEAN

ASSUME BoundAssumption == MaxVersion \in Nat \ {0} /\ FaultBound \in Nat

ASSUME ValueAssumption ==
  /\ Missing \notin Version /\ Torn \notin Version /\ Missing # Torn
  /\ Nothing \notin Dir \cup Version \cup {Missing, Torn}
  /\ Torn \notin Dir

VARIABLES
  sources,    \* per target, the version of its prepared sources
  build,      \* per target, its build directory, or Nothing
  install,    \* per target, its install directory, or Nothing
  images,     \* per target, the archive of its install directory
  imagesSum,  \* what the checksum and signature beside it were made for
  archive,    \* per target, the archive of its sources
  archiveSum,
  todo,       \* actions the running command has left, <<>> when idle
  phase,      \* what the first of them does next
  step,       \* the install rule being copied
  target,     \* the target of the running, or last, command
  forced,     \* that command's PROJECTS_FORCE
  fresh,      \* the target had nothing built, installed or released before it
  log,        \* how the actions of that command ended
  faults      \* faults left to happen

buildVars   == <<build, install>>
releaseVars == <<images, imagesSum, archive, archiveSum>>
jobVars     == <<todo, phase, step, target, forced, fresh, log>>
vars == <<sources, buildVars, releaseVars, jobVars, faults>>

Action == {"build", "install", "release", "clean"}
Result == {"none", "ran", "skipped", "failed"}
Phase == {"check", "make", "copy", "images", "imagesSum", "archive",
          "archiveSum", "rmBuild", "rmInstall", "rmArchives", "rmImages"}

TypeOK ==
  /\ sources \in [Target -> Version]
  /\ build \in [Target -> Dir \cup {Nothing}]
  /\ install \in [Target -> Dir \cup {Nothing}]
  /\ images \in [Target -> Dir \cup {Torn, Nothing}]
  /\ imagesSum \in [Target -> Dir \cup {Nothing}]
  /\ archive \in [Target -> Version \cup {Torn, Nothing}]
  /\ archiveSum \in [Target -> Version \cup {Nothing}]
  /\ todo \in Seq(Action)
  /\ phase \in Phase
  /\ step \in 1 .. Len(Rules) + 1
  /\ target \in Target
  /\ forced \in BOOLEAN /\ fresh \in BOOLEAN
  /\ log \in [Action -> Result]
  /\ faults \in Nat

-----------------------------------------------------------------------------

Idle == todo = <<>>
Running(a, p) == ~Idle /\ Head(todo) = a /\ phase = p

EmptyDir == [f \in File |-> Missing]
Present(dir, f) == dir[f] # Missing
Filled(dir) == dir # Nothing /\ \E f \in File : Present(dir, f)

NoLog == [a \in Action |-> "none"]

Init ==
  /\ sources = [t \in Target |-> 1]
  /\ build = [t \in Target |-> Nothing]
  /\ install = [t \in Target |-> Nothing]
  /\ images = [t \in Target |-> Nothing]
  /\ imagesSum = [t \in Target |-> Nothing]
  /\ archive = [t \in Target |-> Nothing]
  /\ archiveSum = [t \in Target |-> Nothing]
  /\ todo = <<>> /\ phase = "check" /\ step = 1
  /\ target \in Target
  /\ forced = FALSE /\ fresh = FALSE
  /\ log = NoLog
  /\ faults = FaultBound

Goto(p) == phase' = p /\ step' = 1 /\ UNCHANGED <<todo, target, forced, fresh, log>>

(* The current action ended well: on to the command's next one.            *)
Finish(result) ==
  /\ todo' = Tail(todo)
  /\ log' = [log EXCEPT ![Head(todo)] = result]
  /\ phase' = "check" /\ step' = 1
  /\ UNCHANGED <<target, forced, fresh>>

(* It failed: `set -e` ends the command with it.                           *)
Fail ==
  /\ todo' = <<>>
  /\ log' = [log EXCEPT ![Head(todo)] = "failed"]
  /\ phase' = "check" /\ step' = 1
  /\ UNCHANGED <<target, forced, fresh>>

-----------------------------------------------------------------------------
(* Commands                                                                *)

Command == {<<"build">>, <<"install">>, <<"release">>, <<"clean">>,
            <<"build", "install", "release">>}

Request(t, actions, force) ==
  /\ Idle
  /\ todo' = actions
  /\ phase' = "check" /\ step' = 1
  /\ target' = t
  /\ forced' = force
  /\ fresh' = (build[t] = Nothing /\ install[t] = Nothing
                 /\ archive[t] = Nothing)
  /\ log' = NoLog
  /\ UNCHANGED <<sources, buildVars, releaseVars, faults>>

(* `update` brings a new upstream version between two commands.            *)
Update(t) ==
  /\ Idle
  /\ sources[t] < MaxVersion
  /\ sources' = [sources EXCEPT ![t] = @ + 1]
  /\ log' = NoLog
  /\ UNCHANGED <<buildVars, releaseVars, todo, phase, step, target, forced,
                 fresh, faults>>

(* build_check: `return 1` in the pipeline's subshell only sets the status *)
(* of that rule, so what counts is the last rule read -- or, when the last *)
(* argument's directory has no install file, the loop's `continue`.        *)
BuildCheck(t) ==
  /\ build[t] # Nothing
  /\ t \in Checked => Present(build[t], Rules[Len(Rules)])

\* Mutant: like build_check, only the last rule counts.
InstallCheckLast(t) ==
  install[t] # Nothing /\ Present(install[t], Rules[Len(Rules)])

(* install_check: every destination exists.                                *)
InstallCheck(t) ==
  /\ install[t] # Nothing
  /\ \A f \in File : Present(install[t], f)

(* release_check: of its two checks only the last one's status is kept.    *)
(* The sources are a branch of git's: without one the last check succeeds  *)
(* and release packs no sources (libs/git:572, 607): not modelled.         *)
ReleaseCheck(t) == archive[t] # Nothing

Check(a, t) == CASE a = "build" -> BuildCheck(t)
                 [] a = "install" -> InstallCheck(t)
                 [] a = "release" -> ReleaseCheck(t)
                 [] a = "clean" -> FALSE

Skip ==
  /\ ~Idle /\ phase = "check"
  /\ ~forced /\ Check(Head(todo), target)
  /\ Finish("skipped")
  /\ UNCHANGED <<sources, buildVars, releaseVars, faults>>

\* Mutant: the sources are released first.
SourcesFirst == [build |-> "make", install |-> "copy", release |-> "archive",
                 clean |-> "rmBuild"]

FirstPhase == [build |-> "make", install |-> "copy", release |-> "images",
               clean |-> "rmBuild"]

(* build makes its directory before anything can go wrong.                 *)
Start ==
  /\ ~Idle /\ phase = "check"
  /\ forced \/ ~Check(Head(todo), target)
  /\ Goto(FirstPhase[Head(todo)])
  /\ build' = IF Head(todo) = "build" /\ build[target] = Nothing
                THEN [build EXCEPT ![target] = EmptyDir] ELSE build
  /\ UNCHANGED <<sources, install, releaseVars, faults>>

-----------------------------------------------------------------------------
(* build                                                                   *)

Stale(f) == build[target][f] # sources[target]

\* Mutant: the tree compiled is one version ahead.
MakeAhead(f) ==
  /\ Running("build", "make")
  /\ Stale(f)
  /\ build' = [build EXCEPT ![target][f] = sources[target] + 1]
  /\ UNCHANGED <<sources, install, releaseVars, jobVars, faults>>

(* make, in any order; what is up to date is left alone.                   *)
MakeFile(f) ==
  /\ Running("build", "make")
  /\ Stale(f)
  /\ build' = [build EXCEPT ![target][f] = sources[target]]
  /\ UNCHANGED <<sources, install, releaseVars, jobVars, faults>>

MakeDone ==
  /\ Running("build", "make")
  /\ \A f \in File : ~Stale(f)
  /\ Finish("ran")
  /\ UNCHANGED <<sources, buildVars, releaseVars, faults>>

-----------------------------------------------------------------------------
(* install                                                                 *)

RulesLeft == step <= Len(Rules)
Source == Rules[step]

Installed(content) ==
  [install EXCEPT ![target] =
     [IF @ = Nothing THEN EmptyDir ELSE @ EXCEPT ![Source] = content]]

CopyFile ==
  /\ Running("install", "copy")
  /\ RulesLeft
  /\ Filled(build[target]) /\ Present(build[target], Source)
  /\ install' = Installed(build[target][Source])
  /\ step' = step + 1
  /\ UNCHANGED <<sources, build, releaseVars, todo, phase, target, forced,
                 fresh, log, faults>>

\* Mutant: the copy is tried again instead of failing.
CopyAgain ==
  /\ Running("install", "copy")
  /\ RulesLeft
  /\ ~(Filled(build[target]) /\ Present(build[target], Source))
  /\ UNCHANGED vars

(* The build directory is missing or empty; or `cp` of a file that is not  *)
(* there, among others the rules do not name, after the destination's      *)
(* directory was made.                                                     *)
CopyFails ==
  /\ Running("install", "copy")
  /\ RulesLeft
  /\ \/ ~Filled(build[target]) /\ UNCHANGED install
     \/ /\ build[target] # Nothing /\ ~Present(build[target], Source)
        /\ install' = [install EXCEPT ![target] =
                         IF @ = Nothing THEN EmptyDir ELSE @]
  /\ Fail
  /\ UNCHANGED <<sources, build, releaseVars, faults>>

CopyDone ==
  /\ Running("install", "copy")
  /\ ~RulesLeft
  /\ Finish("ran")
  /\ UNCHANGED <<sources, buildVars, releaseVars, faults>>

-----------------------------------------------------------------------------
(* release                                                                 *)

PackImages ==
  /\ Running("release", "images")
  /\ Filled(install[target])
  /\ images' = [images EXCEPT ![target] = install[target]]
  /\ Goto("imagesSum")
  /\ UNCHANGED <<sources, buildVars, imagesSum, archive, archiveSum, faults>>

PackFails ==
  /\ Running("release", "images")
  /\ ~Filled(install[target])
  /\ Fail
  /\ UNCHANGED <<sources, buildVars, releaseVars, faults>>

\* Mutant: a checksum that is there is kept.
SumOnce ==
  /\ Running("release", "imagesSum")
  /\ imagesSum' = [imagesSum EXCEPT ![target] =
                     IF @ = Nothing THEN images[target] ELSE @]
  /\ Goto("archive")
  /\ UNCHANGED <<sources, buildVars, images, archive, archiveSum, faults>>

SumImages ==
  /\ Running("release", "imagesSum")
  /\ imagesSum' = [imagesSum EXCEPT ![target] = images[target]]
  /\ Goto("archive")
  /\ UNCHANGED <<sources, buildVars, images, archive, archiveSum, faults>>

(* Forced or not, an archive of the sources that is there is kept.         *)
KeepArchive ==
  /\ Running("release", "archive")
  /\ archive[target] # Nothing
  /\ Finish("ran")
  /\ UNCHANGED <<sources, buildVars, releaseVars, faults>>

\* Mutant: the archive gets no checksum.
PackUnsummed ==
  /\ Running("release", "archive")
  /\ archive[target] = Nothing
  /\ archive' = [archive EXCEPT ![target] = sources[target]]
  /\ Finish("ran")
  /\ UNCHANGED <<sources, buildVars, images, imagesSum, archiveSum, faults>>

PackArchive ==
  /\ Running("release", "archive")
  /\ archive[target] = Nothing
  /\ archive' = [archive EXCEPT ![target] = sources[target]]
  /\ Goto("archiveSum")
  /\ UNCHANGED <<sources, buildVars, images, imagesSum, archiveSum, faults>>

SumArchive ==
  /\ Running("release", "archiveSum")
  /\ archiveSum' = [archiveSum EXCEPT ![target] = archive[target]]
  /\ Finish("ran")
  /\ UNCHANGED <<sources, buildVars, images, imagesSum, archive, faults>>

-----------------------------------------------------------------------------
(* clean: the build and the install directory of the target, then the      *)
(* release directories of the project, the sources' first; `rm -rf` takes  *)
(* the files one by one.                                                   *)

RemoveBuilt ==
  /\ Running("clean", "rmBuild")
  /\ IF Filled(build[target])
       THEN /\ \E f \in File : Present(build[target], f)
                 /\ build' = [build EXCEPT ![target][f] = Missing]
            /\ UNCHANGED jobVars
       ELSE /\ build' = [build EXCEPT ![target] = Nothing]
            /\ Goto("rmInstall")
  /\ UNCHANGED <<sources, install, releaseVars, faults>>

RemoveInstalled ==
  /\ Running("clean", "rmInstall")
  /\ IF Filled(install[target])
       THEN /\ \E f \in File : Present(install[target], f)
                 /\ install' = [install EXCEPT ![target][f] = Missing]
            /\ UNCHANGED jobVars
       ELSE /\ install' = [install EXCEPT ![target] = Nothing]
            /\ Goto("rmArchives")
  /\ UNCHANGED <<sources, build, releaseVars, faults>>

(* project_release_path knows no arguments: these are all targets' files.  *)
RemoveArchives ==
  /\ Running("clean", "rmArchives")
  /\ \/ \E t \in Target :
          \/ /\ archive[t] # Nothing
             /\ archive' = [archive EXCEPT ![t] = Nothing]
             /\ UNCHANGED <<archiveSum, jobVars>>
          \/ /\ archiveSum[t] # Nothing
             /\ archiveSum' = [archiveSum EXCEPT ![t] = Nothing]
             /\ UNCHANGED <<archive, jobVars>>
     \/ /\ \A t \in Target : archive[t] = Nothing /\ archiveSum[t] = Nothing
        /\ Goto("rmImages")
        /\ UNCHANGED <<archive, archiveSum>>
  /\ UNCHANGED <<sources, buildVars, images, imagesSum, faults>>

RemoveImages ==
  /\ Running("clean", "rmImages")
  /\ \/ \E t \in Target :
          \/ /\ images[t] # Nothing
             /\ images' = [images EXCEPT ![t] = Nothing]
             /\ UNCHANGED <<imagesSum, jobVars>>
          \/ /\ imagesSum[t] # Nothing
             /\ imagesSum' = [imagesSum EXCEPT ![t] = Nothing]
             /\ UNCHANGED <<images, jobVars>>
     \/ /\ \A t \in Target : images[t] = Nothing /\ imagesSum[t] = Nothing
        /\ Finish("ran")
        /\ UNCHANGED <<images, imagesSum>>
  /\ UNCHANGED <<sources, buildVars, archive, archiveSum, faults>>

-----------------------------------------------------------------------------
(* The compiler fails, the disk is full, gpg asks for a passphrase in      *)
(* vain, the user presses ^C: the file being written stays as it is.       *)
TornFile ==
  \/ UNCHANGED <<install, images, archive>>
  \/ /\ Running("install", "copy") /\ RulesLeft
     /\ Filled(build[target]) /\ Present(build[target], Source)
     /\ install' = Installed(Torn)
     /\ UNCHANGED <<images, archive>>
  \/ /\ Running("release", "images") /\ Filled(install[target])
     /\ images' = [images EXCEPT ![target] = Torn]
     /\ UNCHANGED <<install, archive>>
  \/ /\ Running("release", "archive") /\ archive[target] = Nothing
     /\ archive' = [archive EXCEPT ![target] = Torn]
     /\ UNCHANGED <<install, images>>

Interrupt ==
  /\ ~Idle
  /\ faults > 0
  /\ faults' = faults - 1
  /\ TornFile
  /\ Fail
  /\ UNCHANGED <<sources, build, imagesSum, archiveSum>>

Advance ==
  \/ Skip \/ Start
  \/ (\E f \in File : MakeFile(f)) \/ MakeDone
  \/ CopyFile \/ CopyFails \/ CopyDone
  \/ PackImages \/ PackFails \/ SumImages
  \/ KeepArchive \/ PackArchive \/ SumArchive
  \/ RemoveBuilt \/ RemoveInstalled \/ RemoveArchives \/ RemoveImages

Next ==
  \/ Advance
  \/ Interrupt
  \/ \E t \in Target :
       \/ Update(t)
       \/ \E actions \in Command, force \in Forcing : Request(t, actions, force)

Spec == Init /\ [][Next]_vars

(* A command that was started keeps running; nobody has to start one.      *)
FairSpec == Spec /\ WF_vars(Advance)

-----------------------------------------------------------------------------
(* Properties                                                              *)

Whole(t) == images[t] \in Dir /\ imagesSum[t] = images[t]
Current(t) == images[t] = [f \in File |-> sources[t]]
Ran(actions) == Idle /\ \A a \in actions : log[a] = "ran"
Passed(actions) == Idle /\ \A a \in actions : log[a] \in {"ran", "skipped"}

\* release_check forgets what it found out about the images.  As long as no
\* command is forced that does no harm: release packs the images before the
\* sources and clean removes them after, so that a sources archive is never
\* there without complete and verified images -- after any interruption, and
\* whichever target is cleaned.
ArchiveComesLast ==
  Forcing \subseteq {FALSE} =>
    \A t \in Target : archive[t] # Nothing => Whole(t)

\* Whatever the checks skipped and whatever failed before: when produce ends
\* well and released, no file of the install rules is missing from the images.
ProducedIsComplete ==
  Passed({"build", "install"}) /\ Ran({"release"})
    => \A f \in File : images[target] \in Dir /\ Present(images[target], f)

\* A produce that is forced, or that found nothing built, installed or
\* released, leaves verified images of the current sources when it ends well:
\* no check skips what it should have made.
ReleaseIsCurrent ==
  (forced \/ fresh) /\ Passed({"build", "install", "release"})
    => Whole(target) /\ Current(target)

\* Starting from nothing, the archive of the sources goes with the images.
FreshArchiveIsCurrent ==
  fresh /\ Passed({"build", "install", "release"})
    => archive[target] = sources[target] /\ archiveSum[target] = archive[target]

\* Every command ends.
CommandEnds == ~Idle ~> Idle

\* Once nothing fails any more, a produce that starts from a cleaned target
\* releases it, whatever earlier commands left to other targets.
ProduceReleases ==
  \A t \in Target :
    (/\ todo = <<"build", "install", "release">> /\ phase = "check"
     /\ target = t /\ fresh /\ faults = 0)
      ~> (Idle /\ Whole(t) /\ Current(t) /\ archiveSum[t] = archive[t])

-----------------------------------------------------------------------------
(* What the documentation says and the code does not do.                   *)

\* BUILD_HOWTO: the checks determine whether it is necessary to run an action
\* again.  A build that is skipped should then have all its files.
SkippedBuildIsComplete ==
  Idle /\ log["build"] = "skipped"
    => \A f \in File : Present(build[target], f)
=============================================================================
