--------------------------- MODULE ProjectStages_proofs ---------------------------
(***************************************************************************)
(* Theorems about the actions of a project and their checks, for any       *)
(* targets, install rules, versions, order of commands and number of       *)
(* failures.                                                               *)
(***************************************************************************)
EXTENDS ProjectStages, TLAPS

-----------------------------------------------------------------------------
(* The inductive invariant                                                 *)

(* What may be left of a command.                                          *)
Left == {<<>>, <<"build">>, <<"install">>, <<"release">>, <<"clean">>,
         <<"install", "release">>, <<"build", "install", "release">>}

Doing(a) == ~Idle /\ Head(todo) = a

PhasesOf == [build |-> {"make"}, install |-> {"copy"},
             release |-> {"images", "imagesSum", "archive", "archiveSum"},
             clean |-> {"rmBuild", "rmInstall", "rmArchives", "rmImages"}]

PlaceOK == phase # "check" => \E a \in Action : Doing(a) /\ phase \in PhasesOf[a]

(* Nothing is logged of what is still to be done.                          *)
LogOK ==
  /\ Doing("build") \/ Doing("clean") => \A a \in Action : log[a] = "none"
  /\ Doing("install") => log["install"] = "none" /\ log["release"] = "none"
  /\ Doing("release") => log["release"] = "none"

JobOK ==
  /\ todo \in Left /\ phase \in Phase /\ step \in 1 .. Len(Rules) + 1
  /\ target \in Target /\ forced \in BOOLEAN /\ fresh \in BOOLEAN
  /\ log \in [Action -> Result]
  /\ PlaceOK /\ LogOK

Done(a) == log[a] \in {"ran", "skipped"}

(* make made every file of the current sources.                            *)
MadeOK ==
  /\ phase = "make" => build[target] # Nothing
  /\ log["build"] = "ran" =>
       build[target] # Nothing /\ \A f \in File : build[target][f] = sources[target]

CopiedUpTo(n) ==
  /\ build[target] # Nothing /\ install[target] # Nothing
  /\ \A i \in 1 .. Len(Rules) :
       i < n => /\ install[target][Rules[i]] = build[target][Rules[i]]
                /\ install[target][Rules[i]] # Missing

(* Each rule copied is there and as built; those of an install that was    *)
(* skipped are there.                                                      *)
CopiedOK ==
  /\ phase = "copy" /\ step > 1 => CopiedUpTo(step)
  /\ log["install"] = "ran" => CopiedUpTo(Len(Rules) + 1)
  /\ Done("install") =>
       install[target] # Nothing /\ \A f \in File : install[target][f] # Missing

(* What was packed is what is installed, what was summed is what is packed.*)
PackedOK ==
  /\ phase \in {"imagesSum", "archive", "archiveSum"} \/ log["release"] = "ran" =>
       images[target] = install[target] /\ install[target] # Nothing
  /\ phase \in {"archive", "archiveSum"} \/ log["release"] = "ran" =>
       imagesSum[target] = images[target]
  /\ phase = "archiveSum" => archive[target] = sources[target]

(* A command that found nothing, or is forced, skips nothing.              *)
FreshOK ==
  fresh =>
    /\ Doing("build") /\ phase = "check" => build[target] = Nothing
    /\ Doing("build") \/ (Doing("install") /\ phase = "check") =>
         install[target] = Nothing
    /\ Doing("build") \/ Doing("install")
         \/ (Doing("release") /\ phase # "archiveSum") => archive[target] = Nothing
    /\ log["release"] = "ran" =>
         archive[target] = sources[target] /\ archiveSum[target] = archive[target]

AllRun ==
  forced \/ fresh => \A a \in {"build", "install", "release"} : log[a] # "skipped"

(* Without force, the sources are archived after the images and removed    *)
(* before them.                                                            *)
UnforcedOK ==
  Forcing \subseteq {FALSE} =>
    /\ forced = FALSE
    /\ phase \in {"images", "imagesSum"} => archive[target] = Nothing
    /\ phase = "rmImages" => \A t \in Target : archive[t] = Nothing
    /\ \A t \in Target : archive[t] # Nothing =>
         images[t] \in Dir /\ imagesSum[t] = images[t]

IInv ==
  TypeOK /\ JobOK /\ MadeOK /\ CopiedOK /\ PackedOK /\ FreshOK /\ AllRun /\ UnforcedOK

-----------------------------------------------------------------------------
(* What is left of a command                                               *)

LEMMA HeadsAndTails ==
  ASSUME NEW s \in Left, s # <<>>
  PROVE  /\ Head(s) \in Action /\ Tail(s) \in Left
         /\ Head(s) = "build" => Tail(s) = <<>> \/ Head(Tail(s)) = "install"
         /\ Head(s) = "install" => Tail(s) = <<>> \/ Head(Tail(s)) = "release"
         /\ Head(s) = "release" => Tail(s) = <<>>
         /\ Head(s) = "clean" => Tail(s) = <<>>
<1>1. CASE s = <<"build">>
  <2>1. Head(s) = "build" /\ Tail(s) = <<>>
    BY <1>1
  <2>2. QED
    BY <2>1 DEF Left, Action
<1>2. CASE s = <<"install">>
  <2>1. Head(s) = "install" /\ Tail(s) = <<>>
    BY <1>2
  <2>2. QED
    BY <2>1 DEF Left, Action
<1>3. CASE s = <<"release">>
  <2>1. Head(s) = "release" /\ Tail(s) = <<>>
    BY <1>3
  <2>2. QED
    BY <2>1 DEF Left, Action
<1>4. CASE s = <<"clean">>
  <2>1. Head(s) = "clean" /\ Tail(s) = <<>>
    BY <1>4
  <2>2. QED
    BY <2>1 DEF Left, Action
<1>5. CASE s = <<"install", "release">>
  <2>1. Head(s) = "install" /\ Tail(s) = <<"release">>
    BY <1>5
  <2>2. Head(Tail(s)) = "release"
    <3>1. Head(<<"release">>) = "release"
      OBVIOUS
    <3>2. QED
      BY <2>1, <3>1, Zenon
  <2>3. <<"release">> \in Left
    BY DEF Left
  <2>4. Head(s) \in Action /\ Tail(s) \in Left
    BY <2>1, <2>3 DEF Action
  <2>5. QED
    BY <2>1, <2>2, <2>4
<1>6. CASE s = <<"build", "install", "release">>
  <2>1. Head(s) = "build" /\ Tail(s) = <<"install", "release">>
    BY <1>6
  <2>2. Head(Tail(s)) = "install"
    <3>1. Head(<<"install", "release">>) = "install"
      OBVIOUS
    <3>2. QED
      BY <2>1, <3>1, Zenon
  <2>3. <<"install", "release">> \in Left
    BY DEF Left
  <2>4. Head(s) \in Action /\ Tail(s) \in Left
    BY <2>1, <2>3 DEF Action
  <2>5. QED
    BY <2>1, <2>2, <2>4
<1>7. QED
  BY <1>1, <1>2, <1>3, <1>4, <1>5, <1>6 DEF Left

LEMMA LeftTypes == Left \subseteq Seq(Action)
  BY DEF Left, Action

LEMMA CommandsAreLeft == Command \subseteq Left /\ <<>> \in Left
  BY DEF Command, Left

LEMMA PhaseNames ==
  /\ PhasesOf["build"] = {"make"} /\ PhasesOf["install"] = {"copy"}
  /\ PhasesOf["release"] = {"images", "imagesSum", "archive", "archiveSum"}
  /\ PhasesOf["clean"] = {"rmBuild", "rmInstall", "rmArchives", "rmImages"}
  /\ FirstPhase["build"] = "make" /\ FirstPhase["install"] = "copy"
  /\ FirstPhase["release"] = "images" /\ FirstPhase["clean"] = "rmBuild"
  BY DEF PhasesOf, FirstPhase

(* Each phase belongs to one action.                                       *)
LEMMA PhaseTells ==
  ASSUME JobOK
  PROVE  /\ phase = "make" => Doing("build")
         /\ phase = "copy" => Doing("install")
         /\ phase \in {"images", "imagesSum", "archive", "archiveSum"} => Doing("release")
         /\ phase \in {"rmBuild", "rmInstall", "rmArchives", "rmImages"} => Doing("clean")
  BY PhaseNames DEF JobOK, PlaceOK, Action

LEMMA RuleTypes ==
  /\ Len(Rules) \in Nat /\ Len(Rules) >= 1
  /\ \A i \in 1 .. Len(Rules) : Rules[i] \in File
  /\ \A f \in File : \E i \in 1 .. Len(Rules) : Rules[i] = f
  BY ProjectAssumption

-----------------------------------------------------------------------------
(* The command's own state                                                 *)

LEMMA InitJob == Init => JobOK
<1>1. SUFFICES ASSUME Init PROVE JobOK
  OBVIOUS
<1>2. NoLog \in [Action -> Result]
  BY DEF NoLog, Result
<1>3. step \in 1 .. Len(Rules) + 1
  BY <1>1, RuleTypes DEF Init
<1>4. QED
  BY <1>1, <1>2, <1>3, CommandsAreLeft
     DEF Init, JobOK, PlaceOK, LogOK, Doing, Idle, Phase

LEMMA GotoJob ==
  ASSUME JobOK, ~Idle, NEW p \in PhasesOf[Head(todo)], Goto(p), p \in Phase
  PROVE  JobOK'
<1>1. step' \in 1 .. Len(Rules) + 1
  BY RuleTypes DEF Goto
<1>2. Head(todo) \in Action
  BY HeadsAndTails DEF JobOK, Idle
<1>3. PlaceOK'
  BY <1>2 DEF PlaceOK, Goto, Doing, Idle, PhasesOf
<1>4. QED
  BY <1>1, <1>3 DEF JobOK, Goto, LogOK, Doing, Idle

LEMMA FinishJob ==
  ASSUME JobOK, ~Idle, NEW r \in {"ran", "skipped"}, Finish(r)
  PROVE  /\ JobOK' /\ Head(todo) \in Action
         /\ log'[Head(todo)] = r
         /\ \A a \in Action : a # Head(todo) => log'[a] = log[a]
         /\ phase' = "check" /\ UNCHANGED <<target, forced, fresh>>
         /\ Doing("build") => Idle' \/ Doing("install")'
         /\ Doing("install") => Idle' \/ Doing("release")'
         /\ Doing("release") => Idle'
         /\ Doing("clean") => Idle'
<1>1. /\ Head(todo) \in Action /\ Tail(todo) \in Left
      /\ Head(todo) = "build" => Tail(todo) = <<>> \/ Head(Tail(todo)) = "install"
      /\ Head(todo) = "install" => Tail(todo) = <<>> \/ Head(Tail(todo)) = "release"
      /\ Head(todo) = "release" => Tail(todo) = <<>>
      /\ Head(todo) = "clean" => Tail(todo) = <<>>
  BY HeadsAndTails DEF JobOK, Idle
<1>2. /\ todo' = Tail(todo) /\ log' = [log EXCEPT ![Head(todo)] = r]
      /\ phase' = "check" /\ step' = 1 /\ UNCHANGED <<target, forced, fresh>>
  BY DEF Finish
<1>3. log' \in [Action -> Result] /\ log'[Head(todo)] = r
      /\ \A a \in Action : a # Head(todo) => log'[a] = log[a]
  BY <1>1, <1>2 DEF JobOK, Result
<1>4. /\ Doing("build") => Idle' \/ Doing("install")'
      /\ Doing("install") => Idle' \/ Doing("release")'
      /\ Doing("release") => Idle'
      /\ Doing("clean") => Idle'
  BY <1>1, <1>2 DEF Doing, Idle
<1>5. Doing("build") \/ Doing("install") \/ Doing("release") \/ Doing("clean")
  BY <1>1 DEF Doing, Action
<1>6. LogOK'
  <2>1. CASE Idle'
    BY <2>1 DEF LogOK, Doing
  <2>2. CASE Doing("build") /\ Doing("install")'
    BY <1>3, <2>2 DEF JobOK, LogOK, Doing, Action
  <2>3. CASE Doing("install") /\ Doing("release")'
    BY <1>3, <2>3 DEF JobOK, LogOK, Doing, Action
  <2>4. QED
    BY <1>4, <1>5, <2>1, <2>2, <2>3
<1>7. step' \in 1 .. Len(Rules) + 1
  BY <1>2, RuleTypes
<1>8. JobOK'
  BY <1>1, <1>2, <1>3, <1>6, <1>7 DEF JobOK, PlaceOK, Phase
<1>9. QED
  BY <1>1, <1>2, <1>3, <1>4, <1>8

LEMMA FailJob ==
  ASSUME JobOK, ~Idle, Fail
  PROVE  /\ JobOK' /\ Idle' /\ Head(todo) \in Action
         /\ log'[Head(todo)] = "failed"
         /\ \A a \in Action : a # Head(todo) => log'[a] = log[a]
         /\ phase' = "check" /\ UNCHANGED <<target, forced, fresh>>
<1>1. Head(todo) \in Action
  BY HeadsAndTails DEF JobOK, Idle
<1>2. /\ todo' = <<>> /\ log' = [log EXCEPT ![Head(todo)] = "failed"]
      /\ phase' = "check" /\ step' = 1 /\ UNCHANGED <<target, forced, fresh>>
  BY DEF Fail
<1>3. log' \in [Action -> Result] /\ log'[Head(todo)] = "failed"
      /\ \A a \in Action : a # Head(todo) => log'[a] = log[a]
  BY <1>1, <1>2 DEF JobOK, Result
<1>4. step' \in 1 .. Len(Rules) + 1
  BY <1>2, RuleTypes
<1>5. JobOK'
  BY <1>2, <1>3, <1>4, CommandsAreLeft DEF JobOK, PlaceOK, LogOK, Doing, Idle, Phase
<1>6. QED
  BY <1>1, <1>2, <1>3, <1>5 DEF Idle

LEMMA RequestJob ==
  ASSUME JobOK, NEW t \in Target, NEW actions \in Command, NEW force \in Forcing,
         Request(t, actions, force)
  PROVE  JobOK' /\ \A a \in Action : log'[a] = "none"
<1>1. NoLog \in [Action -> Result] /\ \A a \in Action : NoLog[a] = "none"
  BY DEF NoLog, Result
<1>2. step' \in 1 .. Len(Rules) + 1
  BY RuleTypes DEF Request
<1>3. force \in BOOLEAN
  BY ProjectAssumption
<1>4. todo' \in Left /\ fresh' \in BOOLEAN
  BY CommandsAreLeft DEF Request
<1>5. \A a \in Action : log'[a] = "none"
  BY <1>1 DEF Request
<1>6. LogOK'
  BY <1>5 DEF LogOK, Action
<1>7. QED
  BY <1>1, <1>2, <1>3, <1>4, <1>5, <1>6 DEF JobOK, Request, PlaceOK, Phase

LEMMA UpdateJob ==
  ASSUME JobOK, NEW t \in Target, Update(t)
  PROVE  JobOK' /\ \A a \in Action : log'[a] = "none"
<1>1. NoLog \in [Action -> Result] /\ \A a \in Action : NoLog[a] = "none"
  BY DEF NoLog, Result
<1>2. \A a \in Action : log'[a] = "none"
  BY <1>1 DEF Update
<1>3. LogOK'
  BY <1>2 DEF LogOK, Action
<1>4. PlaceOK'
  BY DEF JobOK, Update, PlaceOK, Doing, Idle
<1>5. QED
  BY <1>1, <1>2, <1>3, <1>4 DEF JobOK, Update

LEMMA SameJob ==
  ASSUME JobOK, UNCHANGED jobVars
  PROVE  JobOK' /\ \A a \in Action : Doing(a)' = Doing(a)
  BY DEF JobOK, jobVars, PlaceOK, LogOK, Doing, Idle

-----------------------------------------------------------------------------
(* The files                                                               *)

FilesOK ==
  /\ sources \in [Target -> Version]
  /\ build \in [Target -> Dir \cup {Nothing}]
  /\ install \in [Target -> Dir \cup {Nothing}]
  /\ images \in [Target -> Dir \cup {Torn, Nothing}]
  /\ imagesSum \in [Target -> Dir \cup {Nothing}]
  /\ archive \in [Target -> Version \cup {Torn, Nothing}]
  /\ archiveSum \in [Target -> Version \cup {Nothing}]
  /\ faults \in Nat

LEMMA TypeParts == JobOK => (TypeOK <=> FilesOK)
  BY LeftTypes DEF JobOK, TypeOK, FilesOK

LEMMA TypePartsNext == JobOK' => (TypeOK <=> FilesOK)'
  BY TypeParts, PTL

LEMMA Values ==
  /\ EmptyDir \in Dir /\ Nothing \notin Dir
  /\ Torn \notin Dir /\ Nothing # Torn /\ Nothing \notin Version /\ Torn \notin Version
  /\ Missing \notin Version /\ Missing # Torn
  /\ \A d \in Dir, f \in File, c \in Content : [d EXCEPT ![f] = c] \in Dir
  /\ \A d \in Dir, f \in File : d[f] \in Content
  BY ValueAssumption DEF EmptyDir, Dir, Content

(* The invariant but for the command's own state, in steps that leave the  *)
(* target and how it was asked for.                                        *)
Rest == FilesOK /\ MadeOK /\ CopiedOK /\ PackedOK /\ FreshOK /\ AllRun /\ UnforcedOK

LEMMA Parts == IInv <=> JobOK /\ Rest
  BY TypeParts DEF IInv, Rest

LEMMA Conclude ==
  ASSUME JobOK', FilesOK', MadeOK', CopiedOK', PackedOK', FreshOK', AllRun', UnforcedOK'
  PROVE  IInv'
  BY TypePartsNext DEF IInv

LEMMA InitIInv == Init => IInv
<1>1. SUFFICES ASSUME Init PROVE IInv
  OBVIOUS
<1>2. JobOK
  BY <1>1, InitJob
<1>3. \A a \in Action : log[a] = "none"
  BY <1>1 DEF Init, NoLog
<1>4. FilesOK
  BY <1>1, BoundAssumption DEF Init, FilesOK, Version
<1>5. MadeOK /\ CopiedOK /\ PackedOK /\ FreshOK /\ AllRun
  BY <1>1, <1>3 DEF Init, Action, MadeOK, CopiedOK, Done, PackedOK, FreshOK, AllRun
<1>6. UnforcedOK
  BY <1>1 DEF Init, UnforcedOK
<1>7. QED
  BY <1>2, <1>4, <1>5, <1>6, Parts DEF Rest

(* What the parts of the command's state say of the steps of each action.  *)
LEMMA NothingLogged ==
  ASSUME JobOK
  PROVE  /\ Doing("build") \/ Doing("clean") =>
              log["build"] = "none" /\ log["install"] = "none" /\ log["release"] = "none"
         /\ Doing("install") => log["install"] = "none" /\ log["release"] = "none"
         /\ Doing("release") => log["release"] = "none"
  BY DEF JobOK, LogOK, Action

LEMMA StepSkip ==
  ASSUME IInv, Skip
  PROVE  IInv'
<1>1. JobOK /\ Rest /\ ~Idle /\ Finish("skipped") /\ ~forced /\ phase = "check"
      /\ Check(Head(todo), target)
      /\ UNCHANGED <<sources, build, install, images, imagesSum, archive, archiveSum, faults>>
  BY Parts DEF Skip, buildVars, releaseVars
<1>2. /\ JobOK' /\ Head(todo) \in Action /\ log'[Head(todo)] = "skipped"
      /\ \A a \in Action : a # Head(todo) => log'[a] = log[a]
      /\ phase' = "check" /\ UNCHANGED <<target, forced, fresh>>
  BY <1>1, FinishJob
<1>3. /\ Head(todo) = "build" => build[target] # Nothing
      /\ Head(todo) = "install" =>
           install[target] # Nothing /\ \A f \in File : install[target][f] # Missing
      /\ Head(todo) = "release" => archive[target] # Nothing
      /\ Head(todo) # "clean"
  BY <1>1 DEF Check, BuildCheck, InstallCheck, ReleaseCheck, Present
<1>4. ~fresh
  BY <1>1, <1>2, <1>3 DEF Rest, FreshOK, Doing, Action
<1>5. MadeOK'
  BY <1>1, <1>2 DEF Rest, MadeOK, Action
<1>6. CopiedOK'
  BY <1>1, <1>2, <1>3 DEF Rest, CopiedOK, CopiedUpTo, Done, Action
<1>7. PackedOK'
  BY <1>1, <1>2 DEF Rest, PackedOK, Action
<1>8. FreshOK' /\ AllRun'
  BY <1>1, <1>2, <1>4 DEF FreshOK, AllRun
<1>9. UnforcedOK' /\ FilesOK'
  BY <1>1, <1>2 DEF Rest, UnforcedOK, FilesOK
<1>10. QED
  BY <1>2, <1>5, <1>6, <1>7, <1>8, <1>9, Conclude

LEMMA StepStart ==
  ASSUME IInv, Start
  PROVE  IInv'
<1>1. /\ JobOK /\ Rest /\ ~Idle /\ phase = "check"
      /\ forced \/ ~Check(Head(todo), target)
      /\ Goto(FirstPhase[Head(todo)])
      /\ build' = IF Head(todo) = "build" /\ build[target] = Nothing
                    THEN [build EXCEPT ![target] = EmptyDir] ELSE build
      /\ UNCHANGED <<sources, install, images, imagesSum, archive, archiveSum, faults>>
      /\ UNCHANGED <<todo, target, forced, fresh, log>>
  BY Parts DEF Start, releaseVars, Goto
<1>2. Head(todo) \in Action /\ target \in Target
  BY <1>1, HeadsAndTails DEF JobOK, Idle
<1>3. /\ phase' = FirstPhase[Head(todo)] /\ step' = 1
      /\ FirstPhase[Head(todo)] \in PhasesOf[Head(todo)]
      /\ FirstPhase[Head(todo)] \in Phase
      /\ phase' = "make" => Head(todo) = "build"
      /\ phase' = "copy" => Head(todo) = "install"
      /\ phase' = "images" => Head(todo) = "release"
      /\ phase' \in {"make", "copy", "images", "rmBuild"}
  BY <1>1, <1>2, PhaseNames DEF Goto, Action, Phase
<1>4. JobOK'
  BY <1>1, <1>3, GotoJob
<1>5. FilesOK' /\ (Head(todo) = "build" => build'[target] # Nothing)
  BY <1>1, <1>2, Values DEF Rest, FilesOK
<1>6. Head(todo) # "build" => build' = build
  BY <1>1
<1>7. \A a \in Action : Head(todo) = a => Doing(a)
  BY <1>1 DEF Doing
<1>8. MadeOK'
  BY <1>1, <1>2, <1>3, <1>5, <1>6, <1>7, NothingLogged DEF Rest, MadeOK, Action
<1>9. CopiedOK'
  BY <1>1, <1>2, <1>3, <1>6, <1>7, NothingLogged DEF Rest, CopiedOK, CopiedUpTo, Done, Action
<1>10. PackedOK'
  BY <1>1, <1>3 DEF Rest, PackedOK
<1>11. FreshOK'
  BY <1>1, <1>3 DEF Rest, FreshOK, Doing, Idle
<1>12. AllRun'
  BY <1>1 DEF Rest, AllRun
<1>13. UnforcedOK'
  <2>1. forced = FALSE /\ phase' = "images" => archive[target] = Nothing
    BY <1>1, <1>3 DEF Check, ReleaseCheck
  <2>2. QED
    BY <1>1, <1>3, <2>1 DEF Rest, UnforcedOK
<1>14. QED
  BY <1>4, <1>5, <1>8, <1>9, <1>10, <1>11, <1>12, <1>13, Conclude

-----------------------------------------------------------------------------
(* build                                                                   *)

LEMMA StepMakeFile ==
  ASSUME IInv, NEW f \in File, MakeFile(f)
  PROVE  IInv'
<1>1. /\ JobOK /\ Rest /\ Doing("build") /\ phase = "make"
      /\ build' = [build EXCEPT ![target][f] = sources[target]]
      /\ UNCHANGED <<sources, install, images, imagesSum, archive, archiveSum, faults>>
      /\ UNCHANGED jobVars
  BY Parts DEF MakeFile, releaseVars, Running, Doing
<1>2. JobOK' /\ \A a \in Action : Doing(a)' = Doing(a)
  BY <1>1, SameJob
<1>3. target \in Target /\ build[target] \in Dir /\ sources[target] \in Content
  BY <1>1 DEF JobOK, Rest, MadeOK, FilesOK, Content
<1>4. build' \in [Target -> Dir \cup {Nothing}] /\ build'[target] \in Dir
  <2>1. [build[target] EXCEPT ![f] = sources[target]] \in Dir
    BY <1>3, Values
  <2>2. build' = [build EXCEPT ![target] = [build[target] EXCEPT ![f] = sources[target]]]
    BY <1>1
  <2>3. build \in [Target -> Dir \cup {Nothing}]
    BY <1>1 DEF Rest, FilesOK
  <2> QED
    BY <1>3, <2>1, <2>2, <2>3
<1>5. log["build"] = "none" /\ log["install"] = "none" /\ log["release"] = "none"
  BY <1>1, NothingLogged
<1>6. UNCHANGED <<todo, phase, step, target, forced, fresh, log>>
  BY <1>1 DEF jobVars
<1>7. FilesOK'
  BY <1>1, <1>4 DEF Rest, FilesOK
<1>8. MadeOK' /\ CopiedOK' /\ PackedOK' /\ AllRun'
  BY <1>1, <1>4, <1>5, <1>6, Values DEF Rest, MadeOK, CopiedOK, Done, PackedOK, AllRun
<1>9. FreshOK'
  BY <1>1, <1>2, <1>5, <1>6 DEF Rest, FreshOK, Action
<1>10. UnforcedOK'
  BY <1>1, <1>6 DEF Rest, UnforcedOK
<1>11. QED
  BY <1>2, <1>7, <1>8, <1>9, <1>10, Conclude

LEMMA StepMakeDone ==
  ASSUME IInv, MakeDone
  PROVE  IInv'
<1>1. /\ JobOK /\ Rest /\ ~Idle /\ Doing("build") /\ Head(todo) = "build" /\ phase = "make"
      /\ \A f \in File : ~Stale(f)
      /\ Finish("ran")
      /\ UNCHANGED <<sources, build, install, images, imagesSum, archive, archiveSum, faults>>
  BY Parts DEF MakeDone, buildVars, releaseVars, Running, Doing
<1>2. /\ JobOK' /\ log'["build"] = "ran"
      /\ log'["install"] = log["install"] /\ log'["release"] = log["release"]
      /\ phase' = "check" /\ UNCHANGED <<target, forced, fresh>>
      /\ Idle' \/ Doing("install")'
  BY <1>1, FinishJob DEF Action
<1>3. log["install"] = "none" /\ log["release"] = "none"
  BY <1>1, NothingLogged
<1>4. FilesOK' /\ UnforcedOK'
  BY <1>1, <1>2 DEF Rest, FilesOK, UnforcedOK
<1>5. MadeOK'
  BY <1>1, <1>2 DEF Rest, MadeOK, Stale
<1>6. CopiedOK' /\ PackedOK' /\ AllRun'
  BY <1>2, <1>3 DEF CopiedOK, Done, PackedOK, AllRun
<1>7. FreshOK'
  BY <1>1, <1>2, <1>3 DEF Rest, FreshOK, Doing
<1>8. QED
  BY <1>2, <1>4, <1>5, <1>6, <1>7, Conclude

-----------------------------------------------------------------------------
(* install                                                                 *)

(* A command that ends in the middle of an action, which may have left its *)
(* file torn.                                                              *)
LEMMA Fails ==
  ASSUME IInv, ~Idle, Fail, FilesOK',
         UNCHANGED <<sources, build, imagesSum, archiveSum>>,
         install' = install \/ Doing("install"),
         images' = images \/ phase = "images",
         archive' = archive \/ phase = "archive",
         \A t \in Target : t # target => images'[t] = images[t] /\ archive'[t] = archive[t]
  PROVE  IInv'
<1>1. JobOK /\ Rest
  BY Parts
<1>2. /\ JobOK' /\ Idle' /\ log'[Head(todo)] = "failed"
      /\ \A a \in Action : a # Head(todo) => log'[a] = log[a]
      /\ phase' = "check" /\ UNCHANGED <<target, forced, fresh>>
  BY <1>1, FailJob
<1>3. /\ log'["build"] \in {log["build"], "failed"}
      /\ log'["install"] \in {log["install"], "failed"}
      /\ log'["release"] \in {log["release"], "failed"}
  BY <1>2 DEF Action
<1>4. Doing("install") => log["release"] = "none" /\ log'["install"] = "failed"
  BY <1>1, <1>2, NothingLogged DEF Doing
<1>5. phase \in {"images", "archive"} => Doing("release") /\ log'["release"] = "failed"
  BY <1>1, <1>2, PhaseTells DEF Doing
<1>6. MadeOK'
  BY <1>1, <1>2, <1>3 DEF Rest, MadeOK
<1>7. CopiedOK'
  <2>1. CASE log'["install"] = "failed"
    BY <1>2, <2>1 DEF CopiedOK, Done
  <2>2. CASE log'["install"] # "failed"
    BY <1>1, <1>2, <1>3, <1>4, <2>2 DEF Rest, CopiedOK, CopiedUpTo, Done
  <2>3. QED
    BY <2>1, <2>2
<1>8. PackedOK'
  BY <1>1, <1>2, <1>3, <1>4, <1>5 DEF Rest, PackedOK
<1>9. FreshOK'
  BY <1>1, <1>2, <1>3, <1>5 DEF Rest, FreshOK, Doing
<1>10. AllRun'
  BY <1>1, <1>2, <1>3 DEF Rest, AllRun
<1>11. UnforcedOK'
  <2>1. SUFFICES ASSUME Forcing \subseteq {FALSE}
                 PROVE  /\ forced = FALSE
                        /\ \A t \in Target : archive'[t] # Nothing =>
                             images'[t] \in Dir /\ imagesSum[t] = images'[t]
    BY <1>2 DEF UnforcedOK
  <2>2. /\ forced = FALSE
        /\ phase = "images" => archive[target] = Nothing
        /\ \A t \in Target : archive[t] # Nothing =>
             images[t] \in Dir /\ imagesSum[t] = images[t]
    BY <1>1, <2>1 DEF Rest, UnforcedOK
  <2>3. CASE phase = "archive"
    <3>1. images' = images /\ images[target] = install[target] /\ install[target] \in Dir
          /\ imagesSum[target] = images[target]
      BY <1>1, <2>3 DEF Rest, PackedOK, FilesOK, JobOK
    <3>2. QED
      BY <2>2, <3>1
  <2>4. CASE phase # "archive"
    BY <2>2, <2>4
  <2>5. QED
    BY <2>3, <2>4
<1>12. QED
  BY <1>2, <1>6, <1>7, <1>8, <1>9, <1>10, <1>11, Conclude

LEMMA InstalledIs ==
  ASSUME JobOK, FilesOK, NEW c \in Content, RulesLeft
  PROVE  /\ Installed(c) \in [Target -> Dir \cup {Nothing}]
         /\ Installed(c)[target] \in Dir /\ Installed(c)[target][Rules[step]] = c
         /\ install[target] # Nothing =>
              \A f \in File : f # Rules[step] =>
                Installed(c)[target][f] = install[target][f]
<1> DEFINE old == IF install[target] = Nothing THEN EmptyDir ELSE install[target]
<1>1. target \in Target /\ install \in [Target -> Dir \cup {Nothing}]
  BY DEF JobOK, FilesOK
<1>2. Rules[step] \in File
  BY RuleTypes DEF JobOK, RulesLeft
<1>3. old \in Dir
  BY <1>1, Values
<1>4. [old EXCEPT ![Rules[step]] = c] \in Dir
  BY <1>2, <1>3, Values
<1>5. Installed(c) = [install EXCEPT ![target] = [old EXCEPT ![Rules[step]] = c]]
  BY DEF Installed, Source
<1>6. Installed(c)[target] = [old EXCEPT ![Rules[step]] = c]
      /\ Installed(c) \in [Target -> Dir \cup {Nothing}]
  <2> HIDE DEF old
  <2>1. QED
    BY <1>1, <1>4, <1>5
<1>7. /\ [old EXCEPT ![Rules[step]] = c][Rules[step]] = c
      /\ \A f \in File : f # Rules[step] => [old EXCEPT ![Rules[step]] = c][f] = old[f]
  <2> HIDE DEF old
  <2>1. QED
    BY <1>2, <1>3 DEF Dir
<1>8. install[target] # Nothing => old = install[target]
  OBVIOUS
<1>9. QED
  <2> HIDE DEF old
  <2>1. QED
    BY <1>4, <1>6, <1>7, <1>8

LEMMA StepCopyFile ==
  ASSUME IInv, CopyFile
  PROVE  IInv'
<1>1. /\ JobOK /\ Rest /\ Doing("install") /\ phase = "copy" /\ RulesLeft
      /\ build[target] # Nothing /\ build[target][Rules[step]] # Missing
      /\ install' = Installed(build[target][Rules[step]])
      /\ step' = step + 1
      /\ UNCHANGED <<sources, build, images, imagesSum, archive, archiveSum, faults>>
      /\ UNCHANGED <<todo, phase, target, forced, fresh, log>>
  BY Parts DEF CopyFile, releaseVars, Running, Doing, Filled, Present, Source
<1>2. JobOK'
  <2>1. step' \in 1 .. Len(Rules) + 1
    BY <1>1, RuleTypes DEF JobOK, RulesLeft
  <2>2. PlaceOK' /\ LogOK'
    BY <1>1 DEF JobOK, PlaceOK, LogOK, Doing, Idle
  <2>3. QED
    BY <1>1, <2>1, <2>2 DEF JobOK
<1> DEFINE c == build[target][Rules[step]]
<1>3. target \in Target /\ build[target] \in Dir /\ Rules[step] \in File /\ c \in Content
  BY <1>1, RuleTypes, Values DEF JobOK, Rest, FilesOK, RulesLeft
<1>4. /\ install' \in [Target -> Dir \cup {Nothing}] /\ install'[target] \in Dir
      /\ install'[target][Rules[step]] = c
      /\ install[target] # Nothing =>
           \A f \in File : f # Rules[step] => install'[target][f] = install[target][f]
  <2> HIDE DEF c
  <2>1. install' = Installed(c)
    BY <1>1 DEF c
  <2>2. QED
    BY <1>1, <1>3, <2>1, InstalledIs DEF Rest
<1>5. log["install"] = "none" /\ log["release"] = "none"
  BY <1>1, NothingLogged
<1>6. CopiedOK'
  <2>1. CopiedUpTo(step)'
    <3>1. build'[target'] # Nothing /\ install'[target'] # Nothing
      BY <1>1, <1>4, Values
    <3>2. ASSUME NEW i \in 1 .. Len(Rules), i < step + 1
          PROVE  install'[target][Rules[i]] = build[target][Rules[i]]
                 /\ install'[target][Rules[i]] # Missing
      <4>1. CASE Rules[i] = Rules[step]
        BY <1>1, <1>4, <4>1
      <4>2. CASE Rules[i] # Rules[step]
        <5>1. i < step /\ step > 1 /\ Rules[i] \in File
          BY <1>1, <3>2, <4>2, RuleTypes DEF JobOK
        <5>2. CopiedUpTo(step)
          BY <1>1, <5>1 DEF Rest, CopiedOK
        <5>3. QED
          BY <1>4, <4>2, <5>1, <5>2 DEF CopiedUpTo
      <4>3. QED
        BY <4>1, <4>2
    <3>3. QED
      BY <1>1, <3>1, <3>2 DEF CopiedUpTo
  <2>2. QED
    BY <1>1, <1>5, <2>1 DEF CopiedOK, Done
<1>7. FilesOK'
  BY <1>1, <1>4 DEF Rest, FilesOK
<1>8. MadeOK' /\ PackedOK' /\ AllRun'
  BY <1>1, <1>5 DEF Rest, MadeOK, PackedOK, AllRun
<1>9. FreshOK'
  BY <1>1, <1>5 DEF Rest, FreshOK, Doing, Idle
<1>10. UnforcedOK'
  BY <1>1 DEF Rest, UnforcedOK
<1>11. QED
  BY <1>2, <1>6, <1>7, <1>8, <1>9, <1>10, Conclude

LEMMA StepCopyFails ==
  ASSUME IInv, CopyFails
  PROVE  IInv'
<1>1. /\ JobOK /\ Rest /\ Doing("install") /\ ~Idle /\ Fail
      /\ \/ install' = install
         \/ install' = [install EXCEPT ![target] = IF @ = Nothing THEN EmptyDir ELSE @]
      /\ UNCHANGED <<sources, build, images, imagesSum, archive, archiveSum, faults>>
  BY Parts DEF CopyFails, releaseVars, Running, Doing
<1>2. install' \in [Target -> Dir \cup {Nothing}]
  BY <1>1, Values DEF JobOK, Rest, FilesOK
<1>3. FilesOK'
  BY <1>1, <1>2 DEF Rest, FilesOK
<1>4. QED
  BY <1>1, <1>3, Fails

LEMMA StepCopyDone ==
  ASSUME IInv, CopyDone
  PROVE  IInv'
<1>1. /\ JobOK /\ Rest /\ ~Idle /\ Doing("install") /\ Head(todo) = "install"
      /\ phase = "copy" /\ ~RulesLeft /\ Finish("ran")
      /\ UNCHANGED <<sources, build, install, images, imagesSum, archive, archiveSum, faults>>
  BY Parts DEF CopyDone, buildVars, releaseVars, Running, Doing
<1>2. /\ JobOK' /\ log'["install"] = "ran"
      /\ log'["build"] = log["build"] /\ log'["release"] = log["release"]
      /\ phase' = "check" /\ UNCHANGED <<target, forced, fresh>>
      /\ Idle' \/ Doing("release")'
  BY <1>1, FinishJob DEF Action
<1>3. log["release"] = "none"
  BY <1>1, NothingLogged
<1>4. FilesOK' /\ UnforcedOK'
  BY <1>1, <1>2 DEF Rest, FilesOK, UnforcedOK
<1>5. MadeOK' /\ PackedOK' /\ AllRun'
  BY <1>1, <1>2, <1>3 DEF Rest, MadeOK, PackedOK, AllRun
<1>6. CopiedOK'
  <2>1. step = Len(Rules) + 1 /\ step > 1
    BY <1>1, RuleTypes DEF JobOK, RulesLeft
  <2>2. CopiedUpTo(Len(Rules) + 1)
    BY <1>1, <2>1 DEF Rest, CopiedOK
  <2>3. CopiedUpTo(Len(Rules) + 1)'
    BY <1>1, <1>2, <2>2 DEF CopiedUpTo
  <2>4. install'[target'] # Nothing /\ \A f \in File : install'[target'][f] # Missing
    <3>1. ASSUME NEW f \in File PROVE install'[target'][f] # Missing
      <4>1. PICK i \in 1 .. Len(Rules) : Rules[i] = f
        BY RuleTypes
      <4>2. i < Len(Rules) + 1
        BY RuleTypes
      <4>3. QED
        BY <2>3, <4>1, <4>2 DEF CopiedUpTo
    <3>2. QED
      BY <2>3, <3>1 DEF CopiedUpTo
  <2>5. QED
    BY <1>2, <2>3, <2>4 DEF CopiedOK, Done
<1>7. FreshOK'
  BY <1>1, <1>2, <1>3 DEF Rest, FreshOK, Doing
<1>8. QED
  BY <1>2, <1>4, <1>5, <1>6, <1>7, Conclude

-----------------------------------------------------------------------------
(* release                                                                 *)

(* A step from one phase of release to the next, which writes one of the   *)
(* target's release files.                                                 *)
LEMMA Releasing ==
  ASSUME IInv, Doing("release"), phase # "archiveSum",
         NEW p \in {"imagesSum", "archive", "archiveSum"}, Goto(p), FilesOK',
         UNCHANGED <<sources, build, install>>,
         PackedOK', UnforcedOK',
         archive'[target] = archive[target] \/ p = "archiveSum"
  PROVE  IInv'
<1>1. JobOK /\ Rest
  BY Parts
<1>2. p \in PhasesOf[Head(todo)] /\ p \in Phase
  BY PhaseNames DEF Doing, Phase
<1>3. JobOK' /\ ~Idle
  BY <1>1, <1>2, GotoJob DEF Doing
<1>4. phase' = p /\ UNCHANGED <<todo, target, forced, fresh, log>>
  BY DEF Goto
<1>5. log["release"] = "none"
  BY <1>1, NothingLogged
<1>6. MadeOK' /\ AllRun'
  BY <1>1, <1>4, <1>5 DEF Rest, MadeOK, AllRun
<1>7. CopiedOK'
  BY <1>1, <1>4 DEF Rest, CopiedOK, CopiedUpTo, Done
<1>8. FreshOK'
  BY <1>1, <1>4, <1>5 DEF Rest, FreshOK, Doing, Idle
<1>9. QED
  BY <1>3, <1>6, <1>7, <1>8, Conclude

LEMMA StepPackImages ==
  ASSUME IInv, PackImages
  PROVE  IInv'
<1>1. /\ JobOK /\ Rest /\ Doing("release") /\ phase = "images"
      /\ install[target] # Nothing
      /\ images' = [images EXCEPT ![target] = install[target]]
      /\ Goto("imagesSum")
      /\ UNCHANGED <<sources, build, install, imagesSum, archive, archiveSum, faults>>
  BY Parts DEF PackImages, buildVars, Running, Doing, Filled
<1>2. phase' = "imagesSum" /\ UNCHANGED <<target, forced, fresh, log>>
  BY <1>1 DEF Goto
<1>3. target \in Target /\ install[target] \in Dir /\ log["release"] = "none"
  BY <1>1, NothingLogged DEF JobOK, Rest, FilesOK
<1>4. FilesOK' /\ images'[target] = install[target]
      /\ \A t \in Target : t # target => images'[t] = images[t]
  BY <1>1, <1>3 DEF Rest, FilesOK
<1>5. PackedOK'
  BY <1>1, <1>2, <1>3, <1>4 DEF PackedOK
<1>6. UnforcedOK'
  BY <1>1, <1>2, <1>4 DEF Rest, UnforcedOK
<1>7. QED
  BY <1>1, <1>4, <1>5, <1>6, Releasing

LEMMA StepPackFails ==
  ASSUME IInv, PackFails
  PROVE  IInv'
<1>1. /\ Rest /\ ~Idle /\ Fail
      /\ UNCHANGED <<sources, build, install, images, imagesSum, archive, archiveSum, faults>>
  BY Parts DEF PackFails, buildVars, releaseVars, Running
<1>2. FilesOK'
  BY <1>1 DEF Rest, FilesOK
<1>3. QED
  BY <1>1, <1>2, Fails

LEMMA StepSumImages ==
  ASSUME IInv, SumImages
  PROVE  IInv'
<1>1. /\ JobOK /\ Rest /\ Doing("release") /\ phase = "imagesSum"
      /\ imagesSum' = [imagesSum EXCEPT ![target] = images[target]]
      /\ Goto("archive")
      /\ UNCHANGED <<sources, build, install, images, archive, archiveSum, faults>>
  BY Parts DEF SumImages, buildVars, Running, Doing
<1>2. phase' = "archive" /\ UNCHANGED <<target, forced, fresh, log>>
  BY <1>1 DEF Goto
<1>3. target \in Target /\ install[target] \in Dir /\ images[target] = install[target]
      /\ log["release"] = "none"
  BY <1>1, NothingLogged DEF JobOK, Rest, PackedOK, FilesOK
<1>4. FilesOK' /\ imagesSum'[target] = images[target]
      /\ \A t \in Target : t # target => imagesSum'[t] = imagesSum[t]
  BY <1>1, <1>3 DEF Rest, FilesOK
<1>5. PackedOK'
  BY <1>1, <1>2, <1>3, <1>4, Values DEF PackedOK
<1>6. UnforcedOK'
  BY <1>1, <1>2, <1>4 DEF Rest, UnforcedOK
<1>7. QED
  BY <1>1, <1>4, <1>5, <1>6, Releasing

LEMMA StepPackArchive ==
  ASSUME IInv, PackArchive
  PROVE  IInv'
<1>1. /\ JobOK /\ Rest /\ Doing("release") /\ phase = "archive"
      /\ archive' = [archive EXCEPT ![target] = sources[target]]
      /\ Goto("archiveSum")
      /\ UNCHANGED <<sources, build, install, images, imagesSum, archiveSum, faults>>
  BY Parts DEF PackArchive, buildVars, Running, Doing
<1>2. phase' = "archiveSum" /\ UNCHANGED <<target, forced, fresh, log>>
  BY <1>1 DEF Goto
<1>3. /\ target \in Target /\ install[target] \in Dir /\ images[target] = install[target]
      /\ imagesSum[target] = images[target] /\ log["release"] = "none"
  BY <1>1, NothingLogged DEF JobOK, Rest, PackedOK, FilesOK
<1>4. FilesOK' /\ archive'[target] = sources[target]
      /\ \A t \in Target : t # target => archive'[t] = archive[t]
  BY <1>1, <1>3 DEF Rest, FilesOK
<1>5. PackedOK'
  BY <1>1, <1>2, <1>3, <1>4, Values DEF PackedOK
<1>6. UnforcedOK'
  BY <1>1, <1>2, <1>3, <1>4 DEF Rest, UnforcedOK
<1>7. QED
  BY <1>1, <1>4, <1>5, <1>6, Releasing

(* release ends: the archive that was there is kept, or the new one has    *)
(* its checksum.                                                           *)
LEMMA Released ==
  ASSUME IInv, Doing("release"), phase \in {"archive", "archiveSum"}, Finish("ran"),
         FilesOK', UNCHANGED <<sources, build, install, images, imagesSum, archive>>,
         fresh => archive[target] = sources[target] /\ archiveSum'[target] = archive[target]
  PROVE  IInv'
<1>1. JobOK /\ Rest /\ ~Idle /\ Head(todo) = "release"
  BY Parts DEF Doing
<1>2. /\ JobOK' /\ log'["release"] = "ran"
      /\ log'["build"] = log["build"] /\ log'["install"] = log["install"]
      /\ phase' = "check" /\ UNCHANGED <<target, forced, fresh>> /\ Idle'
  BY <1>1, FinishJob DEF Action
<1>3. MadeOK' /\ AllRun' /\ UnforcedOK'
  BY <1>1, <1>2 DEF Rest, MadeOK, AllRun, UnforcedOK
<1>4. CopiedOK'
  BY <1>1, <1>2 DEF Rest, CopiedOK, CopiedUpTo, Done
<1>5. PackedOK'
  BY <1>1, <1>2 DEF Rest, PackedOK
<1>6. FreshOK'
  BY <1>2 DEF FreshOK, Doing
<1>7. QED
  BY <1>2, <1>3, <1>4, <1>5, <1>6, Conclude

LEMMA StepKeepArchive ==
  ASSUME IInv, KeepArchive
  PROVE  IInv'
<1>1. /\ Rest /\ Doing("release") /\ phase = "archive" /\ archive[target] # Nothing
      /\ Finish("ran")
      /\ UNCHANGED <<sources, build, install, images, imagesSum, archive, archiveSum, faults>>
  BY Parts DEF KeepArchive, buildVars, releaseVars, Running, Doing
<1>2. ~fresh
  BY <1>1 DEF Rest, FreshOK
<1>3. FilesOK'
  BY <1>1 DEF Rest, FilesOK
<1>4. QED
  BY <1>1, <1>2, <1>3, Released

LEMMA StepSumArchive ==
  ASSUME IInv, SumArchive
  PROVE  IInv'
<1>1. /\ JobOK /\ Rest /\ Doing("release") /\ phase = "archiveSum"
      /\ archiveSum' = [archiveSum EXCEPT ![target] = archive[target]]
      /\ Finish("ran")
      /\ UNCHANGED <<sources, build, install, images, imagesSum, archive, faults>>
  BY Parts DEF SumArchive, buildVars, Running, Doing
<1>2. archive[target] = sources[target] /\ target \in Target
  BY <1>1 DEF JobOK, Rest, PackedOK
<1>3. FilesOK' /\ archiveSum'[target] = archive[target]
  BY <1>1, <1>2 DEF Rest, FilesOK
<1>4. QED
  BY <1>1, <1>2, <1>3, Released

-----------------------------------------------------------------------------
(* clean                                                                   *)

(* A step of clean: nothing is logged, so what it removes was not promised *)
(* by an action that ended well.                                           *)
LEMMA Cleaning ==
  ASSUME IInv, Doing("clean"), phase # "check", UNCHANGED sources,
         JobOK', UNCHANGED <<target, forced, fresh>>,
         Doing("clean")' \/ Idle', phase' \in {"check"} \cup PhasesOf["clean"],
         \A a \in {"build", "install", "release"} : log'[a] = log[a],
         FilesOK', UnforcedOK'
  PROVE  IInv'
<1>1. JobOK /\ Rest
  BY Parts
<1>2. log["build"] = "none" /\ log["install"] = "none" /\ log["release"] = "none"
  BY <1>1, NothingLogged
<1>3. phase' \notin {"make", "copy", "imagesSum", "archive", "archiveSum"}
  BY PhaseNames
<1>4. MadeOK' /\ CopiedOK' /\ PackedOK' /\ AllRun'
  BY <1>2, <1>3 DEF MadeOK, CopiedOK, Done, PackedOK, AllRun
<1>5. FreshOK'
  BY <1>2 DEF FreshOK, Doing
<1>6. QED
  BY <1>4, <1>5, Conclude

LEMMA CleaningOn ==
  ASSUME IInv, Doing("clean"),
         UNCHANGED jobVars \/ \E p \in PhasesOf["clean"] : Goto(p)
  PROVE  /\ JobOK' /\ UNCHANGED <<target, forced, fresh, log>> /\ Doing("clean")'
         /\ UNCHANGED jobVars => phase' = phase
<1>1. JobOK /\ ~Idle /\ Head(todo) = "clean"
  BY Parts DEF Doing
<1>2. CASE UNCHANGED jobVars
  BY <1>1, <1>2, SameJob DEF jobVars, Doing, Idle
<1>3. ASSUME NEW p \in PhasesOf["clean"], Goto(p), ~UNCHANGED jobVars
      PROVE  JobOK' /\ UNCHANGED <<target, forced, fresh, log>> /\ Doing("clean")'
  <2>1. p \in Phase
    BY PhaseNames DEF Phase
  <2>2. JobOK'
    BY <1>1, <1>3, <2>1, GotoJob
  <2>3. QED
    BY <1>1, <1>3, <2>2 DEF Goto, Doing, Idle
<1>4. QED
  BY <1>2, <1>3

LEMMA StepRemoveBuilt ==
  ASSUME IInv, RemoveBuilt
  PROVE  IInv'
<1>1. /\ JobOK /\ Rest /\ Doing("clean") /\ phase = "rmBuild"
      /\ UNCHANGED <<sources, install, images, imagesSum, archive, archiveSum, faults>>
  BY Parts DEF RemoveBuilt, releaseVars, Running, Doing
<1>2. \/ /\ build[target] # Nothing
         /\ \E f \in File : build' = [build EXCEPT ![target][f] = Missing]
         /\ UNCHANGED jobVars
      \/ build' = [build EXCEPT ![target] = Nothing] /\ Goto("rmInstall")
  BY DEF RemoveBuilt, Filled
<1>3. target \in Target /\ build \in [Target -> Dir \cup {Nothing}]
  BY <1>1 DEF JobOK, Rest, FilesOK
<1>4. build' \in [Target -> Dir \cup {Nothing}]
  <2>1. ASSUME build[target] # Nothing, NEW f \in File,
               build' = [build EXCEPT ![target][f] = Missing]
        PROVE  build' \in [Target -> Dir \cup {Nothing}]
    <3>1. [build[target] EXCEPT ![f] = Missing] \in Dir
      BY <1>3, <2>1, Values DEF Content
    <3>2. QED
      BY <1>3, <2>1, <3>1
  <2>2. QED
    BY <1>2, <1>3, <2>1
<1>5. FilesOK'
  BY <1>1, <1>4 DEF Rest, FilesOK
<1>6. /\ JobOK' /\ UNCHANGED <<target, forced, fresh, log>> /\ Doing("clean")'
      /\ phase' \in {"rmBuild", "rmInstall"}
  BY <1>1, <1>2, CleaningOn, PhaseNames DEF Goto
<1>7. UnforcedOK'
  BY <1>1, <1>6 DEF Rest, UnforcedOK
<1>8. QED
  BY <1>1, <1>5, <1>6, <1>7, PhaseNames, Cleaning

LEMMA StepRemoveInstalled ==
  ASSUME IInv, RemoveInstalled
  PROVE  IInv'
<1>1. /\ JobOK /\ Rest /\ Doing("clean") /\ phase = "rmInstall"
      /\ UNCHANGED <<sources, build, images, imagesSum, archive, archiveSum, faults>>
  BY Parts DEF RemoveInstalled, releaseVars, Running, Doing
<1>2. \/ /\ install[target] # Nothing
         /\ \E f \in File : install' = [install EXCEPT ![target][f] = Missing]
         /\ UNCHANGED jobVars
      \/ install' = [install EXCEPT ![target] = Nothing] /\ Goto("rmArchives")
  BY DEF RemoveInstalled, Filled
<1>3. target \in Target /\ install \in [Target -> Dir \cup {Nothing}]
  BY <1>1 DEF JobOK, Rest, FilesOK
<1>4. install' \in [Target -> Dir \cup {Nothing}]
  <2>1. ASSUME install[target] # Nothing, NEW f \in File,
               install' = [install EXCEPT ![target][f] = Missing]
        PROVE  install' \in [Target -> Dir \cup {Nothing}]
    <3>1. [install[target] EXCEPT ![f] = Missing] \in Dir
      BY <1>3, <2>1, Values DEF Content
    <3>2. QED
      BY <1>3, <2>1, <3>1
  <2>2. QED
    BY <1>2, <1>3, <2>1
<1>5. FilesOK'
  BY <1>1, <1>4 DEF Rest, FilesOK
<1>6. /\ JobOK' /\ UNCHANGED <<target, forced, fresh, log>> /\ Doing("clean")'
      /\ phase' \in {"rmInstall", "rmArchives"}
  BY <1>1, <1>2, CleaningOn, PhaseNames DEF Goto
<1>7. UnforcedOK'
  BY <1>1, <1>6 DEF Rest, UnforcedOK
<1>8. QED
  BY <1>1, <1>5, <1>6, <1>7, PhaseNames, Cleaning

LEMMA StepRemoveArchives ==
  ASSUME IInv, RemoveArchives
  PROVE  IInv'
<1>1. /\ JobOK /\ Rest /\ Doing("clean") /\ phase = "rmArchives"
      /\ UNCHANGED <<sources, build, install, images, imagesSum, faults>>
  BY Parts DEF RemoveArchives, buildVars, Running, Doing
<1>2. \/ /\ UNCHANGED jobVars
         /\ \E t \in Target :
              \/ archive' = [archive EXCEPT ![t] = Nothing] /\ archiveSum' = archiveSum
              \/ archiveSum' = [archiveSum EXCEPT ![t] = Nothing] /\ archive' = archive
      \/ /\ \A t \in Target : archive[t] = Nothing
         /\ Goto("rmImages") /\ UNCHANGED <<archive, archiveSum>>
  BY DEF RemoveArchives
<1>3. /\ FilesOK' /\ \A t \in Target : archive'[t] \in {archive[t], Nothing}
      /\ archive' \in [Target -> Version \cup {Torn, Nothing}]
      /\ archiveSum' \in [Target -> Version \cup {Nothing}]
  BY <1>1, <1>2 DEF Rest, FilesOK
<1>4. /\ JobOK' /\ UNCHANGED <<target, forced, fresh, log>> /\ Doing("clean")'
      /\ phase' \in {"rmArchives", "rmImages"}
      /\ phase' = "rmImages" => \A t \in Target : archive'[t] = Nothing
  BY <1>1, <1>2, CleaningOn, PhaseNames DEF Goto
<1>5. UnforcedOK'
  BY <1>1, <1>3, <1>4 DEF Rest, UnforcedOK
<1>6. QED
  BY <1>1, <1>3, <1>4, <1>5, PhaseNames, Cleaning

LEMMA StepRemoveImages ==
  ASSUME IInv, RemoveImages
  PROVE  IInv'
<1>1. /\ JobOK /\ Rest /\ Doing("clean") /\ phase = "rmImages" /\ ~Idle
      /\ Head(todo) = "clean"
      /\ UNCHANGED <<sources, build, install, archive, archiveSum, faults>>
  BY Parts DEF RemoveImages, buildVars, Running, Doing
<1>2. \/ /\ UNCHANGED jobVars
         /\ \E t \in Target :
              \/ images' = [images EXCEPT ![t] = Nothing] /\ imagesSum' = imagesSum
              \/ imagesSum' = [imagesSum EXCEPT ![t] = Nothing] /\ images' = images
      \/ Finish("ran") /\ UNCHANGED <<images, imagesSum>>
  BY DEF RemoveImages
<1>3. FilesOK'
  BY <1>1, <1>2 DEF Rest, FilesOK
<1>4. /\ JobOK' /\ UNCHANGED <<target, forced, fresh>>
      /\ Doing("clean")' \/ Idle'
      /\ phase' \in {"check", "rmImages"}
      /\ \A a \in {"build", "install", "release"} : log'[a] = log[a]
  <2>1. CASE UNCHANGED jobVars
    BY <1>1, <2>1, CleaningOn
  <2>2. CASE Finish("ran")
    BY <1>1, <2>2, FinishJob DEF Action
  <2>3. QED
    BY <1>2, <2>1, <2>2
<1>5. UnforcedOK'
  BY <1>1, <1>4 DEF Rest, UnforcedOK
<1>6. QED
  BY <1>1, <1>3, <1>4, <1>5, PhaseNames, Cleaning

-----------------------------------------------------------------------------
(* Failures and the user                                                   *)

LEMMA StepInterrupt ==
  ASSUME IInv, Interrupt
  PROVE  IInv'
<1>1. /\ JobOK /\ Rest /\ ~Idle /\ Fail /\ TornFile
      /\ faults > 0 /\ faults' = faults - 1
      /\ UNCHANGED <<sources, build, imagesSum, archiveSum>>
  BY Parts DEF Interrupt
<1>2. target \in Target /\ faults' \in Nat /\ FilesOK
  BY <1>1 DEF JobOK, Rest, FilesOK
<1>3. CASE UNCHANGED <<install, images, archive>>
  <2>1. FilesOK'
    BY <1>1, <1>2, <1>3 DEF FilesOK
  <2>2. QED
    BY <1>1, <1>3, <2>1, Fails
<1>4. CASE /\ Running("install", "copy") /\ RulesLeft
           /\ install' = Installed(Torn) /\ UNCHANGED <<images, archive>>
  <2>1. install' \in [Target -> Dir \cup {Nothing}]
    BY <1>1, <1>2, <1>4, InstalledIs DEF Content
  <2>2. FilesOK'
    BY <1>1, <1>2, <1>4, <2>1 DEF FilesOK
  <2>3. QED
    BY <1>1, <1>4, <2>2, Fails DEF Running, Doing
<1>5. CASE /\ Running("release", "images")
           /\ images' = [images EXCEPT ![target] = Torn] /\ UNCHANGED <<install, archive>>
  <2>1. FilesOK' /\ \A t \in Target : t # target => images'[t] = images[t]
    BY <1>1, <1>2, <1>5 DEF FilesOK
  <2>2. QED
    BY <1>1, <1>5, <2>1, Fails DEF Running
<1>6. CASE /\ Running("release", "archive")
           /\ archive' = [archive EXCEPT ![target] = Torn] /\ UNCHANGED <<install, images>>
  <2>1. FilesOK' /\ \A t \in Target : t # target => archive'[t] = archive[t]
    BY <1>1, <1>2, <1>6 DEF FilesOK
  <2>2. QED
    BY <1>1, <1>6, <2>1, Fails DEF Running
<1>7. QED
  BY <1>1, <1>3, <1>4, <1>5, <1>6 DEF TornFile

(* Between two commands nothing is promised but of releases.               *)
LEMMA Between ==
  ASSUME IInv, JobOK', FilesOK', \A a \in Action : log'[a] = "none", phase' = "check",
         UNCHANGED <<images, imagesSum, archive>>, forced' \in Forcing \cup {forced},
         FreshOK'
  PROVE  IInv'
<1>1. Rest
  BY Parts
<1>2. MadeOK' /\ CopiedOK' /\ PackedOK' /\ AllRun'
  BY DEF MadeOK, CopiedOK, Done, PackedOK, AllRun, Action
<1>3. UnforcedOK'
  BY <1>1 DEF Rest, UnforcedOK
<1>4. QED
  BY <1>2, <1>3, Conclude

LEMMA StepRequest ==
  ASSUME IInv, NEW t \in Target, NEW actions \in Command, NEW force \in Forcing,
         Request(t, actions, force)
  PROVE  IInv'
<1>1. /\ JobOK /\ Rest /\ target' = t /\ phase' = "check" /\ forced' = force
      /\ fresh' = (build[t] = Nothing /\ install[t] = Nothing /\ archive[t] = Nothing)
      /\ UNCHANGED <<sources, build, install, images, imagesSum, archive, archiveSum, faults>>
  BY Parts DEF Request, buildVars, releaseVars
<1>2. JobOK' /\ \A a \in Action : log'[a] = "none"
  BY <1>1, RequestJob
<1>3. FilesOK'
  BY <1>1 DEF Rest, FilesOK
<1>4. FreshOK'
  BY <1>1, <1>2 DEF FreshOK, Action
<1>5. QED
  BY <1>1, <1>2, <1>3, <1>4, Between

LEMMA StepUpdate ==
  ASSUME IInv, NEW t \in Target, Update(t)
  PROVE  IInv'
<1>1. /\ JobOK /\ Rest /\ Idle /\ Idle' /\ UNCHANGED <<phase, forced>>
      /\ sources[t] < MaxVersion /\ sources' = [sources EXCEPT ![t] = @ + 1]
      /\ UNCHANGED <<build, install, images, imagesSum, archive, archiveSum, faults>>
  BY Parts DEF Update, buildVars, releaseVars, Idle
<1>2. JobOK' /\ \A a \in Action : log'[a] = "none"
  BY <1>1, UpdateJob
<1>3. phase = "check"
  BY <1>1 DEF JobOK, PlaceOK, Doing
<1>4. FilesOK'
  <2>1. sources[t] + 1 \in Version /\ sources \in [Target -> Version]
    BY <1>1, BoundAssumption DEF Rest, FilesOK, Version
  <2>2. sources' \in [Target -> Version]
    BY <1>1, <2>1
  <2>3. QED
    BY <1>1, <2>2 DEF Rest, FilesOK
<1>5. FreshOK'
  BY <1>1, <1>2 DEF FreshOK, Action, Doing
<1>6. QED
  BY <1>1, <1>2, <1>3, <1>4, <1>5, Between

LEMMA StepNothing ==
  ASSUME IInv, UNCHANGED vars
  PROVE  IInv'
<1>1. JobOK /\ Rest /\ UNCHANGED jobVars /\ UNCHANGED <<todo, phase, step, target, forced, fresh, log>>
      /\ UNCHANGED <<sources, build, install, images, imagesSum, archive, archiveSum, faults>>
  BY Parts DEF vars, jobVars, buildVars, releaseVars
<1>2. JobOK'
  BY <1>1, SameJob
<1>3. FilesOK' /\ MadeOK' /\ PackedOK' /\ AllRun' /\ UnforcedOK'
  BY <1>1 DEF Rest, FilesOK, MadeOK, PackedOK, AllRun, UnforcedOK
<1>4. CopiedOK' /\ FreshOK'
  BY <1>1 DEF Rest, CopiedOK, CopiedUpTo, Done, FreshOK, Doing, Idle
<1>5. QED
  BY <1>2, <1>3, <1>4, Conclude

LEMMA NextIInv ==
  ASSUME IInv, [Next]_vars
  PROVE  IInv'
<1>1. CASE Advance
  <2>1. CASE Skip \/ Start \/ (\E f \in File : MakeFile(f)) \/ MakeDone
    BY <2>1, StepSkip, StepStart, StepMakeFile, StepMakeDone
  <2>2. CASE CopyFile \/ CopyFails \/ CopyDone
    BY <2>2, StepCopyFile, StepCopyFails, StepCopyDone
  <2>3. CASE PackImages \/ PackFails \/ SumImages \/ KeepArchive \/ PackArchive \/ SumArchive
    BY <2>3, StepPackImages, StepPackFails, StepSumImages, StepKeepArchive,
       StepPackArchive, StepSumArchive
  <2>4. CASE RemoveBuilt \/ RemoveInstalled \/ RemoveArchives \/ RemoveImages
    BY <2>4, StepRemoveBuilt, StepRemoveInstalled, StepRemoveArchives, StepRemoveImages
  <2>5. QED
    BY <1>1, <2>1, <2>2, <2>3, <2>4 DEF Advance
<1>2. CASE Interrupt
  BY <1>2, StepInterrupt
<1>3. CASE \E t \in Target :
             \/ Update(t)
             \/ \E actions \in Command, force \in Forcing : Request(t, actions, force)
  BY <1>3, StepUpdate, StepRequest
<1>4. CASE UNCHANGED vars
  BY <1>4, StepNothing
<1>5. QED
  BY <1>1, <1>2, <1>3, <1>4 DEF Next

LEMMA Invariant == Spec => []IInv
<1>1. IInv /\ [Next]_vars => IInv'
  BY NextIInv
<1>2. QED
  BY InitIInv, <1>1, PTL DEF Spec

-----------------------------------------------------------------------------
(* The theorems                                                            *)

(* Every file of the stages holds what it can hold, and every command is   *)
(* at a place of its action.                                               *)
THEOREM Types == Spec => []TypeOK
<1>1. IInv => TypeOK
  BY DEF IInv
<1>2. QED
  BY Invariant, <1>1, PTL

(* Without force, a sources archive is never there without complete and    *)
(* verified images (the order within release and clean, on which           *)
(* release_check in projects/coreboot/coreboot relies).                    *)
THEOREM ArchiveLast == Spec => []ArchiveComesLast
<1>1. IInv => ArchiveComesLast
  BY DEF IInv, UnforcedOK, ArchiveComesLast, Whole
<1>2. QED
  BY Invariant, <1>1, PTL

(* What produce releases has every file of the install rules, whatever     *)
(* build_check and install_check skipped.                                  *)
THEOREM ProducedComplete == Spec => []ProducedIsComplete
<1>1. ASSUME IInv, Passed({"build", "install"}), Ran({"release"}), NEW f \in File
      PROVE  images[target] \in Dir /\ Present(images[target], f)
  <2>1. Done("install") /\ log["release"] = "ran"
    BY <1>1 DEF Passed, Ran, Done
  <2>2. images[target] = install[target] /\ install[target] # Nothing
        /\ install[target][f] # Missing
    BY <1>1, <2>1 DEF IInv, PackedOK, CopiedOK
  <2>3. QED
    BY <1>1, <2>2, Parts DEF Rest, FilesOK, JobOK, Present
<1>2. IInv => ProducedIsComplete
  BY <1>1 DEF ProducedIsComplete
<1>3. QED
  BY Invariant, <1>2, PTL

(* A produce that ends well, forced or from nothing, releases verified     *)
(* images of the sources as they are.                                      *)
THEOREM ReleasesCurrent == Spec => []ReleaseIsCurrent
<1>1. ASSUME IInv, forced \/ fresh, Passed({"build", "install", "release"})
      PROVE  Whole(target) /\ Current(target)
  <2>1. log["build"] = "ran" /\ log["install"] = "ran" /\ log["release"] = "ran"
    BY <1>1 DEF Passed, IInv, AllRun
  <2>2. /\ images[target] = install[target] /\ install[target] # Nothing
        /\ imagesSum[target] = images[target]
    BY <1>1, <2>1 DEF IInv, PackedOK
  <2>3. images[target] \in Dir
    BY <1>1, <2>2, Parts DEF Rest, FilesOK, JobOK
  <2>4. ASSUME NEW f \in File PROVE images[target][f] = sources[target]
    <3>1. PICK i \in 1 .. Len(Rules) : Rules[i] = f
      BY RuleTypes
    <3>2. i < Len(Rules) + 1
      BY RuleTypes
    <3>3. install[target][f] = build[target][f]
      BY <1>1, <2>1, <3>1, <3>2 DEF IInv, CopiedOK, CopiedUpTo
    <3>4. QED
      BY <1>1, <2>1, <2>2, <3>3 DEF IInv, MadeOK
  <2>5. images[target] = [f \in File |-> sources[target]]
    BY <2>3, <2>4 DEF Dir
  <2>6. QED
    BY <2>2, <2>3, <2>5 DEF Whole, Current
<1>2. IInv => ReleaseIsCurrent
  BY <1>1 DEF ReleaseIsCurrent
<1>3. QED
  BY Invariant, <1>2, PTL

(* From nothing, the archive of the sources that goes with the images is   *)
(* of the same sources, and verifies.                                      *)
THEOREM FreshArchiveCurrent == Spec => []FreshArchiveIsCurrent
<1>1. IInv => FreshArchiveIsCurrent
  BY DEF IInv, AllRun, FreshOK, FreshArchiveIsCurrent, Passed
<1>2. QED
  BY Invariant, <1>1, PTL
====
