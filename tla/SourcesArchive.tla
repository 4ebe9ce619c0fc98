------------------------------ MODULE SourcesArchive ------------------------------
(***************************************************************************)
(* Where a project's sources come from when they are not prepared in git:  *)
(* released archives placed under sources/, extracted, updated, or passed  *)
(* over for a clone (libs/project, libs/common and `sources` in libreboot).*)
(*                                                                         *)
(* Sources and archives are named after the project and a prefix of the    *)
(* target's arguments; such a name is a Node, and Chain[t] lists a         *)
(* target's from the project alone to all arguments.  Lookups take the     *)
(* last name of the chain at which something exists.                       *)
(***************************************************************************)
EXTENDS Naturals, Sequences

CONSTANTS
  Target, Node,
  Root,         \* the project alone, where git clones
  Chain,        \* per target, the names it looks at
  Offer,        \* archives the user may place: see Archive
  Owned,        \* names for which the project may keep sources of its own
  Commands,     \* those the user gives
  FaultBound,
  None, Git, Elsewhere

Tree == [whole : BOOLEAN, trusted : BOOLEAN]

(* An archive beside its checksum and signature files: do they verify, is  *)
(* it whole, and which directory does it hold?                             *)
Archive == [checked : BOOLEAN, signed : BOOLEAN, whole : BOOLEAN,
            top : Node \cup {Elsewhere}]

ASSUME ChainAssumption ==
  /\ Root \in Node /\ Owned \subseteq Node
  /\ Chain \in [Target -> Seq(Node)]
  /\ \A t \in Target : Chain[t] # <<>> /\ Chain[t][1] = Root

ASSUME OfferAssumption ==
  /\ Offer \subseteq Archive
  /\ Commands \subseteq {"extract", "sources", "download", "update"}
  /\ FaultBound \in Nat

ASSUME ValueAssumption ==
  /\ None \notin Tree \cup Archive \cup Node /\ Git \notin Tree \cup {None}
  /\ Elsewhere \notin Node

VARIABLES
  dir,      \* the tree in sources/<name>: None, extracted, or a git repository
  own,      \* the tree in projects/<project>/sources
  archive,  \* the archive at sources/<name>.tar.xz
  phase, command, target,
  outcome,  \* how the last command ended
  faults

jobVars == <<phase, command, target, outcome>>
vars == <<dir, own, archive, jobVars, faults>>

TypeOK ==
  /\ dir \in [Node -> Tree \cup {None, Git}]
  /\ dir[Root] = Git \/ \A n \in Node : dir[n] # Git
  /\ own \in [Node -> Tree \cup {None}]
  /\ archive \in [Node -> Archive \cup {None}]
  /\ phase \in {"idle", "look", "verify", "untar", "clone", "remove"}
  /\ command \in {"extract", "sources", "download", "update"}
  /\ target \in Target
  /\ outcome \in {"none", "ok", "skipped", "failed"}
  /\ faults \in Nat

-----------------------------------------------------------------------------
(* Lookups                                                                 *)

At(t) == {Chain[t][i] : i \in 1 .. Len(Chain[t])}
Depth(t, n) == CHOOSE i \in 1 .. Len(Chain[t]) : Chain[t][i] = n

(* The most specific name of the chain in a set, or None.                  *)
Deepest(t, names) ==
  IF names \cap At(t) = {}
    THEN None
    ELSE CHOOSE n \in names \cap At(t) :
           \A m \in names \cap At(t) : Depth(t, m) <= Depth(t, n)

Extracted(t) == Deepest(t, {n \in Node : dir[n] # None})
Own(t)       == Deepest(t, {n \in Node : own[n] # None})
ArchiveAt(t) == Deepest(t, {n \in Node : archive[n] # None})

(* project_sources_path: sources/ first, the project's own sources last.   *)
Filled(t) == Extracted(t) # None \/ Own(t) # None

IsGit == dir[Root] = Git
Trusted(tree) == tree \in Tree => tree.trusted

(* file_verification_check: the checksum, then the signature, both asked.  *)
Verifies(a) == a.checked /\ a.signed

Init ==
  /\ dir = [n \in Node |-> None]
  /\ own \in {[n \in Node |-> IF n \in names
                               THEN [whole |-> TRUE, trusted |-> TRUE] ELSE None]
               : names \in SUBSET Owned}
  /\ archive = [n \in Node |-> None]
  /\ phase = "idle" /\ command = "extract" /\ outcome = "none"
  /\ target \in Target
  /\ faults = FaultBound

Goto(p) == phase' = p /\ UNCHANGED <<command, target, outcome>>
End(o)  == phase' = "idle" /\ outcome' = o /\ UNCHANGED <<command, target>>

-----------------------------------------------------------------------------
(* The user                                                                *)

Place(n, a) ==
  /\ phase = "idle"
  /\ archive' = [archive EXCEPT ![n] = a]
  /\ UNCHANGED <<dir, own, jobVars, faults>>

Request(t, c) ==
  /\ phase = "idle"
  /\ phase' = "look" /\ command' = c /\ target' = t /\ outcome' = "none"
  /\ UNCHANGED <<dir, own, archive, faults>>

-----------------------------------------------------------------------------
(* extract, and sources, which downloads when extract fails.  As extract   *)
(* is the condition of an `if` there, `set -e` is not in effect in it.     *)

Extracting == command \in {"extract", "sources"}
ExtractFails == IF command = "sources" THEN Goto("clone") ELSE End("failed")

ExtractSkipped ==
  /\ phase = "look" /\ Extracting
  /\ Filled(target)
  /\ End("skipped")
  /\ UNCHANGED <<dir, own, archive, faults>>

\* Mutant: without an archive nothing is downloaded either.
MissingFails ==
  /\ phase = "look" /\ Extracting
  /\ ~Filled(target) /\ ArchiveAt(target) = None
  /\ End("failed")
  /\ UNCHANGED <<dir, own, archive, faults>>

ArchiveMissing ==
  /\ phase = "look" /\ Extracting
  /\ ~Filled(target) /\ ArchiveAt(target) = None
  /\ ExtractFails
  /\ UNCHANGED <<dir, own, archive, faults>>

ArchiveFound ==
  /\ phase = "look" /\ Extracting
  /\ ~Filled(target) /\ ArchiveAt(target) # None
  /\ Goto("verify")
  /\ UNCHANGED <<dir, own, archive, faults>>

Selected == archive[ArchiveAt(target)]

\* Mutant: the signature is not asked for.
VerifyChecksum ==
  /\ phase = "verify"
  /\ IF Selected.checked \/ command = "sources"
       THEN Goto("untar") ELSE End("failed")
  /\ UNCHANGED <<dir, own, archive, faults>>

Verify ==
  /\ phase = "verify"
  /\ IF Verifies(Selected) \/ command = "sources"
       THEN Goto("untar") ELSE End("failed")
  /\ UNCHANGED <<dir, own, archive, faults>>

(* tar merges the archive into what is there.                              *)
Unpacked(whole) ==
  LET top == Selected.top
      old == dir[top]
  IN IF top = Elsewhere THEN dir
     ELSE [dir EXCEPT ![top] =
             [whole |-> whole,
              trusted |-> Verifies(Selected) /\ Trusted(old)]]

Untar ==
  /\ phase = "untar"
  /\ dir' = Unpacked(Selected.whole)
  /\ IF Selected.whole THEN End("ok") ELSE ExtractFails
  /\ UNCHANGED <<own, archive, faults>>

-----------------------------------------------------------------------------
(* download: clones unless anything is there already.                      *)

Download ==
  /\ phase = "look" /\ command = "download"
  /\ Goto("clone")
  /\ UNCHANGED <<dir, own, archive, faults>>

\* Mutants: a clone below the target's name; one that waits for the
\* directory to go away.
CloneDeep ==
  /\ phase = "clone"
  /\ IF IsGit \/ Filled(target)
       THEN End("failed") /\ UNCHANGED dir
       ELSE /\ dir' = [dir EXCEPT ![Chain[target][Len(Chain[target])]] = Git]
            /\ End("ok")
  /\ UNCHANGED <<own, archive, faults>>

CloneWaits ==
  /\ phase = "clone"
  /\ \/ IsGit /\ End("ok") /\ UNCHANGED dir
     \/ ~IsGit /\ Filled(target) /\ UNCHANGED <<dir, jobVars>>
     \/ /\ ~IsGit /\ ~Filled(target)
        /\ dir' = [dir EXCEPT ![Root] = Git]
        /\ End("ok")
  /\ UNCHANGED <<own, archive, faults>>

Clone ==
  /\ phase = "clone"
  /\ \/ IsGit /\ End("ok") /\ UNCHANGED dir
     \/ ~IsGit /\ Filled(target) /\ End("failed") /\ UNCHANGED dir
     \/ /\ ~IsGit /\ ~Filled(target)
        /\ dir' = [dir EXCEPT ![Root] = Git]
        /\ End("ok")
  /\ UNCHANGED <<own, archive, faults>>

-----------------------------------------------------------------------------
(* update: of a git repository, GitProject's; otherwise the sources are    *)
(* removed and the archive extracted again.                                *)

UpdateSkipped ==
  /\ phase = "look" /\ command = "update"
  /\ ~IsGit /\ ArchiveAt(target) = None
  /\ End("skipped")
  /\ UNCHANGED <<dir, own, archive, faults>>

\* Mutant: update does not ask whether the sources are a git repository.
UpdateAny ==
  /\ phase = "look" /\ command = "update"
  /\ \/ ArchiveAt(target) = None /\ End("ok")
     \/ ArchiveAt(target) # None /\ ~Filled(target) /\ End("failed")
     \/ ArchiveAt(target) # None /\ Filled(target) /\ Goto("remove")
  /\ UNCHANGED <<dir, own, archive, faults>>

UpdateStart ==
  /\ phase = "look" /\ command = "update"
  /\ \/ IsGit /\ End("ok")
     \/ ~IsGit /\ ArchiveAt(target) # None /\ ~Filled(target) /\ End("failed")
     \/ ~IsGit /\ ArchiveAt(target) # None /\ Filled(target) /\ Goto("remove")
  /\ UNCHANGED <<dir, own, archive, faults>>

Remove(result) ==
  IF Extracted(target) # None
    THEN dir' = [dir EXCEPT ![Extracted(target)] = result] /\ UNCHANGED own
    ELSE own' = [own EXCEPT ![Own(target)] = result] /\ UNCHANGED dir

\* Mutant: the new archive is unpacked over the old sources.
RemoveNothing ==
  /\ phase = "remove"
  /\ Goto("verify")
  /\ UNCHANGED <<dir, own, archive, faults>>

RemoveSources ==
  /\ phase = "remove"
  /\ Remove(None)
  /\ Goto("verify")
  /\ UNCHANGED <<archive, faults>>

-----------------------------------------------------------------------------
(* A failure or ^C in the middle of `tar` or `rm -rf` leaves some of the   *)
(* files; git removes the directory of a clone that fails.                 *)
Interrupt ==
  /\ phase # "idle" /\ faults > 0
  /\ faults' = faults - 1
  /\ End("failed")
  /\ CASE phase = "untar" -> dir' = Unpacked(FALSE) /\ UNCHANGED own
       [] phase = "remove" ->
            Remove([whole |-> FALSE,
                    trusted |-> Extracted(target) # None
                                  => Trusted(dir[Extracted(target)])])
       [] OTHER -> UNCHANGED <<dir, own>>
  /\ UNCHANGED archive

Advance ==
  \/ ExtractSkipped \/ ArchiveMissing \/ ArchiveFound \/ Verify \/ Untar
  \/ Download \/ Clone
  \/ UpdateSkipped \/ UpdateStart \/ RemoveSources

Next ==
  \/ Advance
  \/ Interrupt
  \/ \E n \in Node, a \in Offer : Place(n, a)
  \/ \E t \in Target, c \in Commands : Request(t, c)

Spec == Init /\ [][Next]_vars
FairSpec == Spec /\ WF_vars(Advance)

-----------------------------------------------------------------------------
(* Properties                                                              *)

\* extract, update and download let nothing into the sources that does not
\* verify, even when archives are replaced between commands, commands fail or
\* an update merges two archives.  (`sources` does: see ExtractedIsVerified.)
OnlyTrusted ==
  [][command # "sources" =>
       \A n \in Node : Trusted(dir[n]) => Trusted(dir'[n])]_vars

\* An extraction or update that reports success leaves whole what the target's
\* builds will read, whatever was interrupted or merged before: the archive's
\* directory is never hidden behind a partial one of a more specific name.  (It
\* must be a directory of this target's, and targets have at most two names:
\* update removes the most specific directory only, so that under an archive
\* that holds none of them a partial one may come to light again.)
EndsWhole ==
  [][(/\ phase = "untar" /\ phase' = "idle" /\ outcome' = "ok"
      /\ Selected.top \in At(target) /\ Len(Chain[target]) <= 2)
       => /\ Extracted(target)' # None
          /\ dir'[Extracted(target)'].whole]_vars

\* Once cloned, the repository is never unpacked over nor removed.
GitIsKept == [][dir[Root] = Git => dir'[Root] = Git]_vars

\* Every command ends.
CommandEnds == phase # "idle" ~> phase = "idle"

\* With no archive in the way, `sources` obtains the sources of a target that
\* has none: the extraction fails and the download takes over.
SourcesObtains ==
  \A t \in Target :
    (/\ phase = "look" /\ command = "sources" /\ target = t
     /\ ~Filled(t) /\ ArchiveAt(t) = None /\ faults = 0)
      ~> (phase = "idle" /\ IsGit)

-----------------------------------------------------------------------------
(* What libs/common says and `sources` does not do.                        *)

\* libs/common: an archive that could not be verified is an error.  Nothing
\* that does not verify should become a target's sources.
ExtractedIsVerified == \A n \in Node : Trusted(dir[n])
=============================================================================
