------------------------------- MODULE GitProject -------------------------------
(***************************************************************************)
(* One git repository under sources/ and the project targets that share    *)
(* it (libs/git, with the git half of libs/project).                       *)
(*                                                                         *)
(* Every target -- a project with its arguments, "coreboot x200 8MiB" --   *)
(* owns one branch of the repository, libreboot-<project>-<arguments>.     *)
(* `download` and `update` prepare that branch: they create it at HEAD,    *)
(* move it to the revision the project's configs name, remove the listed   *)
(* blobs, commit, and apply the patches one by one.  Each of those is a    *)
(* git command of its own that may fail or be interrupted; `set -e` then   *)
(* ends the action and leaves the repository as it is.  `build` and        *)
(* `release` check the branch out and read the working tree.               *)
(*                                                                         *)
(* A tree is abstracted to what preparation changes: the upstream commit   *)
(* it stands on, the blobs removed from it, the patches applied to it.     *)
(***************************************************************************)
EXTENDS Naturals, Sequences

CONSTANTS
  Target,      \* projects with their arguments; one branch each
  Base,        \* upstream commits
  Blob,        \* files some target's blobs list names
  Patch,       \* files below the projects' patches directories
  Revision,    \* commit named by a revision file, or NoRevision
  BlobList,    \* per target, what project_blobs prints, in order
  PatchList,   \* per target, its patches in the order they are applied
  Cloner,      \* targets whose download clones; the others only prepare
  Unchecked,   \* targets whose download_check never succeeds (vboot)
  FaultBound,  \* how many commands may fail or be interrupted
  NoRevision, NoTree, Detached

ASSUME TargetAssumption ==
  /\ Cloner \subseteq Target
  /\ Unchecked \subseteq Target
  /\ Detached \notin Target

ASSUME ConfigAssumption ==
  /\ NoRevision \notin Base
  /\ Revision \in [Target -> Base \cup {NoRevision}]
  /\ BlobList \in [Target -> Seq(Blob)]
  /\ PatchList \in [Target -> Seq(Patch)]

ASSUME FaultAssumption == FaultBound \in Nat

Tree == [base : Base, removed : SUBSET Blob, patched : SUBSET Patch]

ASSUME NoTreeAssumption == NoTree \notin Tree

VARIABLES
  cloned,   \* sources/<repository>/.git exists
  origin,   \* the commit origin/HEAD names
  branch,   \* the tree of each target's branch, or NoTree
  head,     \* the branch HEAD is on; Detached when it is on no target's
  loose,    \* the tree HEAD names when Detached, NoTree when it is on a branch
  index,    \* blobs whose removal is staged and not committed
  amLeft,   \* a killed `git am` left .git/rebase-apply behind
  stage,    \* what the running action does next, "idle" between actions
  target,   \* the target of the running action
  step,     \* 1-based position in the list being worked through
  outcome,  \* per target, how its last download or update that ran ended;
            \* "skipped" when none ended well and the last one was skipped
  built,    \* per target, the tree its last build compiled
  released, \* per target, the tree in its released sources archive
  faults    \* faults left to happen

repoVars == <<cloned, origin, branch, head, loose, index, amLeft>>
jobVars  == <<stage, target, step, outcome>>
vars     == <<repoVars, jobVars, built, released, faults>>

Stage == {"idle", "clone", "branch", "reset", "blobs", "patches",
          "fetch", "detach", "delete"}
Outcome == {"none", "running", "ok", "skipped", "failed"}

TypeOK ==
  /\ cloned \in BOOLEAN
  /\ origin \in Base
  /\ branch \in [Target -> Tree \cup {NoTree}]
  /\ head \in Target \cup {Detached}
  /\ head \in Target => branch[head] \in Tree
  /\ loose \in Tree \cup {NoTree}
  /\ head = Detached => loose \in Tree
  /\ index \in SUBSET Blob
  /\ amLeft \in BOOLEAN
  /\ stage \in Stage
  /\ target \in Target
  /\ step \in Nat \ {0}
  /\ outcome \in [Target -> Outcome]
  /\ built \in [Target -> Tree \cup {NoTree}]
  /\ released \in [Target -> Tree \cup {NoTree}]
  /\ faults \in Nat

-----------------------------------------------------------------------------

Pristine(b) == [base |-> b, removed |-> {}, patched |-> {}]
Listed(s, n) == {s[i] : i \in 1 .. n}

(* The tree a target's configuration describes, when it names a revision.  *)
Prepared(t) == [base    |-> Revision[t],
                removed |-> Listed(BlobList[t], Len(BlobList[t])),
                patched |-> Listed(PatchList[t], Len(PatchList[t]))]

HasRevision(t) == Revision[t] # NoRevision
HeadTree == IF head \in Target THEN branch[head] ELSE loose

(* What the compiler sees: HEAD's files less those staged for removal.     *)
WorkTree == [HeadTree EXCEPT !.removed = @ \cup index]

Goto(s) == stage' = s /\ step' = 1 /\ UNCHANGED <<target, outcome>>

Begin(t, s) ==
  /\ stage' = s
  /\ step' = 1
  /\ target' = t
  /\ outcome' = [outcome EXCEPT ![t] = "running"]

End(o) ==
  /\ stage' = "idle"
  /\ step' = 1
  /\ outcome' = [outcome EXCEPT ![target] = o]
  /\ UNCHANGED target

(* `git checkout` to a commit: a staged removal stays staged as long as    *)
(* the file is in that commit too.                                         *)
CarryIndex(tree) == index' = index \ tree.removed

Attach(t) == head' = t /\ loose' = NoTree

Init ==
  /\ cloned = FALSE
  /\ origin \in Base
  /\ branch = [t \in Target |-> NoTree]
  /\ head = Detached
  /\ loose = Pristine(origin)
  /\ index = {}
  /\ amLeft = FALSE
  /\ stage = "idle"
  /\ target \in Target
  /\ step = 1
  /\ outcome = [t \in Target |-> "none"]
  /\ built = [t \in Target |-> NoTree]
  /\ released = [t \in Target |-> NoTree]
  /\ faults = FaultBound

-----------------------------------------------------------------------------
(* download                                                                *)

(* download_check: all it asks is whether the target's branch exists.  A   *)
(* skipped download lets an earlier "ok" stand.                            *)
BranchExists(t) == cloned /\ branch[t] # NoTree

DownloadSkipped(t) ==
  /\ stage = "idle"
  /\ BranchExists(t)
  /\ t \notin Unchecked
  /\ outcome' = [outcome EXCEPT ![t] = IF @ = "ok" THEN "ok" ELSE "skipped"]
  /\ UNCHANGED <<repoVars, stage, target, step, built, released, faults>>

(* Not skipped: the check failed, or PROJECTS_FORCE names the project.     *)
Download(t) ==
  /\ stage = "idle"
  /\ IF ~cloned /\ t \in Cloner
       THEN Begin(t, "clone")
       ELSE Begin(t, "branch")
  /\ UNCHANGED <<repoVars, built, released, faults>>

Clone ==
  /\ stage = "clone"
  /\ cloned' = TRUE
  /\ head' = Detached
  /\ loose' = Pristine(origin)
  /\ index' = {}
  /\ Goto("branch")
  /\ UNCHANGED <<origin, branch, amLeft, built, released, faults>>

\* Mutants: a branch that is not moved to its revision; one that is created
\* without being checked out; one that must not exist yet (`checkout -b`).
BranchCreateNoReset ==
  /\ stage = "branch"
  /\ cloned
  /\ branch' = [branch EXCEPT ![target] = HeadTree]
  /\ Attach(target)
  /\ Goto("blobs")
  /\ UNCHANGED <<cloned, origin, index, amLeft, built, released, faults>>

BranchCreateNoCheckout ==
  /\ stage = "branch"
  /\ cloned
  /\ branch' = [branch EXCEPT ![target] = HeadTree]
  /\ Goto(IF HasRevision(target) THEN "reset" ELSE "blobs")
  /\ UNCHANGED <<cloned, origin, head, loose, index, amLeft,
                 built, released, faults>>

BranchCreateNew ==
  /\ stage = "branch"
  /\ cloned
  /\ IF branch[target] = NoTree
       THEN /\ branch' = [branch EXCEPT ![target] = HeadTree]
            /\ Attach(target)
            /\ Goto(IF HasRevision(target) THEN "reset" ELSE "blobs")
       ELSE End("failed") /\ UNCHANGED <<branch, head, loose>>
  /\ UNCHANGED <<cloned, origin, index, amLeft, built, released, faults>>

(* `git checkout -B`: the branch starts where HEAD is, whatever that is.   *)
BranchCreate ==
  /\ stage = "branch"
  /\ cloned
  /\ branch' = [branch EXCEPT ![target] = HeadTree]
  /\ Attach(target)
  /\ Goto(IF HasRevision(target) THEN "reset" ELSE "blobs")
  /\ UNCHANGED <<cloned, origin, index, amLeft, built, released, faults>>

(* Preparing in a repository nobody cloned: `cd` fails.                    *)
BranchCreateFails ==
  /\ stage = "branch"
  /\ ~cloned
  /\ End("failed")
  /\ UNCHANGED <<repoVars, built, released, faults>>

ResetToRevision ==
  /\ stage = "reset"
  /\ branch' = [branch EXCEPT ![target] = Pristine(Revision[target])]
  /\ index' = {}
  /\ Goto("blobs")
  /\ UNCHANGED <<cloned, origin, head, loose, amLeft, built, released, faults>>

NextBlob == BlobList[target][step]
BlobsLeft == step <= Len(BlobList[target])

RemoveBlob ==
  /\ stage = "blobs"
  /\ BlobsLeft
  /\ NextBlob \notin WorkTree.removed
  /\ index' = index \cup {NextBlob}
  /\ step' = step + 1
  /\ UNCHANGED <<cloned, origin, branch, head, loose, amLeft,
                 stage, target, outcome, built, released, faults>>

(* `git rm` of a path that is not there any more.                          *)
RemoveBlobFails ==
  /\ stage = "blobs"
  /\ BlobsLeft
  /\ NextBlob \in WorkTree.removed
  /\ End("failed")
  /\ UNCHANGED <<repoVars, built, released, faults>>

(* The commit goes to whatever HEAD is on.                                 *)
CommitBlobs ==
  /\ stage = "blobs"
  /\ ~BlobsLeft
  /\ IF head \in Target
       THEN branch' = [branch EXCEPT ![head].removed = @ \cup index]
            /\ UNCHANGED loose
       ELSE loose' = WorkTree /\ UNCHANGED branch
  /\ index' = {}
  /\ Goto("patches")
  /\ UNCHANGED <<cloned, origin, head, amLeft, built, released, faults>>

NextPatch == PatchList[target][step]

PatchesLeft == step <= Len(PatchList[target])

ApplyPatch ==
  /\ stage = "patches"
  /\ PatchesLeft
  /\ NextPatch \notin branch[target].patched
  /\ ~amLeft
  /\ Attach(target)
  /\ branch' = [branch EXCEPT ![target].patched = @ \cup {NextPatch}]
  /\ step' = step + 1
  /\ UNCHANGED <<cloned, origin, index, amLeft,
                 stage, target, outcome, built, released, faults>>

\* Mutant: a patch that does not apply is tried again.
ApplyPatchAgain ==
  /\ stage = "patches"
  /\ PatchesLeft
  /\ NextPatch \in branch[target].patched \/ amLeft
  /\ UNCHANGED vars

(* The patch is there already, so `git apply --check` refuses it; or       *)
(* `git am` finds a session of another run, which `git am --abort` ends.   *)
ApplyPatchFails ==
  /\ stage = "patches"
  /\ PatchesLeft
  /\ Attach(target)
  /\ \/ NextPatch \in branch[target].patched /\ UNCHANGED amLeft
     \/ NextPatch \notin branch[target].patched /\ amLeft /\ amLeft' = FALSE
  /\ End("failed")
  /\ UNCHANGED <<cloned, origin, branch, index, built, released, faults>>

PrepareDone ==
  /\ stage = "patches"
  /\ ~PatchesLeft
  /\ End("ok")
  /\ UNCHANGED <<repoVars, built, released, faults>>

-----------------------------------------------------------------------------
(* update                                                                  *)

(* update_check always fails for a git repository, so update always runs.  *)
Update(t) ==
  /\ stage = "idle"
  /\ cloned
  /\ Begin(t, "fetch")
  /\ UNCHANGED <<repoVars, built, released, faults>>

Fetch ==
  /\ stage = "fetch"
  /\ origin' \in Base
  /\ Goto("detach")
  /\ UNCHANGED <<cloned, branch, head, loose, index, amLeft,
                 built, released, faults>>

\* Mutant: HEAD stays where it is.
CheckoutOriginSkipped ==
  /\ stage = "detach"
  /\ Goto("delete")
  /\ UNCHANGED <<cloned, origin, branch, head, loose, index, amLeft,
                 built, released, faults>>

(* `git checkout origin/HEAD`, so that the branch can be deleted.          *)
CheckoutOrigin ==
  /\ stage = "detach"
  /\ head' = Detached
  /\ loose' = Pristine(origin)
  /\ CarryIndex(loose')
  /\ Goto("delete")
  /\ UNCHANGED <<cloned, origin, branch, amLeft, built, released, faults>>

BranchDelete ==
  /\ stage = "delete"
  /\ branch' = [branch EXCEPT ![target] = NoTree]
  /\ Goto("branch")
  /\ UNCHANGED <<cloned, origin, head, loose, index, amLeft,
                 built, released, faults>>

-----------------------------------------------------------------------------
(* build and release                                                       *)

(* git_project_checkout does nothing, and says so to nobody, when the      *)
(* target has no branch: HEAD stays where the last action left it.         *)
Checkout(t) ==
  IF BranchExists(t)
    THEN Attach(t) /\ CarryIndex(branch[t])
    ELSE UNCHANGED <<head, loose, index>>

\* Mutant: the tree is read without checking the branch out.
TreeReadAsIs(t) == WorkTree

TreeRead(t) ==
  IF BranchExists(t)
    THEN [branch[t] EXCEPT !.removed = @ \cup index]
    ELSE WorkTree

Build(t) ==
  /\ stage = "idle"
  /\ cloned
  /\ Checkout(t)
  /\ built' = [built EXCEPT ![t] = TreeRead(t)]
  /\ UNCHANGED <<cloned, origin, branch, amLeft, jobVars,
                 released, faults>>

(* The archive is written once: its existence is the whole release check.  *)
Release(t) ==
  /\ stage = "idle"
  /\ BranchExists(t)
  /\ released[t] = NoTree
  /\ Checkout(t)
  /\ released' = [released EXCEPT ![t] = TreeRead(t)]
  /\ UNCHANGED <<cloned, origin, branch, amLeft, jobVars,
                 built, faults>>

-----------------------------------------------------------------------------
\* Mutant: `set -e` is not in effect, and the failure goes unnoticed.
InterruptUnnoticed ==
  /\ stage # "idle"
  /\ faults > 0
  /\ faults' = faults - 1
  /\ End("ok")
  /\ UNCHANGED <<repoVars, built, released>>

(* A command fails or the user interrupts it; `set -e` ends the action.    *)
(* A killed `git am` may leave its session behind.                         *)
Interrupt ==
  /\ stage # "idle"
  /\ faults > 0
  /\ faults' = faults - 1
  /\ End("failed")
  /\ IF stage = "patches" /\ PatchesLeft
       THEN amLeft' \in {amLeft, TRUE}
       ELSE UNCHANGED amLeft
  /\ UNCHANGED <<cloned, origin, branch, head, loose, index, built, released>>

Advance ==
  \/ Clone \/ BranchCreate \/ BranchCreateFails \/ ResetToRevision
  \/ RemoveBlob \/ RemoveBlobFails \/ CommitBlobs
  \/ ApplyPatch \/ ApplyPatchFails \/ PrepareDone
  \/ Fetch \/ CheckoutOrigin \/ BranchDelete

Request(t) ==
  DownloadSkipped(t) \/ Download(t) \/ Update(t) \/ Build(t) \/ Release(t)

Next == Advance \/ Interrupt \/ \E t \in Target : Request(t)

Spec == Init /\ [][Next]_vars

(* A command that was started keeps running; nobody has to start one.      *)
FairSpec == Spec /\ WF_vars(Advance)

-----------------------------------------------------------------------------
(* Properties                                                              *)

\* A download or update that ran to its end left on the target's branch
\* exactly the tree its configuration describes -- whatever failed before it,
\* and whatever the other targets of the repository did since.
PreparedIsExact ==
  \A t \in Target :
    outcome[t] = "ok" /\ HasRevision(t) => branch[t] = Prepared(t)

\* Removing blobs and applying patches commit to HEAD, and HEAD is shared by
\* all targets: still, no step ever writes to the branch of a target other
\* than the one the running action is for.
BranchIsolation ==
  [][\A t \in Target : branch'[t] # branch[t] => stage # "idle" /\ target = t]_vars

\* As long as no removal is left staged, a build or a release of a target that
\* was prepared reads the tree its configuration describes.  With removals of
\* another target's failed preparation in the index, build compiles without
\* those blobs: the code does not look, and this property leaves it out.
ReadsPrepared ==
  [][\A t \in Target :
       /\ built'[t] # built[t] \/ released'[t] # released[t]
       /\ outcome[t] = "ok" /\ HasRevision(t) /\ index = {}
       => /\ built'[t] # built[t] => built'[t] = Prepared(t)
          /\ released'[t] # released[t] => released'[t] = Prepared(t)]_vars

\* Every action ends.
ActionEnds == stage # "idle" ~> stage = "idle"

\* Whatever earlier failures left in the repository -- a half-prepared branch,
\* staged removals -- running the action again prepares the target, once
\* nothing fails any more and no `git am` session is left to abort.
RetryRecovers ==
  \A t \in Target :
    (/\ stage = "branch" /\ target = t /\ cloned
     /\ HasRevision(t) /\ faults = 0 /\ ~amLeft)
      ~> (outcome[t] = "ok" /\ branch[t] = Prepared(t))

-----------------------------------------------------------------------------
(* The abstract specification: git's branches are the registers, and the   *)
(* action that runs is the owner of its target's.                          *)
Describes(t, tree) == HasRevision(t) => tree = Prepared(t)

Abstract == INSTANCE PreparedSources WITH
  Sources <- Tree, Nothing <- NoTree, Nobody <- Detached,
  sources <- branch,
  ready   <- {t \in Target : outcome[t] = "ok"},
  owner   <- IF stage = "idle" THEN Detached ELSE target

\* The shared repository implements one private register of sources per
\* target, through every interleaving of the targets' actions and failures.
ImplementsPreparedSources == Abstract!Spec
=============================================================================
