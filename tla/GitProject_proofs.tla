---------------------------- MODULE GitProject_proofs ----------------------------
(***************************************************************************)
(* Theorems about GitProject, for every set of targets, every revision,    *)
(* blobs and patches configuration and every number of faults.             *)
(*                                                                         *)
(* The argument: preparing writes to HEAD, so the inductive invariant says *)
(* that from the creation of the branch to the end of the preparation HEAD *)
(* is on the branch of the running action's target (HeadInv), and that the *)
(* branch and the index are at each step exactly the prefix of the         *)
(* configuration worked through so far (ProgressInv).                      *)
(***************************************************************************)
EXTENDS GitProject, TLAPS

Preparing == {"reset", "blobs", "patches"}

RunningInv == stage # "idle" => outcome[target] = "running"

HeadInv ==
  /\ stage \in Preparing => cloned /\ head = target /\ branch[target] \in Tree
  /\ stage = "delete" => head = Detached
  /\ stage = "reset" => HasRevision(target)

ProgressInv ==
  /\ stage = "blobs" =>
       /\ step <= Len(BlobList[target]) + 1
       /\ HasRevision(target) =>
            /\ branch[target] = Pristine(Revision[target])
            /\ index = Listed(BlobList[target], step - 1)
  /\ stage = "patches" =>
       /\ step <= Len(PatchList[target]) + 1
       /\ HasRevision(target) =>
            branch[target] = [Prepared(target) EXCEPT
                                !.patched = Listed(PatchList[target], step - 1)]

IInv == TypeOK /\ RunningInv /\ HeadInv /\ ProgressInv /\ PreparedIsExact

-----------------------------------------------------------------------------
(* Lemmas about trees and prefixes of the configured lists.                *)

LEMMA ListedType ==
  ASSUME NEW S, NEW s \in Seq(S), NEW n \in Nat, n <= Len(s)
  PROVE  Listed(s, n) \subseteq S
  BY DEF Listed

LEMMA ListedStep ==
  ASSUME NEW S, NEW s \in Seq(S), NEW n \in Nat \ {0}, n <= Len(s)
  PROVE  Listed(s, n - 1) \cup {s[n]} = Listed(s, (n + 1) - 1)
  BY DEF Listed

LEMMA ListedNone ==
  ASSUME NEW S, NEW s \in Seq(S)
  PROVE  Listed(s, 1 - 1) = {}
  BY DEF Listed

LEMMA PristineType ==
  ASSUME NEW b \in Base
  PROVE  Pristine(b) \in Tree
  BY DEF Pristine, Tree

LEMMA PreparedType ==
  ASSUME NEW t \in Target, HasRevision(t)
  PROVE  Prepared(t) \in Tree
<1>1. Revision[t] \in Base
  BY ConfigAssumption DEF HasRevision
<1>2. /\ BlobList[t] \in Seq(Blob) /\ Len(BlobList[t]) \in Nat
      /\ PatchList[t] \in Seq(Patch) /\ Len(PatchList[t]) \in Nat
  BY ConfigAssumption
<1>3. Listed(BlobList[t], Len(BlobList[t])) \subseteq Blob
  BY <1>2, ListedType
<1>4. Listed(PatchList[t], Len(PatchList[t])) \subseteq Patch
  BY <1>2, ListedType
<1>5. QED
  BY <1>1, <1>3, <1>4 DEF Prepared, Tree

LEMMA HeadTreeType ==
  ASSUME TypeOK
  PROVE  HeadTree \in Tree /\ WorkTree \in Tree
<1>1. HeadTree \in Tree
  BY DEF TypeOK, HeadTree
<1>2. WorkTree \in Tree
  BY <1>1 DEF WorkTree, TypeOK, Tree
<1>3. QED
  BY <1>1, <1>2

(* Starting an action touches no branch, and no other target's outcome.    *)
LEMMA BeginKeeps ==
  ASSUME IInv, NEW t \in Target, NEW s \in {"clone", "branch", "fetch"},
         stage = "idle", Begin(t, s),
         UNCHANGED <<repoVars, built, released, faults>>
  PROVE  IInv'
<1> USE DEF IInv, Begin, repoVars
<1>1. TypeOK'
  BY DEF TypeOK, Stage, Outcome
<1>2. RunningInv'
  BY DEF RunningInv, TypeOK
<1>3. HeadInv' /\ ProgressInv'
  BY DEF HeadInv, ProgressInv, Preparing
<1>4. PreparedIsExact'
  BY DEF PreparedIsExact, TypeOK
<1>5. QED
  BY <1>1, <1>2, <1>3, <1>4

(* Ending an action in failure leaves the branches as they are.            *)
LEMMA FailureKeeps ==
  ASSUME IInv, stage # "idle", End("failed"),
         UNCHANGED <<cloned, origin, branch, built, released>>,
         TypeOK'
  PROVE  IInv'
<1> USE DEF IInv, End
<1>1. RunningInv' /\ HeadInv' /\ ProgressInv'
  BY DEF RunningInv, HeadInv, ProgressInv, Preparing
<1>2. PreparedIsExact'
  BY DEF PreparedIsExact, TypeOK
<1>3. QED
  BY <1>1, <1>2

LEMMA InitIInv == Init => IInv
<1> SUFFICES ASSUME Init PROVE IInv
  OBVIOUS
<1>1. TypeOK
  <2>1. Pristine(origin) \in Tree
    BY PristineType DEF Init
  <2>2. head = Detached /\ head \notin Target /\ loose \in Tree
    BY <2>1, TargetAssumption DEF Init
  <2>3. /\ branch \in [Target -> Tree \cup {NoTree}]
        /\ built \in [Target -> Tree \cup {NoTree}]
        /\ released \in [Target -> Tree \cup {NoTree}]
        /\ outcome \in [Target -> Outcome]
    BY DEF Init, Outcome
  <2>4. cloned \in BOOLEAN /\ amLeft \in BOOLEAN
    BY DEF Init
  <2>5. origin \in Base /\ index \in SUBSET Blob /\ target \in Target
    BY DEF Init
  <2>6. stage \in Stage /\ step \in Nat \ {0}
    BY DEF Init, Stage
  <2>7. faults \in Nat
    BY FaultAssumption DEF Init
  <2>8. QED
    BY <2>2, <2>3, <2>4, <2>5, <2>6, <2>7 DEF TypeOK
<1>2. RunningInv /\ HeadInv /\ ProgressInv /\ PreparedIsExact
  BY DEF Init, RunningInv, HeadInv, ProgressInv, Preparing, PreparedIsExact
<1>3. QED
  BY <1>1, <1>2 DEF IInv

-----------------------------------------------------------------------------
(* Every action keeps the invariant.                                       *)

LEMMA SkipKeeps ==
  ASSUME IInv, NEW t \in Target, DownloadSkipped(t)
  PROVE  IInv'
<1> USE DEF IInv, DownloadSkipped, repoVars
<1>1. TypeOK'
  BY DEF TypeOK, Outcome
<1>2. RunningInv' /\ HeadInv' /\ ProgressInv'
  BY DEF RunningInv, HeadInv, ProgressInv, Preparing
<1>3. PreparedIsExact'
  BY DEF PreparedIsExact, TypeOK
<1>4. QED
  BY <1>1, <1>2, <1>3

LEMMA CloneKeeps ==
  ASSUME IInv, Clone
  PROVE  IInv'
<1> USE DEF IInv, Clone, Goto
<1>1. Pristine(origin) \in Tree
  BY PristineType DEF TypeOK
<1>2. TypeOK'
  BY <1>1, TargetAssumption DEF TypeOK, Stage
<1>3. RunningInv' /\ HeadInv' /\ ProgressInv' /\ PreparedIsExact'
  BY DEF RunningInv, HeadInv, ProgressInv, Preparing, PreparedIsExact
<1>4. QED
  BY <1>2, <1>3

LEMMA BranchCreateKeeps ==
  ASSUME IInv, BranchCreate
  PROVE  IInv'
<1> USE DEF IInv, BranchCreate, Goto, Attach
<1>1. HeadTree \in Tree
  BY HeadTreeType
<1>2. TypeOK'
  BY <1>1, TargetAssumption DEF TypeOK, Stage
<1>3. RunningInv'
  BY DEF RunningInv
<1>4. HeadInv'
  BY <1>1 DEF HeadInv, Preparing, HasRevision, TypeOK
<1>5. ProgressInv'
  BY ConfigAssumption DEF ProgressInv, TypeOK
<1>6. PreparedIsExact'
  BY DEF PreparedIsExact, RunningInv, TypeOK
<1>7. QED
  BY <1>2, <1>3, <1>4, <1>5, <1>6

LEMMA ResetKeeps ==
  ASSUME IInv, ResetToRevision
  PROVE  IInv'
<1> USE DEF IInv, ResetToRevision, Goto
<1>1. HasRevision(target) /\ cloned /\ head = target /\ target \in Target
  BY DEF HeadInv, Preparing, TypeOK
<1>2. Pristine(Revision[target]) \in Tree
  BY <1>1, PristineType, ConfigAssumption DEF HasRevision
<1>3. TypeOK'
  BY <1>1, <1>2 DEF TypeOK, Stage
<1>4. RunningInv' /\ HeadInv'
  BY <1>1, <1>2 DEF RunningInv, HeadInv, Preparing, TypeOK
<1>5. ProgressInv'
  <2>1. Listed(BlobList[target], 1 - 1) = {}
    BY <1>1, ListedNone, ConfigAssumption
  <2>2. Len(BlobList[target]) \in Nat
    BY <1>1, ConfigAssumption
  <2>3. QED
    BY <1>1, <2>1, <2>2 DEF ProgressInv, TypeOK
<1>6. PreparedIsExact'
  BY DEF PreparedIsExact, RunningInv, TypeOK
<1>7. QED
  BY <1>3, <1>4, <1>5, <1>6

LEMMA RemoveBlobKeeps ==
  ASSUME IInv, RemoveBlob
  PROVE  IInv'
<1> USE DEF IInv, RemoveBlob
<1>1. /\ target \in Target /\ BlobList[target] \in Seq(Blob)
      /\ step \in Nat \ {0} /\ step <= Len(BlobList[target])
  BY ConfigAssumption DEF TypeOK, BlobsLeft
<1>2. NextBlob \in Blob
  BY <1>1 DEF NextBlob
<1>3. TypeOK'
  BY <1>2 DEF TypeOK
<1>4. RunningInv' /\ HeadInv'
  BY DEF RunningInv, HeadInv, Preparing
<1>5. ProgressInv'
  <2>1. Listed(BlobList[target], step - 1) \cup {NextBlob}
          = Listed(BlobList[target], (step + 1) - 1)
    BY <1>1, ListedStep DEF NextBlob
  <2>2. QED
    BY <1>1, <2>1 DEF ProgressInv
<1>6. PreparedIsExact'
  BY DEF PreparedIsExact
<1>7. QED
  BY <1>3, <1>4, <1>5, <1>6

LEMMA CommitKeeps ==
  ASSUME IInv, CommitBlobs
  PROVE  IInv'
<1> USE DEF IInv, CommitBlobs, Goto
<1>1. /\ target \in Target /\ head = target /\ branch[target] \in Tree
      /\ index \subseteq Blob /\ cloned
  BY DEF HeadInv, Preparing, TypeOK
<1> DEFINE tree == [branch[target] EXCEPT !.removed = @ \cup index]
<1>2. branch' = [branch EXCEPT ![target] = tree] /\ UNCHANGED loose
  BY <1>1
<1>3. tree \in Tree
  BY <1>1 DEF Tree
<1> HIDE DEF tree
<1>4. TypeOK'
  BY <1>1, <1>2, <1>3 DEF TypeOK, Stage
<1>5. RunningInv' /\ HeadInv'
  BY <1>1, <1>2, <1>3 DEF RunningInv, HeadInv, Preparing, TypeOK
<1>6. ProgressInv'
  <2>1. BlobList[target] \in Seq(Blob) /\ PatchList[target] \in Seq(Patch)
    BY <1>1, ConfigAssumption
  <2>2. step = Len(BlobList[target]) + 1
    BY <2>1 DEF BlobsLeft, ProgressInv, TypeOK
  <2>3. Listed(PatchList[target], 1 - 1) = {}
    BY <2>1, ListedNone
  <2>4. ASSUME HasRevision(target)
        PROVE  tree = [Prepared(target) EXCEPT
                         !.patched = Listed(PatchList[target], 1 - 1)]
    <3>1. branch[target] = Pristine(Revision[target])
      BY <2>4 DEF ProgressInv
    <3>2. index = Listed(BlobList[target], Len(BlobList[target]))
      BY <2>1, <2>2, <2>4 DEF ProgressInv
    <3>3. tree = [base |-> Revision[target], removed |-> index, patched |-> {}]
      BY ONLY <3>1 DEF tree, Pristine
    <3>4. [Prepared(target) EXCEPT !.patched = {}]
            = [base |-> Revision[target], removed |-> index, patched |-> {}]
      <4> DEFINE all == Listed(PatchList[target], Len(PatchList[target]))
      <4>1. Prepared(target)
              = [base |-> Revision[target], removed |-> index, patched |-> all]
        BY ONLY <3>2 DEF Prepared
      <4> HIDE DEF all
      <4>2. QED
        BY ONLY <4>1
    <3>5. QED
      BY ONLY <3>3, <3>4, <2>3
  <2>5. QED
    BY <1>1, <1>2, <2>1, <2>4 DEF ProgressInv, TypeOK
<1>7. PreparedIsExact'
  BY <1>1, <1>2 DEF PreparedIsExact, RunningInv, TypeOK
<1>8. QED
  BY <1>4, <1>5, <1>6, <1>7

LEMMA ApplyPatchKeeps ==
  ASSUME IInv, ApplyPatch
  PROVE  IInv'
<1> USE DEF IInv, ApplyPatch, Attach
<1>1. /\ target \in Target /\ head = target /\ branch[target] \in Tree
      /\ cloned /\ PatchList[target] \in Seq(Patch)
      /\ step \in Nat \ {0} /\ step <= Len(PatchList[target])
  BY ConfigAssumption DEF HeadInv, Preparing, TypeOK, PatchesLeft
<1>2. NextPatch \in Patch
  BY <1>1 DEF NextPatch
<1> DEFINE tree == [branch[target] EXCEPT !.patched = @ \cup {NextPatch}]
<1>3. branch' = [branch EXCEPT ![target] = tree]
  BY <1>1
<1>4. tree \in Tree
  BY <1>1, <1>2 DEF Tree
<1> HIDE DEF tree
<1>5. TypeOK'
  <2>1. branch' \in [Target -> Tree \cup {NoTree}] /\ branch'[target] \in Tree
    BY <1>1, <1>3, <1>4 DEF TypeOK
  <2>2. head' = target /\ target # Detached /\ loose' = NoTree
    BY <1>1, TargetAssumption
  <2>3. step' \in Nat \ {0}
    BY <1>1
  <2>4. QED
    BY <1>1, <2>1, <2>2, <2>3 DEF TypeOK
<1>6. RunningInv' /\ HeadInv'
  BY <1>1, <1>3, <1>4 DEF RunningInv, HeadInv, Preparing, TypeOK
<1>7. ProgressInv'
  <2>1. Listed(PatchList[target], step - 1) \cup {NextPatch}
          = Listed(PatchList[target], (step + 1) - 1)
    BY <1>1, ListedStep DEF NextPatch
  <2>2. ASSUME HasRevision(target)
        PROVE  tree = [Prepared(target) EXCEPT
                         !.patched = Listed(PatchList[target], (step + 1) - 1)]
    BY <2>1, <2>2 DEF tree, ProgressInv, Prepared
  <2>3. branch'[target] = tree
    BY <1>1, <1>3 DEF TypeOK
  <2>4. step' <= Len(PatchList[target]) + 1
    BY <1>1
  <2>5. stage' = "patches" /\ target' = target /\ step' = step + 1
    OBVIOUS
  <2>6. QED
    BY <2>2, <2>3, <2>4, <2>5 DEF ProgressInv
<1>8. PreparedIsExact'
  BY <1>1, <1>3 DEF PreparedIsExact, RunningInv, TypeOK
<1>9. QED
  BY <1>5, <1>6, <1>7, <1>8

LEMMA DoneKeeps ==
  ASSUME IInv, PrepareDone
  PROVE  IInv'
<1> USE DEF IInv, PrepareDone, End, repoVars
<1>1. TypeOK'
  BY DEF TypeOK, Stage, Outcome
<1>2. RunningInv' /\ HeadInv' /\ ProgressInv'
  BY DEF RunningInv, HeadInv, ProgressInv, Preparing
<1>3. PreparedIsExact'
  <2>1. target \in Target /\ PatchList[target] \in Seq(Patch)
    BY ConfigAssumption DEF TypeOK
  <2>2. step = Len(PatchList[target]) + 1
    BY <2>1 DEF PatchesLeft, ProgressInv, TypeOK
  <2>3. HasRevision(target) => branch[target] = Prepared(target)
    BY <2>1, <2>2 DEF ProgressInv, Prepared
  <2>4. QED
    BY <2>1, <2>3 DEF PreparedIsExact, TypeOK
<1>4. QED
  BY <1>1, <1>2, <1>3

LEMMA FailsKeeps ==
  ASSUME IInv,
         BranchCreateFails \/ RemoveBlobFails \/ ApplyPatchFails \/ Interrupt
  PROVE  IInv'
<1>1. stage # "idle" /\ End("failed")
  BY DEF BranchCreateFails, RemoveBlobFails, ApplyPatchFails, Interrupt
<1>2. UNCHANGED <<cloned, origin, branch, built, released>>
  BY DEF BranchCreateFails, RemoveBlobFails, ApplyPatchFails, Interrupt,
         repoVars
<1>3. TypeOK'
  <2>1. CASE BranchCreateFails \/ RemoveBlobFails
    BY <2>1 DEF IInv, TypeOK, End, Stage, Outcome, repoVars,
                BranchCreateFails, RemoveBlobFails
  <2>2. CASE ApplyPatchFails
    <3>1. /\ head' = target /\ loose' = NoTree /\ target # Detached
          /\ target \in Target /\ branch[target] \in Tree
      BY <2>2, TargetAssumption
      DEF IInv, TypeOK, HeadInv, Preparing, Attach, ApplyPatchFails
    <3>2. amLeft' \in BOOLEAN /\ index' = index /\ faults' = faults
      BY <2>2 DEF IInv, TypeOK, ApplyPatchFails
    <3>3. stage' \in Stage /\ outcome' \in [Target -> Outcome]
      BY <1>1 DEF IInv, TypeOK, End, Stage, Outcome
    <3>4. QED
      BY <1>1, <1>2, <3>1, <3>2, <3>3 DEF IInv, TypeOK, End
  <2>3. CASE Interrupt
    <3>1. UNCHANGED <<head, loose, index>>
      BY <2>3 DEF Interrupt
    <3>2. faults' \in Nat
      BY <2>3 DEF Interrupt, IInv, TypeOK
    <3>3. amLeft' \in BOOLEAN
      BY <2>3 DEF Interrupt, IInv, TypeOK
    <3>4. stage' \in Stage /\ outcome' \in [Target -> Outcome]
      BY <1>1 DEF IInv, TypeOK, End, Stage, Outcome
    <3>5. QED
      BY <1>1, <1>2, <3>1, <3>2, <3>3, <3>4 DEF IInv, TypeOK, End
  <2>4. QED
    BY <2>1, <2>2, <2>3
<1>4. QED
  BY <1>1, <1>2, <1>3, FailureKeeps

LEMMA UpdateKeeps ==
  ASSUME IInv, Fetch \/ CheckoutOrigin
  PROVE  IInv'
<1>1. Pristine(origin) \in Tree
  BY PristineType DEF IInv, TypeOK
<1>2. TypeOK'
  BY <1>1, TargetAssumption
  DEF IInv, TypeOK, Fetch, CheckoutOrigin, CarryIndex, Goto, Stage
<1>3. RunningInv' /\ HeadInv' /\ ProgressInv' /\ PreparedIsExact'
  BY DEF IInv, RunningInv, HeadInv, ProgressInv, Preparing, PreparedIsExact,
         Fetch, CheckoutOrigin, Goto
<1>4. QED
  BY <1>2, <1>3 DEF IInv

LEMMA DeleteKeeps ==
  ASSUME IInv, BranchDelete
  PROVE  IInv'
<1> USE DEF IInv, BranchDelete, Goto
<1>1. head = Detached /\ head \notin Target
  BY TargetAssumption DEF HeadInv
<1>2. TypeOK'
  BY <1>1 DEF TypeOK, Stage
<1>3. RunningInv' /\ HeadInv' /\ ProgressInv'
  BY DEF RunningInv, HeadInv, ProgressInv, Preparing
<1>4. PreparedIsExact'
  BY DEF PreparedIsExact, RunningInv, TypeOK
<1>5. QED
  BY <1>2, <1>3, <1>4

LEMMA TreeReadType ==
  ASSUME TypeOK, NEW t \in Target
  PROVE  TreeRead(t) \in Tree
<1>1. CASE BranchExists(t)
  <2>1. branch[t] \in Tree /\ index \subseteq Blob
    BY <1>1 DEF BranchExists, TypeOK
  <2>2. [branch[t] EXCEPT !.removed = @ \cup index] \in Tree
    BY <2>1 DEF Tree
  <2>3. QED
    BY <1>1, <2>2 DEF TreeRead
<1>2. CASE ~BranchExists(t)
  BY <1>2, HeadTreeType DEF TreeRead
<1>3. QED
  BY <1>1, <1>2

LEMMA ReadKeeps ==
  ASSUME IInv, NEW t \in Target, Build(t) \/ Release(t)
  PROVE  IInv'
<1>1. TreeRead(t) \in Tree
  BY TreeReadType DEF IInv
<1>2. stage = "idle" /\ Checkout(t)
  BY DEF Build, Release
<1>3. UNCHANGED <<cloned, origin, branch, amLeft, jobVars, faults>>
  BY DEF Build, Release
<1>4. /\ built' \in [Target -> Tree \cup {NoTree}]
      /\ released' \in [Target -> Tree \cup {NoTree}]
  BY <1>1 DEF IInv, TypeOK, Build, Release
<1>5. /\ head' \in Target \cup {Detached}
      /\ head' \in Target => branch[head'] \in Tree
      /\ loose' \in Tree \cup {NoTree}
      /\ head' = Detached => loose' \in Tree
      /\ index' \in SUBSET Blob
  BY <1>2, TargetAssumption
  DEF IInv, TypeOK, Checkout, BranchExists, Attach, CarryIndex
<1>6. TypeOK'
  BY <1>3, <1>4, <1>5 DEF IInv, TypeOK, jobVars
<1>7. RunningInv' /\ HeadInv' /\ ProgressInv' /\ PreparedIsExact'
  BY <1>2, <1>3 DEF IInv, RunningInv, HeadInv, ProgressInv, Preparing,
                    PreparedIsExact, jobVars
<1>8. QED
  BY <1>6, <1>7 DEF IInv

LEMMA StutterKeeps ==
  ASSUME IInv, UNCHANGED vars
  PROVE  IInv'
  BY DEF IInv, TypeOK, RunningInv, HeadInv, ProgressInv, Preparing,
         PreparedIsExact, vars, repoVars, jobVars

LEMMA IInvStep == IInv /\ [Next]_vars => IInv'
<1> SUFFICES ASSUME IInv, [Next]_vars PROVE IInv'
  OBVIOUS
<1>1. ASSUME NEW t \in Target, Request(t) PROVE IInv'
  <2>1. CASE DownloadSkipped(t)
    BY <2>1, SkipKeeps
  <2>2. CASE Download(t)
    BY <2>2, BeginKeeps DEF Download
  <2>3. CASE Update(t)
    BY <2>3, BeginKeeps DEF Update
  <2>4. CASE Build(t) \/ Release(t)
    BY <2>4, ReadKeeps
  <2>5. QED
    BY <1>1, <2>1, <2>2, <2>3, <2>4 DEF Request
<1>2. CASE Advance
  BY <1>2, CloneKeeps, BranchCreateKeeps, ResetKeeps, RemoveBlobKeeps,
     CommitKeeps, ApplyPatchKeeps, DoneKeeps, FailsKeeps, UpdateKeeps,
     DeleteKeeps
  DEF Advance
<1>3. CASE Interrupt
  BY <1>3, FailsKeeps
<1>4. CASE UNCHANGED vars
  BY <1>4, StutterKeeps
<1>5. QED
  BY <1>1, <1>2, <1>3, <1>4 DEF Next

LEMMA Invariance == Spec => []IInv
  BY InitIInv, IInvStep, PTL DEF Spec

-----------------------------------------------------------------------------
(* The theorems.                                                           *)

\* Every state of the repository and of the running action is well formed.
THEOREM TypeCorrect == Spec => []TypeOK
<1>1. IInv => TypeOK
  BY DEF IInv
<1>2. QED
  BY <1>1, Invariance, PTL

\* Whatever failed, and whatever the other targets did: a target whose last
\* preparation succeeded has exactly the tree its configuration describes.
THEOREM PreparedExactly == Spec => []PreparedIsExact
<1>1. IInv => PreparedIsExact
  BY DEF IInv
<1>2. QED
  BY <1>1, Invariance, PTL

(* A step writes to the branch of the running action's target at most.     *)
LEMMA WritesOwnBranch ==
  ASSUME IInv, [Next]_vars, NEW t \in Target, branch'[t] # branch[t]
  PROVE  stage # "idle" /\ target = t
<1>1. stage \in Preparing => head = target
  BY DEF IInv, HeadInv
<1>2. target \in Target /\ branch \in [Target -> Tree \cup {NoTree}]
  BY DEF IInv, TypeOK
<1>3. CASE BranchCreate
  BY <1>2, <1>3 DEF BranchCreate
<1>4. CASE ResetToRevision
  BY <1>2, <1>4 DEF ResetToRevision
<1>5. CASE CommitBlobs
  BY <1>1, <1>2, <1>5 DEF CommitBlobs, Preparing
<1>6. CASE ApplyPatch
  BY <1>2, <1>6 DEF ApplyPatch
<1>7. CASE BranchDelete
  BY <1>2, <1>7 DEF BranchDelete
<1>8. CASE \/ Clone \/ BranchCreateFails \/ RemoveBlob \/ RemoveBlobFails
           \/ ApplyPatchFails \/ PrepareDone \/ Fetch \/ CheckoutOrigin
           \/ Interrupt
  BY <1>8 DEF Clone, BranchCreateFails, RemoveBlob, RemoveBlobFails,
              ApplyPatchFails, PrepareDone, Fetch, CheckoutOrigin, Interrupt,
              repoVars
<1>9. CASE \E u \in Target : Request(u)
  BY <1>9 DEF Request, DownloadSkipped, Download, Update, Build, Release,
              repoVars
<1>10. CASE UNCHANGED vars
  BY <1>10 DEF vars, repoVars
<1>11. QED
  BY <1>3, <1>4, <1>5, <1>6, <1>7, <1>8, <1>9, <1>10 DEF Next, Advance

\* Whatever HEAD is on, an action writes to no other target's branch.
THEOREM BranchesIsolated == Spec => BranchIsolation
<1>1. IInv /\ [Next]_vars
        => [\A t \in Target :
              branch'[t] # branch[t] => stage # "idle" /\ target = t]_vars
  BY WritesOwnBranch
<1>2. QED
  BY <1>1, Invariance, PTL DEF Spec, BranchIsolation

(* Only Build and Release change what was built and released.              *)
LEMMA ReadersOnly ==
  ASSUME IInv, [Next]_vars, NEW t \in Target,
         built'[t] # built[t] \/ released'[t] # released[t]
  PROVE  \/ /\ Build(t) /\ built'[t] = TreeRead(t)
            /\ released' = released
         \/ /\ Release(t) /\ released'[t] = TreeRead(t)
            /\ built' = built
<1>1. /\ built \in [Target -> Tree \cup {NoTree}]
      /\ released \in [Target -> Tree \cup {NoTree}]
  BY DEF IInv, TypeOK
<1>2. CASE Advance \/ Interrupt
  BY <1>2 DEF Advance, Clone, BranchCreate, BranchCreateFails, Interrupt,
              ResetToRevision, RemoveBlob, RemoveBlobFails, CommitBlobs,
              ApplyPatch, ApplyPatchFails, PrepareDone, Fetch, CheckoutOrigin,
              BranchDelete
<1>3. ASSUME NEW u \in Target, Request(u)
      PROVE  (Build(t) \/ Release(t)) /\ u = t
  <2>1. CASE DownloadSkipped(u) \/ Download(u) \/ Update(u)
    BY <2>1 DEF DownloadSkipped, Download, Update
  <2>2. CASE Build(u)
    BY <1>1, <2>2 DEF Build
  <2>3. CASE Release(u)
    BY <1>1, <2>3 DEF Release
  <2>4. QED
    BY <1>3, <2>1, <2>2, <2>3 DEF Request
<1>4. CASE UNCHANGED vars
  BY <1>4 DEF vars
<1>5. Build(t) \/ Release(t)
  BY <1>2, <1>3, <1>4 DEF Next
<1>6. Build(t) => built'[t] = TreeRead(t) /\ released' = released
  BY <1>1 DEF Build
<1>7. Release(t) => released'[t] = TreeRead(t) /\ built' = built
  BY <1>1 DEF Release
<1>8. QED
  BY <1>5, <1>6, <1>7

(* With nothing staged, a prepared target is read as its branch is.        *)
LEMMA ReadIsBranch ==
  ASSUME IInv, NEW t \in Target, cloned, HasRevision(t),
         outcome[t] = "ok", index = {}
  PROVE  TreeRead(t) = Prepared(t)
<1>1. branch[t] = Prepared(t)
  BY DEF IInv, PreparedIsExact
<1>2. branch[t] \in Tree
  BY <1>1, PreparedType
<1>3. BranchExists(t)
  BY <1>2, NoTreeAssumption DEF BranchExists
<1>4. [branch[t] EXCEPT !.removed = @ \cup {}] = branch[t]
  BY <1>2 DEF Tree
<1>5. QED
  BY <1>1, <1>3, <1>4 DEF TreeRead

\* With no removal staged, what is built or released of a prepared target is
\* what its configuration describes.
THEOREM ReadsPreparedSources == Spec => ReadsPrepared
<1>1. ASSUME IInv, [Next]_vars, NEW t \in Target,
             built'[t] # built[t] \/ released'[t] # released[t],
             outcome[t] = "ok", HasRevision(t), index = {}
      PROVE  /\ built'[t] # built[t] => built'[t] = Prepared(t)
             /\ released'[t] # released[t] => released'[t] = Prepared(t)
  <2>1. cloned
    BY <1>1, ReadersOnly DEF Build, Release, BranchExists
  <2>2. TreeRead(t) = Prepared(t)
    BY <1>1, <2>1, ReadIsBranch
  <2>3. QED
    BY <1>1, <2>2, ReadersOnly
<1>2. IInv /\ [Next]_vars =>
        [\A t \in Target :
           /\ built'[t] # built[t] \/ released'[t] # released[t]
           /\ outcome[t] = "ok" /\ HasRevision(t) /\ index = {}
           => /\ built'[t] # built[t] => built'[t] = Prepared(t)
              /\ released'[t] # released[t]
                   => released'[t] = Prepared(t)]_vars
  BY <1>1
<1>3. QED
  BY <1>2, Invariance, PTL DEF Spec, ReadsPrepared

-----------------------------------------------------------------------------
(* Refinement: the repository with its branches, HEAD, index and failures  *)
(* implements the private registers of PreparedSources.                    *)

ready == {t \in Target : outcome[t] = "ok"}
owner == IF stage = "idle" THEN Detached ELSE target

LEMMA InitRefines == Init => Abstract!Init
  BY DEF Init, Abstract!Init

(* A step of the running action that does not end it.                      *)
LEMMA WorkRefines ==
  ASSUME IInv, IInv', stage # "idle", stage' # "idle",
         UNCHANGED <<target, outcome>>,
         NEW s \in Tree \cup {NoTree},
         branch' = [branch EXCEPT ![target] = s]
  PROVE  Abstract!Work
<1>1. owner # Detached /\ owner = target /\ owner' = target
  BY TargetAssumption DEF IInv, TypeOK, owner
<1>2. ready' = ready
  BY DEF ready
<1>3. QED
  BY <1>1, <1>2 DEF Abstract!Work, owner, ready

(* A step that moves HEAD or the index only is not seen.                   *)
LEMMA HiddenStep ==
  ASSUME UNCHANGED <<branch, outcome, target>>,
         (stage = "idle") = (stage' = "idle")
  PROVE  UNCHANGED Abstract!vars
<1>1. ready' = ready /\ owner' = owner
  BY DEF ready, owner
<1>2. QED
  BY <1>1 DEF Abstract!vars, ready, owner

LEMMA BeginRefines ==
  ASSUME IInv, NEW t \in Target, NEW s \in {"clone", "branch", "fetch"},
         stage = "idle", Begin(t, s), branch' = branch
  PROVE  Abstract!Start(t)
<1>1. owner = Detached /\ owner' = t
  BY DEF owner, Begin
<1>2. ready' = ready \ {t}
  BY DEF ready, Begin, IInv, TypeOK
<1>3. QED
  BY <1>1, <1>2 DEF Abstract!Start, owner, ready

LEMMA FailureRefines ==
  ASSUME IInv, stage # "idle", End("failed"), branch' = branch
  PROVE  Abstract!GiveUp
<1>1. owner # Detached /\ owner' = Detached
  BY TargetAssumption DEF owner, End, IInv, TypeOK
<1>2. ready' = ready
  BY DEF ready, End, IInv, TypeOK, RunningInv
<1>3. QED
  BY <1>1, <1>2 DEF Abstract!GiveUp, owner, ready

LEMMA DoneRefines ==
  ASSUME IInv, IInv', PrepareDone
  PROVE  Abstract!Finish
<1>1. target \in Target /\ stage # "idle" /\ End("ok") /\ branch' = branch
  BY DEF IInv, TypeOK, PrepareDone, repoVars
<1>2. owner = target /\ owner # Detached /\ owner' = Detached
  BY <1>1, TargetAssumption DEF owner, End
<1>3. ready' = ready \cup {target} /\ outcome'[target] = "ok"
  BY <1>1 DEF ready, End, IInv, TypeOK
<1>4. Describes(target, branch[target])
  BY <1>1, <1>3 DEF IInv, PreparedIsExact, Describes
<1>5. QED
  BY <1>1, <1>2, <1>3, <1>4 DEF Abstract!Finish, owner, ready

LEMMA StepRefines ==
  ASSUME IInv, IInv', [Next]_vars
  PROVE  [Abstract!Next]_(Abstract!vars)
<1>1. target \in Target /\ branch \in [Target -> Tree \cup {NoTree}]
  BY DEF IInv, TypeOK
<1>2. CASE BranchCreate
  <2>1. HeadTree \in Tree
    BY HeadTreeType DEF IInv
  <2>2. Abstract!Work
    BY <1>2, <2>1, WorkRefines DEF BranchCreate, Goto
  <2>3. QED
    BY <2>2 DEF Abstract!Next
<1>3. CASE ResetToRevision \/ CommitBlobs \/ ApplyPatch \/ BranchDelete
  <2>1. branch' \in [Target -> Tree \cup {NoTree}]
    BY DEF IInv, TypeOK
  <2>2. branch'[target] \in Tree \cup {NoTree}
    BY <1>1, <2>1
  <2>3. branch' = [branch EXCEPT ![target] = branch'[target]]
    <3>1. \A t \in Target : t # target => branch'[t] = branch[t]
      BY <1>3, WritesOwnBranch DEF Next
    <3>2. QED
      BY <1>1, <2>1, <3>1
  <2>4. stage # "idle" /\ stage' # "idle" /\ UNCHANGED <<target, outcome>>
    BY <1>3 DEF ResetToRevision, CommitBlobs, ApplyPatch, BranchDelete, Goto
  <2>5. Abstract!Work
    BY <2>2, <2>3, <2>4, WorkRefines
  <2>6. QED
    BY <2>5 DEF Abstract!Next
<1>4. CASE Clone \/ RemoveBlob \/ Fetch \/ CheckoutOrigin
  <2>1. UNCHANGED <<branch, outcome, target>>
    BY <1>4 DEF Clone, RemoveBlob, Fetch, CheckoutOrigin, Goto
  <2>2. stage # "idle" /\ stage' # "idle"
    BY <1>4 DEF Clone, RemoveBlob, Fetch, CheckoutOrigin, Goto
  <2>3. QED
    BY <2>1, <2>2, HiddenStep
<1>5. CASE BranchCreateFails \/ RemoveBlobFails \/ ApplyPatchFails
             \/ Interrupt
  <2>1. stage # "idle" /\ End("failed") /\ branch' = branch
    BY <1>5 DEF BranchCreateFails, RemoveBlobFails, ApplyPatchFails,
                Interrupt, repoVars
  <2>2. QED
    BY <2>1, FailureRefines DEF Abstract!Next
<1>6. CASE PrepareDone
  BY <1>6, DoneRefines DEF Abstract!Next
<1>7. ASSUME NEW t \in Target, Request(t)
      PROVE  [Abstract!Next]_(Abstract!vars)
  <2>1. CASE DownloadSkipped(t)
    <3>1. ready' = ready /\ owner' = owner /\ branch' = branch
      BY <2>1 DEF DownloadSkipped, ready, owner, repoVars, IInv, TypeOK
    <3>2. QED
      BY <3>1 DEF Abstract!vars, ready, owner
  <2>2. CASE Download(t) \/ Update(t)
    <3>1. Abstract!Start(t)
      BY <2>2, BeginRefines DEF Download, Update, repoVars
    <3>2. QED
      BY <3>1 DEF Abstract!Next
  <2>3. CASE Build(t) \/ Release(t)
    BY <2>3, HiddenStep DEF Build, Release, jobVars
  <2>4. QED
    BY <1>7, <2>1, <2>2, <2>3 DEF Request
<1>8. CASE UNCHANGED vars
  BY <1>8, HiddenStep DEF vars, repoVars, jobVars
<1>9. QED
  BY <1>2, <1>3, <1>4, <1>5, <1>6, <1>7, <1>8 DEF Next, Advance

\* Every behaviour of the shared repository, failures and interruptions
\* included, is one of the private registers.
THEOREM Refinement == Spec => ImplementsPreparedSources
<1>1. IInv /\ IInv' /\ [Next]_vars => [Abstract!Next]_(Abstract!vars)
  BY StepRefines
<1>2. QED
  BY InitRefines, <1>1, Invariance, PTL
  DEF Spec, ImplementsPreparedSources, Abstract!Spec
=============================================================================
