--------------------------- MODULE SourcesArchive_proofs ---------------------------
(***************************************************************************)
(* Theorems about the sources of a project that come from archives, for    *)
(* any project, names, archives, order of commands and number of failures. *)
(***************************************************************************)
EXTENDS SourcesArchive, FiniteSetTheorems, WellFoundedInduction, TLAPS

-----------------------------------------------------------------------------
(* The inductive invariant                                                 *)

(* Past the lookups of extract or update there is no repository and there  *)
(* is an archive; it is unpacked when it verifies or sources does not ask. *)
PhaseOK ==
  /\ phase \in {"verify", "untar", "remove"} =>
       ~IsGit /\ ArchiveAt(target) # None /\ command # "download"
  /\ phase = "remove" => Filled(target)
  /\ phase = "untar" => Verifies(Selected) \/ command = "sources"

(* With two names, what is left to unpack into is at most the project's.   *)
Cleared(t) == \A n \in At(t) : n = Root \/ dir[n] = None
ClearedOK == phase \in {"verify", "untar"} /\ Len(Chain[target]) <= 2 => Cleared(target)

IInv == TypeOK /\ PhaseOK /\ ClearedOK

-----------------------------------------------------------------------------
(* Lookups                                                                 *)

(* A set of positions has a last one: the strict subsets of the positions  *)
(* are well founded, and one of the sets of those from a member on is the  *)
(* least.                                                                  *)
LEMMA Last ==
  ASSUME NEW n \in Nat, NEW I \in SUBSET (1 .. n), I # {}
  PROVE  \E i \in I : \A j \in I : j <= i
<1> DEFINE up(i) == i .. n
<1> DEFINE ups == {up(i) : i \in I}
<1>1. IsWellFoundedOn(StrictSubsetOrdering(1 .. n), FiniteSubsetsOf(1 .. n))
  BY FS_StrictSubsetOrderingWellFounded
<1>2. ups \subseteq FiniteSubsetsOf(1 .. n)
  <2>1. ASSUME NEW i \in I PROVE up(i) \in FiniteSubsetsOf(1 .. n)
    <3>1. IsFiniteSet(up(i))
      BY FS_Interval
    <3>2. up(i) \subseteq 1 .. n
      OBVIOUS
    <3>3. QED
      BY <3>1, <3>2 DEF FiniteSubsetsOf
  <2>2. QED
    BY <2>1
<1>3. PICK u \in ups : \A v \in ups : <<v, u>> \notin StrictSubsetOrdering(1 .. n)
  <2>1. ups # {}
    OBVIOUS
  <2>2. QED
    BY <1>1, <1>2, <2>1, WFMin
<1>4. PICK i \in I : u = up(i)
  OBVIOUS
<1>5. ASSUME NEW j \in I, ~(j <= i) PROVE FALSE
  <2>1. up(j) \subseteq up(i) /\ i \notin up(j) /\ i \in up(i)
    BY <1>5
  <2>2. up(j) \subseteq 1 .. n /\ up(i) \subseteq 1 .. n /\ up(j) # up(i)
    BY <2>1
  <2>3. <<up(j), up(i)>> \in StrictSubsetOrdering(1 .. n)
    BY <2>1, <2>2 DEF StrictSubsetOrdering
  <2>4. QED
    BY <1>3, <1>4, <2>3
<1>6. QED
  BY <1>5

LEMMA ChainTypes ==
  ASSUME NEW t \in Target
  PROVE  /\ Len(Chain[t]) \in Nat /\ Len(Chain[t]) >= 1
         /\ \A i \in 1 .. Len(Chain[t]) : Chain[t][i] \in Node
         /\ Chain[t][1] = Root /\ At(t) \subseteq Node
         /\ Root \in At(t) /\ Chain[t][Len(Chain[t])] \in Node
<1>1. Chain[t] \in Seq(Node) /\ Chain[t] # <<>> /\ Chain[t][1] = Root
  BY ChainAssumption
<1>2. Len(Chain[t]) \in Nat /\ Len(Chain[t]) >= 1
  BY <1>1
<1>3. \A i \in 1 .. Len(Chain[t]) : Chain[t][i] \in Node
  BY <1>1
<1>4. QED
  BY <1>1, <1>2, <1>3 DEF At

LEMMA DepthTypes ==
  ASSUME NEW t \in Target, NEW n \in At(t)
  PROVE  Depth(t, n) \in 1 .. Len(Chain[t]) /\ Chain[t][Depth(t, n)] = n
<1>1. \E i \in 1 .. Len(Chain[t]) : Chain[t][i] = n
  BY DEF At
<1>2. QED
  BY <1>1 DEF Depth

(* The last name at which something exists is one of the target's at which *)
(* something exists, and none is more specific.                            *)
LEMMA DeepestIs ==
  ASSUME NEW t \in Target, NEW names, names \cap At(t) # {}
  PROVE  /\ Deepest(t, names) \in names \cap At(t)
         /\ \A m \in names \cap At(t) : Depth(t, m) <= Depth(t, Deepest(t, names))
<1> DEFINE here == names \cap At(t)
<1> DEFINE depths == {Depth(t, m) : m \in here}
<1>1. depths \in SUBSET (1 .. Len(Chain[t])) /\ depths # {}
  BY DepthTypes
<1>2. PICK d \in depths : \A e \in depths : e <= d
  <2>1. Len(Chain[t]) \in Nat
    BY ChainTypes
  <2> HIDE DEF depths
  <2>2. QED
    BY <1>1, <2>1, Last
<1>3. PICK n \in here : d = Depth(t, n)
  OBVIOUS
<1>4. n \in here /\ \A m \in here : Depth(t, m) <= Depth(t, n)
  BY <1>2, <1>3
<1>5. Deepest(t, names) = CHOOSE k \in here : \A m \in here : Depth(t, m) <= Depth(t, k)
  BY DEF Deepest
<1>6. QED
  BY <1>4, <1>5

LEMMA DeepestNone ==
  ASSUME NEW t \in Target, NEW names, Deepest(t, names) # None
  PROVE  names \cap At(t) # {}
  BY DEF Deepest

LEMMA ExtractedIs ==
  ASSUME NEW t \in Target, Extracted(t) # None
  PROVE  /\ Extracted(t) \in Node /\ Extracted(t) \in At(t)
         /\ dir[Extracted(t)] # None
         /\ \A m \in At(t) : dir[m] # None => Depth(t, m) <= Depth(t, Extracted(t))
<1> DEFINE names == {n \in Node : dir[n] # None}
<1>1. Extracted(t) = Deepest(t, names)
  BY DEF Extracted
<1>2. names \cap At(t) # {}
  BY <1>1, DeepestNone
<1>3. Deepest(t, names) \in names \cap At(t)
      /\ \A m \in names \cap At(t) : Depth(t, m) <= Depth(t, Deepest(t, names))
  BY <1>2, DeepestIs
<1>4. At(t) \subseteq Node
  BY ChainTypes
<1>5. QED
  BY <1>1, <1>3, <1>4

LEMMA OwnIs ==
  ASSUME NEW t \in Target, Own(t) # None
  PROVE  Own(t) \in Node
  BY DeepestNone, DeepestIs DEF Own

LEMMA ArchiveIs ==
  ASSUME NEW t \in Target, ArchiveAt(t) # None, archive \in [Node -> Archive \cup {None}]
  PROVE  ArchiveAt(t) \in Node /\ archive[ArchiveAt(t)] \in Archive
<1> DEFINE names == {n \in Node : archive[n] # None}
<1>1. ArchiveAt(t) = Deepest(t, names)
  BY DEF ArchiveAt
<1>2. ArchiveAt(t) \in names
  BY <1>1, DeepestNone, DeepestIs
<1>3. QED
  BY <1>2

(* Nothing is extracted exactly when all the target's directories are free.*)
LEMMA NothingExtracted ==
  ASSUME NEW t \in Target, Extracted(t) = None, None \notin Node
  PROVE  \A n \in At(t) : dir[n] = None
<1> DEFINE names == {n \in Node : dir[n] # None}
<1>1. SUFFICES ASSUME names \cap At(t) # {} PROVE FALSE
  BY ChainTypes
<1>2. Deepest(t, names) \in names
  BY <1>1, DeepestIs
<1>3. QED
  BY <1>2 DEF Extracted

-----------------------------------------------------------------------------
(* Trees                                                                   *)

LEMMA TreeTypes ==
  ASSUME NEW w \in BOOLEAN, NEW b \in BOOLEAN
  PROVE  /\ [whole |-> w, trusted |-> b] \in Tree
         /\ [whole |-> w, trusted |-> b].whole = w
         /\ [whole |-> w, trusted |-> b].trusted = b
         /\ Trusted([whole |-> w, trusted |-> b]) = b
         /\ [whole |-> w, trusted |-> b] # None
         /\ [whole |-> w, trusted |-> b] # Git
<1>1. [whole |-> w, trusted |-> b] \in Tree
  BY DEF Tree
<1>2. [whole |-> w, trusted |-> b].whole = w /\ [whole |-> w, trusted |-> b].trusted = b
  OBVIOUS
<1>3. Trusted([whole |-> w, trusted |-> b]) = b
  BY <1>1, <1>2, Zenon DEF Trusted
<1>4. QED
  BY <1>1, <1>2, <1>3, ValueAssumption

LEMMA NoTreeIsTrusted == Trusted(None) /\ Trusted(Git)
  BY ValueAssumption DEF Trusted

LEMMA SelectedIs ==
  ASSUME TypeOK, PhaseOK, phase \in {"verify", "untar", "remove"}
  PROVE  /\ Selected \in Archive /\ Verifies(Selected) \in BOOLEAN
         /\ Selected.whole \in BOOLEAN /\ Selected.top \in Node \cup {Elsewhere}
<1>1. Selected \in Archive
  BY ArchiveIs DEF TypeOK, PhaseOK, Selected
<1>2. QED
  BY <1>1 DEF Archive, Verifies

(* What unpacking changes: only the archive's directory, which becomes a   *)
(* tree, trusted when archive and old tree are.                            *)
LEMMA UnpackedIs ==
  ASSUME TypeOK, PhaseOK, phase = "untar", NEW w \in BOOLEAN
  PROVE  /\ Unpacked(w) \in [Node -> Tree \cup {None, Git}]
         /\ \A n \in Node : n # Selected.top => Unpacked(w)[n] = dir[n]
         /\ Selected.top \in Node =>
              /\ Unpacked(w)[Selected.top] \in Tree
              /\ Unpacked(w)[Selected.top].whole = w
              /\ Trusted(Unpacked(w)[Selected.top])
                   = (Verifies(Selected) /\ Trusted(dir[Selected.top]))
<1> DEFINE top == Selected.top
<1>1. CASE top = Elsewhere
  BY <1>1, ValueAssumption DEF Unpacked, TypeOK
<1>2. CASE top # Elsewhere
  <2> DEFINE b == Verifies(Selected) /\ Trusted(dir[top])
  <2> DEFINE tree == [whole |-> w, trusted |-> b]
  <2>1. top \in Node
    BY <1>2, SelectedIs
  <2>2. Unpacked(w) = [dir EXCEPT ![top] = tree]
    BY <1>2 DEF Unpacked
  <2>3. b \in BOOLEAN
    BY SelectedIs DEF Trusted
  <2>4. tree \in Tree /\ tree.whole = w /\ Trusted(tree) = b
    <3> HIDE DEF b
    <3>1. QED
      BY <2>3, TreeTypes
  <2>5. dir \in [Node -> Tree \cup {None, Git}]
    BY DEF TypeOK
  <2>6. Unpacked(w)[top] = tree
    BY <2>1, <2>2, <2>5
  <2>7. Unpacked(w) \in [Node -> Tree \cup {None, Git}]
        /\ \A n \in Node : n # top => Unpacked(w)[n] = dir[n]
    <3> HIDE DEF tree
    <3>1. QED
      BY <2>1, <2>2, <2>4, <2>5
  <2>8. QED
    BY <2>1, <2>4, <2>6, <2>7, Zenon
<1>3. QED
  BY <1>1, <1>2

(* What removing changes, with something there: the most specific sources. *)
LEMMA RemovedIs ==
  ASSUME TypeOK, PhaseOK, phase = "remove", NEW r \in Tree \cup {None}, Remove(r)
  PROVE  /\ dir' \in [Node -> Tree \cup {None, Git}]
         /\ own' \in [Node -> Tree \cup {None}]
         /\ Extracted(target) # None =>
              /\ Extracted(target) \in Node
              /\ dir'[Extracted(target)] = r
              /\ \A n \in Node : n # Extracted(target) => dir'[n] = dir[n]
         /\ Extracted(target) = None => dir' = dir
<1>1. target \in Target /\ dir \in [Node -> Tree \cup {None, Git}]
      /\ own \in [Node -> Tree \cup {None}]
  BY DEF TypeOK
<1>2. CASE Extracted(target) # None
  <2>1. dir' = [dir EXCEPT ![Extracted(target)] = r] /\ own' = own
    BY <1>2 DEF Remove
  <2>2. Extracted(target) \in Node
    BY <1>1, <1>2, ExtractedIs
  <2>3. QED
    BY <1>1, <1>2, <2>1, <2>2
<1>3. CASE Extracted(target) = None
  <2>1. own' = [own EXCEPT ![Own(target)] = r] /\ dir' = dir
    BY <1>3 DEF Remove
  <2>2. Own(target) \in Node
    BY <1>1, <1>3, OwnIs DEF PhaseOK, Filled
  <2>3. QED
    BY <1>1, <1>3, <2>1, <2>2
<1>4. QED
  BY <1>2, <1>3

(* A repository counts as filled sources of every target.                  *)
LEMMA GitIsFound ==
  ASSUME TypeOK, Extracted(target) = None
  PROVE  ~IsGit /\ Cleared(target)
<1>1. target \in Target
  BY DEF TypeOK
<1>2. \A n \in At(target) : dir[n] = None
  BY <1>1, NothingExtracted, ValueAssumption
<1>3. dir[Root] = None
  BY <1>1, <1>2, ChainTypes
<1>4. QED
  BY <1>2, <1>3, ValueAssumption DEF IsGit, Cleared

-----------------------------------------------------------------------------
(* Two names                                                               *)

LEMMA TwoNames ==
  ASSUME NEW t \in Target, Len(Chain[t]) <= 2, NEW m \in At(t), NEW n \in At(t),
         m # Root, Depth(t, m) <= Depth(t, n)
  PROVE  n = m
<1>1. /\ Depth(t, m) \in 1 .. Len(Chain[t]) /\ Chain[t][Depth(t, m)] = m
      /\ Depth(t, n) \in 1 .. Len(Chain[t]) /\ Chain[t][Depth(t, n)] = n
  BY DepthTypes
<1>2. Chain[t][1] = Root /\ Len(Chain[t]) \in Nat
  BY ChainTypes
<1>3. Depth(t, m) # 1
  BY <1>1, <1>2
<1>4. Depth(t, m) = 2 /\ Depth(t, n) = 2
  BY <1>1, <1>2, <1>3
<1>5. QED
  BY <1>1, <1>4

LEMMA RemovalClears ==
  ASSUME TypeOK, PhaseOK, phase = "remove", Remove(None), Len(Chain[target]) <= 2
  PROVE  \A n \in At(target) : n = Root \/ dir'[n] = None
<1>1. target \in Target
  BY DEF TypeOK
<1>2. SUFFICES ASSUME NEW n \in At(target), n # Root, dir'[n] # None PROVE FALSE
  OBVIOUS
<1>3. CASE Extracted(target) = None
  BY <1>2, <1>3, GitIsFound, RemovedIs DEF Cleared
<1>4. CASE Extracted(target) # None
  <2>1. n # Extracted(target) /\ n \in Node
    BY <1>1, <1>2, <1>4, RemovedIs, ChainTypes
  <2>2. dir[n] # None
    BY <1>2, <1>4, <2>1, RemovedIs
  <2>3. Extracted(target) \in At(target) /\ Depth(target, n) <= Depth(target, Extracted(target))
    BY <1>1, <1>4, <2>2, ExtractedIs
  <2>4. QED
    BY <1>1, <1>2, <2>1, <2>3, TwoNames
<1>5. QED
  BY <1>3, <1>4

(* Where nothing but the project's directory may be in the way, the tree   *)
(* just unpacked is the one that is found.                                 *)
LEMMA UnpackedIsFound ==
  ASSUME NEW t \in Target, Len(Chain[t]) <= 2, NEW d, NEW names, NEW top \in At(t),
         top \in names, \A n \in At(t) : n \in names => n = top \/ d[n] # None,
         \A n \in At(t) : n = Root \/ d[n] = None
  PROVE  Deepest(t, names) = top
<1> DEFINE found == Deepest(t, names)
<1>1. top \in names \cap At(t)
  OBVIOUS
<1>2. found \in names \cap At(t)
      /\ \A m \in names \cap At(t) : Depth(t, m) <= Depth(t, found)
  BY <1>1, DeepestIs
<1>3. SUFFICES ASSUME found # top PROVE FALSE
  OBVIOUS
<1>4. d[found] # None
  BY <1>2, <1>3
<1>5. found = Root
  BY <1>2, <1>4
<1>6. top # Root /\ Depth(t, top) <= Depth(t, found)
  BY <1>1, <1>2, <1>3, <1>5
<1>7. QED
  BY <1>2, <1>3, <1>6, TwoNames

-----------------------------------------------------------------------------
(* The invariant is inductive                                              *)

LEMMA InitIInv == Init => IInv
<1>1. SUFFICES ASSUME Init PROVE IInv
  OBVIOUS
<1>2. own \in [Node -> Tree \cup {None}]
  <2>1. [whole |-> TRUE, trusted |-> TRUE] \in Tree
    BY TreeTypes
  <2>2. PICK names \in SUBSET Owned :
          own = [n \in Node |-> IF n \in names
                                  THEN [whole |-> TRUE, trusted |-> TRUE] ELSE None]
    BY <1>1 DEF Init
  <2>3. QED
    BY <2>1, <2>2
<1>3. TypeOK
  <2>1. FaultBound \in Nat /\ Root \in Node
    BY ChainAssumption, OfferAssumption
  <2>2. \A n \in Node : dir[n] # Git
    BY <1>1, ValueAssumption DEF Init
  <2>3. QED
    BY <1>1, <1>2, <2>1, <2>2 DEF Init, TypeOK
<1>4. QED
  BY <1>1, <1>3 DEF Init, IInv, PhaseOK, ClearedOK

LEMMA SameLookups ==
  ASSUME UNCHANGED <<dir, own, archive, target>>
  PROVE  /\ IsGit' = IsGit /\ ArchiveAt(target)' = ArchiveAt(target)
         /\ Selected' = Selected /\ Filled(target)' = Filled(target)
         /\ Cleared(target)' = Cleared(target)
  BY DEF IsGit, ArchiveAt, Selected, Filled, Extracted, Own, Cleared, Deepest, At, Depth

(* A step that changes no sources and no archive.                          *)
LEMMA Moves ==
  ASSUME IInv, UNCHANGED <<dir, own, archive, target, command>>,
         phase' \in {"idle", "look", "verify", "untar", "clone", "remove"},
         outcome' \in {"none", "ok", "skipped", "failed"}, faults' \in Nat,
         phase' \in {"verify", "untar", "remove"} =>
           ~IsGit /\ ArchiveAt(target) # None /\ command # "download",
         phase' = "remove" => Filled(target),
         phase' = "untar" => Verifies(Selected) \/ command = "sources",
         phase' \in {"verify", "untar"} /\ Len(Chain[target]) <= 2 => Cleared(target)
  PROVE  IInv'
<1>1. TypeOK'
  BY DEF IInv, TypeOK
<1>2. PhaseOK'
  BY SameLookups DEF PhaseOK, Verifies
<1>3. ClearedOK'
  BY SameLookups DEF ClearedOK
<1>4. QED
  BY <1>1, <1>2, <1>3 DEF IInv

(* A step that ends the command, whatever it did to the sources.           *)
LEMMA Ends ==
  ASSUME IInv, UNCHANGED <<archive, target, command>>,
         dir' \in [Node -> Tree \cup {None, Git}],
         dir'[Root] = Git \/ \A n \in Node : dir'[n] # Git,
         own' \in [Node -> Tree \cup {None}],
         phase' \in {"idle", "clone"},
         outcome' \in {"none", "ok", "skipped", "failed"}, faults' \in Nat
  PROVE  IInv'
<1>1. TypeOK'
  BY DEF IInv, TypeOK
<1>2. PhaseOK' /\ ClearedOK'
  BY DEF PhaseOK, ClearedOK
<1>3. QED
  BY <1>1, <1>2 DEF IInv

(* No tree becomes a repository where there is none, nor the reverse.      *)
LEMMA GitStays ==
  ASSUME TypeOK, ~IsGit, NEW d \in [Node -> Tree \cup {None, Git}],
         \A n \in Node : d[n] = dir[n] \/ d[n] \in Tree \cup {None}
  PROVE  \A n \in Node : d[n] # Git
  BY ValueAssumption DEF TypeOK, IsGit

LEMMA UntarKeeps ==
  ASSUME IInv, phase = "untar", NEW w \in BOOLEAN, dir' = Unpacked(w)
  PROVE  /\ dir' \in [Node -> Tree \cup {None, Git}]
         /\ \A n \in Node : dir'[n] # Git
<1>1. TypeOK /\ PhaseOK /\ ~IsGit
  BY DEF IInv, PhaseOK
<1>2. Unpacked(w) \in [Node -> Tree \cup {None, Git}]
      /\ \A n \in Node : Unpacked(w)[n] = dir[n] \/ Unpacked(w)[n] \in Tree
  BY <1>1, UnpackedIs
<1>3. QED
  BY <1>1, <1>2, GitStays

LEMMA RemoveKeeps ==
  ASSUME IInv, phase = "remove", NEW r \in Tree \cup {None}, Remove(r)
  PROVE  /\ dir' \in [Node -> Tree \cup {None, Git}]
         /\ own' \in [Node -> Tree \cup {None}]
         /\ \A n \in Node : dir'[n] # Git
<1>1. TypeOK /\ PhaseOK /\ ~IsGit
  BY DEF IInv, PhaseOK
<1>2. /\ dir' \in [Node -> Tree \cup {None, Git}]
      /\ own' \in [Node -> Tree \cup {None}]
      /\ \A n \in Node : dir'[n] = dir[n] \/ dir'[n] \in Tree \cup {None}
  BY <1>1, RemovedIs
<1>3. QED
  BY <1>1, <1>2, GitStays

(* What an interrupted removal leaves.                                     *)
Partial == [whole |-> FALSE,
            trusted |-> Extracted(target) # None
                          => Trusted(dir[Extracted(target)])]

LEMMA PartialIs ==
  /\ Partial \in Tree
  /\ Extracted(target) # None => Trusted(Partial) = Trusted(dir[Extracted(target)])
<1> DEFINE b == Extracted(target) # None => Trusted(dir[Extracted(target)])
<1>1. b \in BOOLEAN
  OBVIOUS
<1>2. Partial = [whole |-> FALSE, trusted |-> b]
  BY DEF Partial
<1>3. Partial \in Tree /\ Trusted(Partial) = b
  <2> HIDE DEF b
  <2>1. QED
    BY <1>1, <1>2, TreeTypes
<1>4. Extracted(target) # None => b = Trusted(dir[Extracted(target)])
  <2>1. Trusted(dir[Extracted(target)]) \in BOOLEAN
    BY DEF Trusted
  <2>2. QED
    BY <2>1
<1>5. QED
  BY <1>3, <1>4

LEMMA Interrupted ==
  ASSUME Interrupt
  PROVE  /\ phase # "idle" /\ faults > 0 /\ faults' = faults - 1
         /\ phase' = "idle" /\ outcome' = "failed"
         /\ UNCHANGED <<command, target, archive>>
         /\ phase = "untar" => dir' = Unpacked(FALSE) /\ own' = own
         /\ phase = "remove" => Remove(Partial)
         /\ phase \notin {"untar", "remove"} => dir' = dir /\ own' = own
  BY DEF Interrupt, End, Partial

LEMMA NextIInv ==
  ASSUME IInv, [Next]_vars
  PROVE  IInv'
<1> USE DEF Goto, End
<1>0. /\ TypeOK /\ PhaseOK /\ ClearedOK /\ faults \in Nat
      /\ outcome \in {"none", "ok", "skipped", "failed"} /\ target \in Target
      /\ own \in [Node -> Tree \cup {None}]
  BY DEF IInv, TypeOK
<1>1. CASE ExtractSkipped
  BY <1>0, <1>1, Moves DEF ExtractSkipped
<1>2. CASE ArchiveMissing
  BY <1>0, <1>2, Moves DEF ArchiveMissing, ExtractFails
<1>3. CASE ArchiveFound
  <2>1. ~IsGit /\ Cleared(target)
    BY <1>0, <1>3, GitIsFound DEF ArchiveFound, Filled
  <2>2. QED
    BY <1>0, <1>3, <2>1, Moves DEF ArchiveFound, Extracting
<1>4. CASE Verify
  <2>1. /\ phase = "verify" /\ UNCHANGED <<dir, own, archive, faults, command, target, outcome>>
           /\ phase' = "untar" /\ (Verifies(Selected) \/ command = "sources")
        \/ /\ phase = "verify" /\ UNCHANGED <<dir, own, archive, faults, command, target>>
           /\ phase' = "idle" /\ outcome' = "failed"
    BY <1>4 DEF Verify
  <2>2. QED
    BY <1>0, <2>1, Moves DEF PhaseOK, ClearedOK
<1>5. CASE Untar
  <2>1. /\ phase = "untar" /\ dir' = Unpacked(Selected.whole)
        /\ phase' \in {"idle", "clone"} /\ outcome' \in {"ok", "failed", outcome}
        /\ UNCHANGED <<command, target, own, archive, faults>>
    BY <1>5 DEF Untar, ExtractFails
  <2>2. dir' \in [Node -> Tree \cup {None, Git}] /\ \A n \in Node : dir'[n] # Git
    BY <1>0, <2>1, SelectedIs, UntarKeeps
  <2>3. QED
    BY <1>0, <2>1, <2>2, Ends
<1>6. CASE Download
  BY <1>0, <1>6, Moves DEF Download
<1>7. CASE Clone
  <2>1. CASE dir' = dir
    BY <1>0, <1>7, <2>1, Moves DEF Clone
  <2>2. CASE dir' = [dir EXCEPT ![Root] = Git]
    <3>1. dir' \in [Node -> Tree \cup {None, Git}] /\ dir'[Root] = Git
      BY <1>0, <2>2, ChainAssumption DEF TypeOK
    <3>2. QED
      BY <1>0, <1>7, <3>1, Ends DEF Clone
  <2>3. QED
    BY <1>7, <2>1, <2>2 DEF Clone
<1>8. CASE UpdateSkipped
  BY <1>0, <1>8, Moves DEF UpdateSkipped
<1>9. CASE UpdateStart
  BY <1>0, <1>9, Moves DEF UpdateStart
<1>10. CASE RemoveSources
  <2>1. /\ phase = "remove" /\ Remove(None) /\ phase' = "verify"
        /\ UNCHANGED <<archive, faults, command, target, outcome>>
    BY <1>10 DEF RemoveSources
  <2>2. /\ dir' \in [Node -> Tree \cup {None, Git}] /\ own' \in [Node -> Tree \cup {None}]
        /\ \A n \in Node : dir'[n] # Git
    BY <2>1, RemoveKeeps
  <2>3. TypeOK'
    BY <1>0, <2>1, <2>2 DEF TypeOK
  <2>4. PhaseOK'
    <3>1. ArchiveAt(target)' = ArchiveAt(target)
      BY <2>1 DEF ArchiveAt, Deepest, At, Depth
    <3>2. ~IsGit'
      BY <2>2, ChainAssumption DEF IsGit
    <3>3. QED
      BY <1>0, <2>1, <3>1, <3>2 DEF PhaseOK
  <2>5. ClearedOK'
    <3>1. Len(Chain[target]) <= 2 => \A n \in At(target) : n = Root \/ dir'[n] = None
      BY <1>0, <2>1, RemovalClears
    <3>2. QED
      BY <2>1, <3>1 DEF ClearedOK, Cleared, At
  <2>6. QED
    BY <2>3, <2>4, <2>5 DEF IInv
<1>11. CASE Interrupt
  <2>0. /\ phase' = "idle" /\ outcome' = "failed" /\ faults' \in Nat
        /\ UNCHANGED <<command, target, archive>>
    BY <1>0, <1>11, Interrupted
  <2>1. CASE phase = "untar"
    <3>1. dir' \in [Node -> Tree \cup {None, Git}] /\ (\A n \in Node : dir'[n] # Git)
          /\ own' = own
      BY <1>11, <2>1, Interrupted, UntarKeeps
    <3>2. QED
      BY <1>0, <2>0, <3>1, Ends
  <2>2. CASE phase = "remove"
    <3>1. /\ dir' \in [Node -> Tree \cup {None, Git}] /\ (\A n \in Node : dir'[n] # Git)
          /\ own' \in [Node -> Tree \cup {None}]
      BY <1>11, <2>2, Interrupted, PartialIs, RemoveKeeps
    <3>2. QED
      BY <2>0, <3>1, Ends
  <2>3. CASE phase \notin {"untar", "remove"}
    BY <1>0, <1>11, <2>0, <2>3, Interrupted, Moves
  <2>4. QED
    BY <2>1, <2>2, <2>3
<1>12. ASSUME NEW n \in Node, NEW a \in Offer, Place(n, a) PROVE IInv'
  <2>1. TypeOK'
    BY <1>0, <1>12, OfferAssumption DEF Place, TypeOK, jobVars
  <2>2. PhaseOK' /\ ClearedOK'
    BY <1>12 DEF Place, jobVars, PhaseOK, ClearedOK
  <2>3. QED
    BY <2>1, <2>2 DEF IInv
<1>13. ASSUME NEW t \in Target, NEW c \in Commands, Request(t, c) PROVE IInv'
  <2>1. TypeOK'
    BY <1>0, <1>13, OfferAssumption DEF Request, TypeOK
  <2>2. PhaseOK' /\ ClearedOK'
    BY <1>13 DEF Request, PhaseOK, ClearedOK
  <2>3. QED
    BY <2>1, <2>2 DEF IInv
<1>14. CASE UNCHANGED vars
  <2>1. IsGit' = IsGit /\ ArchiveAt(target)' = ArchiveAt(target)
        /\ Selected' = Selected /\ Filled(target)' = Filled(target)
        /\ Cleared(target)' = Cleared(target)
    BY <1>14, SameLookups DEF vars, jobVars
  <2>2. QED
    BY <1>14, <2>1 DEF vars, jobVars, IInv, TypeOK, PhaseOK, ClearedOK, Verifies
<1>15. QED
  BY <1>1, <1>2, <1>3, <1>4, <1>5, <1>6, <1>7, <1>8, <1>9, <1>10, <1>11, <1>12,
     <1>13, <1>14 DEF Next, Advance

(* The archives and sources keep their types and a repository is the only  *)
(* one of its project, in every reachable state.                           *)
THEOREM Types == Spec => []TypeOK
<1>1. IInv /\ [Next]_vars => IInv'
  BY NextIInv
<1>2. IInv => TypeOK
  BY DEF IInv
<1>3. QED
  BY InitIInv, <1>1, <1>2, PTL DEF Spec

-----------------------------------------------------------------------------
(* The steps that write sources                                            *)

LEMMA Writers ==
  ASSUME IInv, [Next]_vars
  PROVE  \/ dir' = dir
         \/ phase = "untar" /\ Untar
         \/ phase = "clone" /\ Clone
         \/ phase = "remove" /\ RemoveSources
         \/ phase \in {"untar", "remove"} /\ Interrupt
<1> USE DEF ExtractSkipped, ArchiveMissing, ArchiveFound, Verify, Untar, Download, Clone,
            UpdateSkipped, UpdateStart, RemoveSources
<1>1. CASE Advance
  BY <1>1 DEF Advance
<1>2. CASE Interrupt
  BY <1>2, Interrupted
<1>3. CASE \/ \E n \in Node, a \in Offer : Place(n, a)
           \/ \E t \in Target, c \in Commands : Request(t, c)
  BY <1>3 DEF Place, Request
<1>4. CASE UNCHANGED vars
  BY <1>4 DEF vars
<1>5. QED
  BY <1>1, <1>2, <1>3, <1>4 DEF Next

LEMMA TrustedStep ==
  ASSUME IInv, [Next]_vars, command # "sources", NEW n \in Node, Trusted(dir[n])
  PROVE  Trusted(dir'[n])
<1>0. TypeOK /\ PhaseOK
  BY DEF IInv
<1>1. ASSUME phase = "untar", NEW w \in BOOLEAN, dir' = Unpacked(w)
      PROVE  Trusted(dir'[n])
  <2>1. Verifies(Selected)
    BY <1>0, <1>1 DEF PhaseOK
  <2>2. CASE n = Selected.top
    BY <1>0, <1>1, <2>1, <2>2, UnpackedIs
  <2>3. CASE n # Selected.top
    BY <1>0, <1>1, <2>3, UnpackedIs
  <2>4. QED
    BY <2>2, <2>3
<1>2. ASSUME phase = "remove", NEW r \in Tree \cup {None}, Remove(r),
             Extracted(target) # None /\ Trusted(dir[Extracted(target)]) => Trusted(r)
      PROVE  Trusted(dir'[n])
  BY <1>0, <1>2, RemovedIs
<1>3. CASE dir' = dir
  BY <1>3
<1>4. CASE phase = "untar" /\ Untar
  BY <1>0, <1>1, <1>4, SelectedIs DEF Untar
<1>5. CASE phase = "clone" /\ Clone
  BY <1>0, <1>5, NoTreeIsTrusted, ChainAssumption DEF Clone, TypeOK
<1>6. CASE phase = "remove" /\ RemoveSources
  BY <1>2, <1>6, NoTreeIsTrusted DEF RemoveSources
<1>7. CASE phase \in {"untar", "remove"} /\ Interrupt
  <2>1. CASE phase = "untar"
    BY <1>1, <1>7, <2>1, Interrupted
  <2>2. CASE phase = "remove"
    BY <1>2, <1>7, <2>2, Interrupted, PartialIs
  <2>3. QED
    BY <1>7, <2>1, <2>2
<1>8. QED
  BY <1>3, <1>4, <1>5, <1>6, <1>7, Writers

LEMMA GitStep ==
  ASSUME IInv, [Next]_vars, dir[Root] = Git
  PROVE  dir'[Root] = Git
<1>1. phase \notin {"untar", "remove"}
  BY DEF IInv, PhaseOK, IsGit
<1>2. CASE dir' = dir
  BY <1>2
<1>3. CASE Clone
  BY <1>3 DEF Clone, IsGit, IInv, TypeOK
<1>4. QED
  BY <1>1, <1>2, <1>3, Writers

LEMMA WholeStep ==
  ASSUME IInv, [Next]_vars, phase = "untar", phase' = "idle", outcome' = "ok",
         Selected.top \in At(target), Len(Chain[target]) <= 2
  PROVE  Extracted(target)' # None /\ dir'[Extracted(target)'].whole
<1> DEFINE top == Selected.top
<1> DEFINE names == {n \in Node : dir'[n] # None}
<1> DEFINE found == Deepest(target, names)
<1>0. TypeOK /\ PhaseOK /\ target \in Target /\ Cleared(target) /\ top \in Node
  <2>1. target \in Target /\ At(target) \subseteq Node
    BY ChainTypes DEF IInv, TypeOK
  <2>2. QED
    BY <2>1 DEF IInv, ClearedOK
<1>1. Untar
  <2>1. CASE Advance
    BY <2>1 DEF Advance, ExtractSkipped, ArchiveMissing, ArchiveFound, Verify, Download,
         Clone, UpdateSkipped, UpdateStart, RemoveSources
  <2>2. CASE ~Advance
    BY <2>2, Interrupted DEF Next, Place, Request, vars, jobVars
  <2>3. QED
    BY <2>1, <2>2
<1>2. Selected.whole /\ dir' = Unpacked(TRUE) /\ target' = target
  <2>1. Selected.whole \in BOOLEAN
    BY <1>0, SelectedIs
  <2>2. Selected.whole = TRUE
    BY <1>1, <2>1 DEF Untar, ExtractFails, Goto, End
  <2>3. QED
    BY <1>1, <2>2 DEF Untar, End
<1>3. /\ dir'[top] \in Tree /\ dir'[top].whole = TRUE
      /\ \A n \in Node : n # top => dir'[n] = dir[n]
  BY <1>0, <1>2, UnpackedIs
<1>4. found = top
  <2>1. top \in names
    BY <1>0, <1>3, ValueAssumption
  <2>2. \A n \in At(target) : n \in names => n = top \/ dir[n] # None
    BY <1>0, <1>3
  <2>3. \A n \in At(target) : n = Root \/ dir[n] = None
    BY <1>0 DEF Cleared
  <2> HIDE DEF names
  <2>4. QED
    BY <1>0, <2>1, <2>2, <2>3, UnpackedIsFound
<1>5. Extracted(target)' = found
  BY <1>2 DEF Extracted, Deepest, At, Depth
<1>6. QED
  BY <1>0, <1>3, <1>4, <1>5, ValueAssumption

-----------------------------------------------------------------------------
(* The theorems                                                            *)

(* extract, update and download let nothing into the sources that does not *)
(* verify, whatever was placed, interrupted or merged (verification in     *)
(* libs/common, asked before tar).                                         *)
THEOREM OnlyVerified == Spec => OnlyTrusted
<1>1. IInv /\ [Next]_vars =>
        [command # "sources" => \A n \in Node : Trusted(dir[n]) => Trusted(dir'[n])]_vars
  BY TrustedStep
<1>2. IInv /\ [Next]_vars => IInv'
  BY NextIInv
<1>3. QED
  BY InitIInv, <1>1, <1>2, PTL DEF Spec, OnlyTrusted

(* A cloned repository is never removed nor unpacked over by a command on  *)
(* archives (project_sources_git_exists_check in update and download).     *)
THEOREM RepositoryIsKept == Spec => GitIsKept
<1>1. IInv /\ [Next]_vars => [dir[Root] = Git => dir'[Root] = Git]_vars
  BY GitStep
<1>2. IInv /\ [Next]_vars => IInv'
  BY NextIInv
<1>3. QED
  BY InitIInv, <1>1, <1>2, PTL DEF Spec, GitIsKept

(* What an extraction or update that succeeds leaves to be read is whole:  *)
(* no partial tree of another archive or command stays in front of it.     *)
THEOREM SuccessIsWhole == Spec => EndsWhole
<1> DEFINE Whole == (/\ phase = "untar" /\ phase' = "idle" /\ outcome' = "ok"
                     /\ Selected.top \in At(target) /\ Len(Chain[target]) <= 2)
                      => /\ Extracted(target)' # None
                         /\ dir'[Extracted(target)'].whole
<1>1. IInv /\ [Next]_vars => [Whole]_vars
  BY WholeStep
<1>2. IInv /\ [Next]_vars => IInv'
  BY NextIInv
<1>3. QED
  BY InitIInv, <1>1, <1>2, PTL DEF Spec, EndsWhole
====
