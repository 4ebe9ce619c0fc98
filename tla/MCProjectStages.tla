----------------------------- MODULE MCProjectStages -----------------------------
(***************************************************************************)
(* Instances of ProjectStages for TLC: a target whose install rules are in *)
(* its last argument's directory, where build_check sees the last of them, *)
(* and one whose rules are in the project's, as coreboot's are, where it   *)
(* sees none.                                                              *)
(***************************************************************************)
EXTENDS ProjectStages

CONSTANTS leaf, root,   \* targets
          f1, f2        \* files

MCBoth    == {leaf, root}
MCLeaf    == {leaf}
MCChecked == Target \cap {leaf}
MCFile    == {f1, f2}
MCRules   == <<f1, f2>>
MCNever   == {FALSE}
MCAtWill  == {TRUE, FALSE}
=============================================================================
