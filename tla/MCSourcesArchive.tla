----------------------------- MODULE MCSourcesArchive -----------------------------
(***************************************************************************)
(* Instances of SourcesArchive for TLC: a project with two targets that    *)
(* share the sources and the archive named after the project alone.        *)
(***************************************************************************)
EXTENDS SourcesArchive

CONSTANTS project, left, right   \* names; left and right are targets too

MCNode   == {project, left, right}
MCTarget == {left, right}
MCChain  == [t \in Target |-> <<project, t>>]
MCOwned  == {project}

Sealed(n) == [checked |-> TRUE, signed |-> TRUE, whole |-> TRUE, top |-> n]
Unsigned(n) == [Sealed(n) EXCEPT !.signed = FALSE]
Truncated(n) == [checked |-> FALSE, signed |-> FALSE, whole |-> FALSE, top |-> n]

MCOffer == {Sealed(project), Sealed(left), Sealed(right), Unsigned(left),
            Truncated(project)}
MCCommands == {"extract", "sources", "download", "update"}
=============================================================================
