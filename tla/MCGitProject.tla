----------------------------- MODULE MCGitProject -----------------------------
(***************************************************************************)
(* GitProject for TLC, after sources/coreboot: a board that has a          *)
(* revision, a blobs list and a patch, and a project that borrows the      *)
(* repository and names no revision, as crossgcc, cbfstool, cbmem and      *)
(* nvramtool do.  The borrower is given a blob and a patch of its own,     *)
(* which BUILD_HOWTO allows and the code supports.  Both have a download   *)
(* check: a target without one (vboot) has the same steps but the skip.    *)
(***************************************************************************)
EXTENDS GitProject

CONSTANTS board, borrower,   \* targets
          r1, r2,            \* upstream commits
          b1, b2,            \* blobs
          p1, p2             \* patches

MCPair   == {board, borrower}
MCCloner == {board}
MCUnchecked == {}
MCBase   == {r1, r2}
MCBlob   == {b1, b2}
MCPatch  == {p1, p2}

MCRevision ==
  [t \in Target |-> IF t = board THEN r1 ELSE NoRevision]
MCBlobList ==
  [t \in Target |-> IF t = board THEN <<b1, b2>> ELSE <<b2>>]
MCPatchList ==
  [t \in Target |-> IF t = board THEN <<p1>> ELSE <<p2>>]
=============================================================================
