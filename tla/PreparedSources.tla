----------------------------- MODULE PreparedSources -----------------------------
(***************************************************************************)
(* What the git sources of libreboot promise, without git: a register of   *)
(* sources per target.  One command at a time owns one target, may leave   *)
(* anything in that target's register and in no other, and may stop at any *)
(* point; it may call a target ready only while its sources are the ones   *)
(* its configuration describes.                                            *)
(***************************************************************************)
CONSTANTS Target, Sources, Nothing, Nobody,
          Describes(_, _)   \* the sources a target's configuration describes

VARIABLES sources, ready, owner

vars == <<sources, ready, owner>>

Init ==
  /\ sources = [t \in Target |-> Nothing]
  /\ ready = {}
  /\ owner = Nobody

Start(t) ==
  /\ owner = Nobody
  /\ owner' = t
  /\ ready' = ready \ {t}
  /\ UNCHANGED sources

Work ==
  /\ owner # Nobody
  /\ \E s \in Sources \cup {Nothing} : sources' = [sources EXCEPT ![owner] = s]
  /\ UNCHANGED <<ready, owner>>

Finish ==
  /\ owner # Nobody
  /\ Describes(owner, sources[owner])
  /\ ready' = ready \cup {owner}
  /\ owner' = Nobody
  /\ UNCHANGED sources

GiveUp ==
  /\ owner # Nobody
  /\ owner' = Nobody
  /\ UNCHANGED <<sources, ready>>

Next == Work \/ Finish \/ GiveUp \/ \E t \in Target : Start(t)

Spec == Init /\ [][Next]_vars
=============================================================================
