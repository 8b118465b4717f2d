--------------------------- MODULE HandoffDirectory ---------------------------
(***************************************************************************)
(* What RDINP promises the stages that read its hand-offs (abstract).      *)
(*                                                                         *)
(* A work directory is clean or dirty.  A clean one holds the hand-offs of *)
(* one version of feff.inp, or none at all.  From one clean content to     *)
(* another there is no way around dirty.                                   *)
(***************************************************************************)
CONSTANTS
    Contents,   \* the versions of feff.inp whose hand-offs a directory may hold
    Dirty       \* the mark of a directory that may hold anything: none of the sets
                \* of the others

VARIABLE content    \* Dirty, or the set of versions that are there in full

Init == content = {}

\* The hand-offs are about to be rewritten.
Soil == content' = Dirty

\* All hand-offs of one version are there.
Settle ==
    /\ content = Dirty
    /\ \E v \in Contents : content' = {v}

Next == Soil \/ Settle

Spec == Init /\ [][Next]_content
===============================================================================
