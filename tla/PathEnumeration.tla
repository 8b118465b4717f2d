--------------------------- MODULE PathEnumeration ---------------------------
(***************************************************************************)
(* What `pathfinder_search` promises the rest of the PATH stage, without   *)
(* heap, rows or candidates: it takes the shortest of the paths that are   *)
(* left, again and again, until none is left or as many were taken as were *)
(* asked for.  At every moment the paths taken are the shortest there are. *)
(***************************************************************************)
EXTENDS Naturals, Sequences

VARIABLES
    wanted,     \* the paths to find, each with its length
    limit,      \* how many are asked for
    found,      \* those taken, in this order
    phase       \* "preparing", "finding", and how it ended: "limit", "exhausted"

vars == <<wanted, limit, found, phase>>

Left == wanted \ {found[i] : i \in DOMAIN found}

Init ==
    /\ wanted = {}
    /\ limit \in Nat
    /\ found = <<>>
    /\ phase = "preparing"

\* The cluster and the criteria decide what there is to find.
Choose ==
    /\ phase = "preparing"
    /\ phase' = "finding"
    /\ UNCHANGED <<limit, found>>

\* The shortest path that is left is found; it may be the last one asked for.
Find(path) ==
    /\ phase = "finding"
    /\ Len(found) < limit
    /\ path \in Left
    /\ \A other \in Left : path.length <= other.length
    /\ found' = Append(found, path)
    /\ phase' = IF Len(found') = limit THEN "limit" ELSE "finding"
    /\ UNCHANGED <<wanted, limit>>

\* Nothing was asked for.
Refuse ==
    /\ phase = "finding"
    /\ limit = 0
    /\ phase' = "limit"
    /\ UNCHANGED <<wanted, limit, found>>

\* Nothing is left, though more was asked for.
Exhaust ==
    /\ phase = "finding"
    /\ Len(found) < limit
    /\ Left = {}
    /\ phase' = "exhausted"
    /\ UNCHANGED <<wanted, limit, found>>

Next ==
    \/ Choose
    \/ \E path \in Left : Find(path)
    \/ Refuse
    \/ Exhaust

Spec == Init /\ [][Next]_vars
=============================================================================
