---------------------------- MODULE ResultStore ----------------------------
(***************************************************************************)
(* What recomputing an output directory promises whoever uses it, without  *)
(* staging directories, renames and errors: complete results, each shown   *)
(* at most once by the run that computed it, that are set aside for one    *)
(* another, put back, and discarded only while another one is there.       *)
(***************************************************************************)
CONSTANTS
    Results,    \* the runs, and who wrote what was there before
    None

VARIABLES
    shown,      \* the result at the output, or None
    kept,       \* the results set aside that can be put back
    pending     \* those not yet shown that may still be

vars == <<shown, kept, pending>>

Init ==
    /\ shown \in Results \cup {None}
    /\ kept = {}
    /\ pending \in SUBSET (Results \ {shown})

\* A run shows its result where none is.
Show(result) ==
    /\ result \in pending
    /\ shown = None
    /\ shown' = result
    /\ pending' = pending \ {result}
    /\ UNCHANGED kept

\* A run fails, is cancelled or is killed: its result will not be shown.
Abandon(result) ==
    /\ result \in pending
    /\ pending' = pending \ {result}
    /\ UNCHANGED <<shown, kept>>

SetAside ==
    /\ shown # None
    /\ kept' = kept \cup {shown}
    /\ shown' = None
    /\ UNCHANGED pending

PutBack(result) ==
    /\ result \in kept
    /\ shown = None
    /\ shown' = result
    /\ kept' = kept \ {result}
    /\ UNCHANGED pending

\* Never the last one.
Discard(result) ==
    /\ result \in kept
    /\ shown # None \/ kept # {result}
    /\ kept' = kept \ {result}
    /\ UNCHANGED <<shown, pending>>

Next ==
    \/ \E result \in pending : Show(result) \/ Abandon(result)
    \/ SetAside
    \/ \E result \in kept : PutBack(result) \/ Discard(result)

Spec == Init /\ [][Next]_vars
=============================================================================
