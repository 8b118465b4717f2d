-------------------------------- MODULE Rdinp --------------------------------
(***************************************************************************)
(* RDINP: the translation of feff.inp into the hand-off files every other  *)
(* stage reads, under the sentinel .feff.error.                            *)
(*                                                                         *)
(* execute_rdinp creates the sentinel before it reads the input and removes*)
(* it after the last hand-off.  A kill or an I/O error may come between    *)
(* any two calls, and inside the write of a file, which truncates it first.*)
(* Which files there are depends on the input: those of an earlier input   *)
(* that the present one does not write stay.  log.dat, the file for the    *)
(* human reader, is left out.                                              *)
(***************************************************************************)

CONSTANTS
    Versions,   \* versions of feff.inp
    Accepted,   \* those RDINP accepts; the others do not parse or make no sense
    Files,      \* the hand-off files
    Outputs,    \* the hand-offs of each accepted version
    Common,     \* a hand-off that every version has
    None,       \* there is no such file
    Torn,       \* a file that was being written when the program stopped
    Dirty

ASSUME RdinpAssumption ==
    /\ Accepted \subseteq Versions
    /\ Outputs \in [Accepted -> SUBSET Files]
    /\ Common \in Files
    /\ \A v \in Accepted : Common \in Outputs[v]
    /\ None \notin Versions \cup Files
    /\ Torn \notin Versions \cup {None}
    /\ Dirty \notin {{v} : v \in Accepted} \cup {{}}

VARIABLES
    input,      \* the version of feff.inp at present
    files,      \* the hand-offs: the version each was made from, None or Torn
    sentinel,   \* .feff.error is there
    rd,         \* control: "idle", "parse", "write", "unlink"
    parsed,     \* the version that was parsed, None before
    todo,       \* hand-offs still to be written
    open        \* the hand-off being written, or None

rdinpVars == <<input, files, sentinel, rd, parsed, todo, open>>

RdinpInit ==
    /\ input \in Versions
    /\ files = [f \in Files |-> None]
    /\ sentinel = FALSE
    /\ rd = "idle"
    /\ parsed = None
    /\ todo = {}
    /\ open = None

\* create_dir_all and the write of the sentinel.
Begin ==
    /\ rd = "idle"
    /\ sentinel' = TRUE
    /\ rd' = "parse"
    /\ parsed' = None
    /\ UNCHANGED <<input, files, todo, open>>

\* parse_file, from_input, text_outputs: everything is rendered before
\* anything is written.  A rejected input leaves the hand-offs alone.
Parse ==
    /\ rd = "parse"
    /\ IF input \in Accepted
       THEN /\ parsed' = input
            /\ todo' = Outputs[input]
            /\ rd' = "write"
       ELSE /\ rd' = "idle"
            /\ UNCHANGED <<parsed, todo>>
    /\ UNCHANGED <<input, files, sentinel, open>>

\* fs::write of a hand-off begins: the file is truncated.
Open(f) ==
    /\ rd = "write"
    /\ open = None
    /\ f \in todo
    /\ open' = f
    /\ files' = [files EXCEPT ![f] = Torn]
    /\ UNCHANGED <<input, sentinel, rd, parsed, todo>>

LastWrite_OffByOne == \E f \in Files : todo \subseteq {f}

\* Nothing is left to be written.
LastWrite == todo = {}

\* fs::write ends.
Fill ==
    /\ rd = "write"
    /\ open # None
    /\ files' = [files EXCEPT ![open] = parsed]
    /\ todo' = todo \ {open}
    /\ open' = None
    /\ UNCHANGED <<input, sentinel, rd, parsed>>

Written ==
    /\ rd = "write"
    /\ open = None
    /\ LastWrite
    /\ rd' = "unlink"
    /\ todo' = {}
    /\ UNCHANGED <<input, files, sentinel, parsed, open>>

\* remove_file of the sentinel; that it is gone already is no error.
Unlink ==
    /\ rd = "unlink"
    /\ sentinel' = FALSE
    /\ rd' = "idle"
    /\ UNCHANGED <<input, files, parsed, todo, open>>

\* An I/O error or a kill.
StopRdinp ==
    /\ rd # "idle"
    /\ rd' = "idle"
    /\ parsed' = None
    /\ todo' = {}
    /\ open' = None
    /\ UNCHANGED <<input, files, sentinel>>

\* The user edits feff.inp, whenever he likes.
Edit ==
    /\ input' \in Versions \ {input}
    /\ UNCHANGED <<files, sentinel, rd, parsed, todo, open>>

\* The steps of execute_rdinp after the first.
RdinpStep ==
    \/ Parse
    \/ \E f \in Files : Open(f)
    \/ Fill
    \/ Written
    \/ Unlink
    \/ StopRdinp

RdinpNext == Begin \/ RdinpStep \/ Edit

RdinpSpec == RdinpInit /\ [][RdinpNext]_rdinpVars

-----------------------------------------------------------------------------
(* Properties. *)

\* The versions all of whose hand-offs are there.
Whole == {v \in Accepted : \A f \in Outputs[v] : files[f] = v}

Directory == INSTANCE HandoffDirectory WITH
    Contents <- Accepted, Dirty <- Dirty,
    content <- IF sentinel THEN Dirty ELSE Whole

\* Whatever RDINP is interrupted by, and however the input is edited meanwhile,
\* a directory without the sentinel holds all hand-offs of one accepted input,
\* and comes from one such content to the next only under the sentinel.
SentinelProtects == Directory!Spec
==============================================================================
