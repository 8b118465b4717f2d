------------------------------ MODULE RixsEdges ------------------------------
(***************************************************************************)
(* The RIXS workflow of a full run: RDINP in the work directory, a         *)
(* pipeline of its own for each of the two edges in a subdirectory, the    *)
(* publication of their results in the work directory, and the solver      *)
(* that reads them.                                                        *)
(*                                                                         *)
(* prepare_two_edge_handoffs copies the results to temporary names first   *)
(* and then renames them one by one; it refuses a directory that holds     *)
(* some of the published files and not all, and leaves a complete set      *)
(* alone.  Single modules can be run on the same directory without any of  *)
(* that.  Runs may be interrupted between any two steps, the input edited  *)
(* at any time, and published files deleted between runs.                  *)
(*                                                                         *)
(* A file is the version of feff.inp it was computed from.  An edge        *)
(* pipeline that succeeds rewrites the files its input asks for and leaves *)
(* the others of its subdirectory as they were; one that is stopped has    *)
(* rewritten some.                                                         *)
(*                                                                         *)
(* The solver writes rixsET.dat first and the other spectra after it, each *)
(* on its own; a run that finds rixsET.dat skips the preparation and its   *)
(* refusal, and one that finds some spectrum missing or unreadable writes  *)
(* all of them again.  A spectrum is what it was computed from; one whose  *)
(* writing is killed is taken to be unreadable or whole.                   *)
(*                                                                         *)
(* wscrn.dat is left out: for a valence edge it is the same for any input. *)
(***************************************************************************)
EXTENDS Rdinp, FiniteSets, Naturals, Sequences

CONSTANTS
    Kinds,      \* the files published from both edges, in order
    RixsInp,    \* the hand-off rixs.inp
    Enabled,    \* versions that ask for a RIXS calculation
    TwoEdges,   \* versions that name two edges
    Makes,      \* the kinds of files the edge pipelines of a version write
    ReadPoles,  \* versions whose solver reads edges.dat
    SpectrumFiles   \* how many spectra the solver writes, rixsET.dat first

ASSUME RixsAssumption ==
    /\ RixsInp \in Files
    /\ \A v \in Accepted : RixsInp \in Outputs[v]
    /\ Enabled \subseteq Accepted
    /\ TwoEdges \subseteq Accepted
    /\ ReadPoles \subseteq Accepted
    /\ SpectrumFiles \in Nat \ {0}

\* The cross section, which is published from the second edge only.
Xsect == "xsect"

ASSUME KindsAssumption ==
    /\ Len(Kinds) \in Nat \ {0}
    /\ \A i \in 1 .. Len(Kinds) :
        Kinds[i] # Xsect /\ \A j \in 1 .. Len(Kinds) : Kinds[i] = Kinds[j] => i = j

\* The published files in the order of their publication.
Published ==
    [i \in 1 .. 2 * Len(Kinds) + 1 |->
        IF i > 2 * Len(Kinds) THEN [kind |-> Xsect, edge |-> 2]
        ELSE [kind |-> Kinds[(i + 1) \div 2],
              edge |-> IF i % 2 = 1 THEN 1 ELSE 2]]

Names == {Published[i] : i \in DOMAIN Published}
AllKinds == {n.kind : n \in Names}

ASSUME MakesAssumption == Makes \in [Accepted -> SUBSET AllKinds]

VARIABLES
    pc,         \* "idle", "rdinp", "prepare", "edge", "poles", "copy",
                \* "publish", "stages", "solve" or "write"
    full,       \* a full run, or one of a single module
    checked,    \* the preparation found no rixsET.dat, and made its checks
    source,     \* the feff.inp the preparation has read
    at,         \* the edge, or the published file, that is next
    dirs,       \* the results in the two subdirectories
    staged,     \* the copies with temporary names
    pair,       \* the published files
    poles,      \* edges.dat
    shared,     \* the work directory's own phase.bin, rl.dat, ...
    spectrum,   \* what each spectrum was computed from, None or Torn
    out         \* the spectrum that is written next

rixsVars == <<pc, full, checked, source, at, dirs, staged, pair, poles, shared, spectrum, out>>
vars == <<input, files, sentinel, rd, parsed, todo, open, pc, full, checked, source,
          at, dirs, staged, pair, poles, shared, spectrum, out>>

\* What a run knows beside the files, its place and findings, ends with it.
runVars == <<full, checked, source, at, out>>
Ended ==
    /\ pc' = "idle"
    /\ full' = FALSE /\ checked' = FALSE /\ source' = None
    /\ at' = 1 /\ out' = 1

Present == {n \in Names : pair[n] # None}

\* The version whose rixs.inp the work directory holds.
Requested == files[RixsInp]

Init ==
    /\ RdinpInit
    /\ pc = "idle"
    /\ full = FALSE
    /\ checked = FALSE
    /\ source = None
    /\ at = 1
    /\ dirs = [e \in 1 .. 2 |-> [k \in AllKinds |-> None]]
    /\ staged = [n \in Names |-> None]
    /\ pair = [n \in Names |-> None]
    /\ poles = None
    /\ shared = None
    /\ spectrum = [o \in 1 .. SpectrumFiles |-> None]
    /\ out = 1

-----------------------------------------------------------------------------
(* Starting, and RDINP. *)

\* execute_pipeline, or the module rdinp alone.
StartRun ==
    /\ pc = "idle"
    /\ Begin
    /\ pc' = "rdinp"
    /\ full' \in BOOLEAN
    /\ UNCHANGED <<checked, source, at, out, dirs, staged, pair, poles, shared, spectrum>>

\* The module rixs alone, on whatever the directory holds.
StartSolver ==
    /\ pc = "idle"
    /\ pc' = "solve"
    /\ UNCHANGED <<runVars, dirs, staged, pair, poles, shared, spectrum>>
    /\ UNCHANGED rdinpVars

TranslateInput ==
    /\ pc = "rdinp"
    /\ RdinpStep
    /\ IF rd' # "idle" THEN UNCHANGED <<pc, runVars>>
       ELSE IF rd = "unlink" /\ ~sentinel' /\ full
       THEN pc' = "prepare" /\ UNCHANGED runVars
       ELSE Ended
    /\ UNCHANGED <<dirs, staged, pair, poles, shared, spectrum>>

-----------------------------------------------------------------------------
(* prepare_two_edge_handoffs. *)

Refused_Never == FALSE

\* "refusing to mix edge calculations"
Refused == Present # {} /\ Present # Names

NothingToPrepare_AnyFile ==
    Requested \notin Enabled \/ spectrum[1] # None \/ Present # {} \/ Requested \notin TwoEdges

\* The present files, or rixsET.dat, readable or not, are used as they are.
NothingToPrepare ==
    \/ Requested \notin Enabled
    \/ spectrum[1] # None
    \/ Present = Names
    \/ Present = {} /\ Requested \notin TwoEdges

\* The checks, and the read of feff.inp, which may differ from what RDINP read.
Prepare ==
    /\ pc = "prepare"
    /\ IF NothingToPrepare
       THEN /\ pc' = "stages"
            /\ checked' = (spectrum[1] = None)
            /\ UNCHANGED <<full, source, at, out>>
       ELSE IF Refused
       THEN Ended
       ELSE /\ pc' = "edge"
            /\ checked' = TRUE
            /\ source' = input
            /\ at' = 1
            /\ UNCHANGED <<full, out>>
    /\ UNCHANGED <<dirs, staged, pair, poles, shared, spectrum>>
    /\ UNCHANGED rdinpVars

EdgeResult_KeepsFiles(e) ==
    [k \in AllKinds |-> IF dirs[e][k] = None /\ k \in Makes[source]
                        THEN source ELSE dirs[e][k]]

\* What the pipeline of an edge leaves.
EdgeResult(e) ==
    [k \in AllKinds |-> IF k \in Makes[source] THEN source ELSE dirs[e][k]]

\* The pipeline of an edge, with a derived feff.inp in its subdirectory.  What
\* is to be published must be there after it, written by it or not.
RunEdge ==
    /\ pc = "edge"
    /\ source \in Accepted
    /\ dirs' = [dirs EXCEPT ![at] = EdgeResult(at)]
    /\ at = 2 => \A n \in Names : dirs'[n.edge][n.kind] # None
    /\ IF at = 1 THEN at' = 2 /\ pc' = "edge"
       ELSE at' = 1 /\ pc' = "poles"
    /\ UNCHANGED <<full, checked, source, out, staged, pair, poles, shared, spectrum>>
    /\ UNCHANGED rdinpVars

\* It fails or is killed, with some of its files written.
StopEdge ==
    /\ pc = "edge"
    /\ \E done \in IF source \in Accepted THEN SUBSET Makes[source] ELSE {{}} :
        dirs' = [dirs EXCEPT ![at] =
                    [k \in AllKinds |-> IF k \in done THEN source ELSE @[k]]]
    /\ Ended
    /\ UNCHANGED <<staged, pair, poles, shared, spectrum>>
    /\ UNCHANGED rdinpVars

\* write_rixs_edges_if_needed: a file that is there is kept.
WritePoles ==
    /\ pc = "poles"
    /\ poles' = IF Requested \in ReadPoles /\ poles = None
                THEN dirs[1][Xsect] ELSE poles
    /\ pc' = "copy"
    /\ UNCHANGED <<runVars, dirs, staged, pair, shared, spectrum>>
    /\ UNCHANGED rdinpVars

Advance_NoReset(next) ==
    at' = at + 1 /\ pc' = IF at = Len(Published) THEN next ELSE pc

\* The file of Published that is next is dealt with.
Advance(next) ==
    IF at = Len(Published) THEN at' = 1 /\ pc' = next
    ELSE at' = at + 1 /\ UNCHANGED pc

\* stage_rixs_handoff_copy
Copy ==
    /\ pc = "copy"
    /\ LET n == Published[at] IN
        staged' = [staged EXCEPT ![n] = dirs[n.edge][n.kind]]
    /\ Advance("publish")
    /\ UNCHANGED <<full, checked, source, out, dirs, pair, poles, shared, spectrum>>
    /\ UNCHANGED rdinpVars

\* The rename of one copy.
Publish ==
    /\ pc = "publish"
    /\ LET n == Published[at] IN
        /\ pair' = [pair EXCEPT ![n] = staged[n]]
        /\ staged' = [staged EXCEPT ![n] = None]
    /\ Advance("stages")
    /\ UNCHANGED <<full, checked, source, out, dirs, poles, shared, spectrum>>
    /\ UNCHANGED rdinpVars

-----------------------------------------------------------------------------
(* The stages of the work directory, and the solver among them. *)

\* The stages before RIXS write the directory's own phases and radial
\* functions, or what there is of them.
RunStages ==
    /\ pc = "stages"
    /\ shared' \in {shared, Requested}
    /\ pc' = "solve"
    /\ UNCHANGED <<runVars, dirs, staged, pair, poles, spectrum>>
    /\ UNCHANGED rdinpVars

\* The files of a kind the solver reads: the published ones, or else the
\* directory's own.
Explicit(k) == {n \in Present : n.kind = k}

\* resolve_rixs_edge_pair: one of the two alone is an error.
Resolved ==
    /\ Requested \in Enabled
    /\ \A k \in AllKinds : Explicit(k) \in {{}, {n \in Names : n.kind = k}}

\* build_optional_rixs_solver_handoffs has all that the spectra need.
Solvable ==
    /\ Resolved
    /\ \A k \in AllKinds : Explicit(k) # {} \/ shared # None
    /\ Requested \in ReadPoles => poles # None

\* What the solver computes the spectra from.
Solution ==
    [pair    |-> {[kind |-> n.kind, of |-> pair[n]] : n \in Present},
     shared  |-> \E k \in AllKinds : Explicit(k) = {},
     checked |-> checked]

Missing(o) == spectrum[o] \in {None, Torn}

\* source_outputs_should_fill_partial_cache, and no output at all: the hand-offs
\* that are there are solved anew, whatever spectra they leave.
ToWrite == Solvable /\ \E o \in 1 .. SpectrumFiles : Missing(o)

\* run_in_dir: the solution is computed, and then written.
Solve ==
    /\ pc = "solve"
    /\ ToWrite
    /\ pc' = "write"
    /\ out' = 1
    /\ UNCHANGED <<full, checked, source, at, dirs, staged, pair, poles, shared, spectrum>>
    /\ UNCHANGED rdinpVars

\* write_rixs_source_outputs: one spectrum after the other.
WriteSpectrum ==
    /\ pc = "write"
    /\ spectrum' = [spectrum EXCEPT ![out] = Solution]
    /\ IF out = SpectrumFiles THEN Ended
       ELSE out' = out + 1 /\ UNCHANGED <<pc, full, checked, source, at>>
    /\ UNCHANGED <<dirs, staged, pair, poles, shared>>
    /\ UNCHANGED rdinpVars

\* What is missing can be derived from rixsET.dat, where some hand-off is not there.
Derivable(o) ==
    /\ o # 1 /\ Missing(o) /\ ~Missing(1)
    /\ Resolved /\ ~Solvable
    /\ Requested \in ReadPoles /\ poles # None

\* write_missing_final_outputs_from_cached_map
Derive ==
    /\ pc = "solve"
    /\ \E o \in 1 .. SpectrumFiles :
        Derivable(o) /\ spectrum' = [spectrum EXCEPT ![o] = spectrum[1]]
    /\ UNCHANGED <<pc, runVars, dirs, staged, pair, poles, shared>>
    /\ UNCHANGED rdinpVars

\* The spectra are used as they are, or the run fails.
Keep ==
    /\ pc = "solve"
    /\ ~ToWrite /\ \A o \in 1 .. SpectrumFiles : ~Derivable(o)
    /\ Ended
    /\ UNCHANGED <<dirs, staged, pair, poles, shared, spectrum>>
    /\ UNCHANGED rdinpVars

\* An I/O error or a kill at any other step.
Stop ==
    /\ pc \in {"prepare", "poles", "copy", "publish", "stages", "solve", "write"}
    /\ Ended
    /\ UNCHANGED <<dirs, staged, pair, poles, shared, spectrum>>
    /\ UNCHANGED rdinpVars

\* One in the middle of writing a spectrum, new, derived or only rendered again.
StopWriting ==
    /\ \E o \in 1 .. SpectrumFiles :
        /\ \/ pc = "write" /\ o = out
           \/ pc = "solve" /\ Resolved /\ ~ToWrite /\ (Derivable(o) \/ ~Missing(o))
        /\ spectrum' = [spectrum EXCEPT ![o] = Torn]
    /\ Ended
    /\ UNCHANGED <<dirs, staged, pair, poles, shared>>
    /\ UNCHANGED rdinpVars

\* Between runs the user deletes spectra, or them and the published files.
Clear ==
    /\ pc = "idle"
    /\ \E gone \in SUBSET (1 .. SpectrumFiles) :
        spectrum' = [o \in 1 .. SpectrumFiles |-> IF o \in gone THEN None ELSE spectrum[o]]
    /\ pair' \in {pair, [n \in Names |-> None]}
    /\ UNCHANGED <<pc, full, checked, source, at, dirs, staged, poles, shared, out>>
    /\ UNCHANGED rdinpVars

EditInput == Edit /\ UNCHANGED rixsVars

Next ==
    \/ StartRun \/ StartSolver \/ TranslateInput
    \/ Prepare \/ RunEdge \/ StopEdge \/ WritePoles \/ Copy \/ Publish
    \/ RunStages \/ Solve \/ WriteSpectrum \/ Derive \/ Keep \/ Stop \/ StopWriting
    \/ Clear \/ EditInput

Spec == Init /\ [][Next]_vars

-----------------------------------------------------------------------------
(* Properties. *)

TypeOK ==
    /\ input \in Versions
    /\ files \in [Files -> Versions \cup {None, Torn}]
    /\ sentinel \in BOOLEAN
    /\ rd \in {"idle", "parse", "write", "unlink"}
    /\ parsed \in Accepted \cup {None}
    /\ todo \subseteq Files
    /\ open \in Files \cup {None}
    /\ pc \in {"idle", "rdinp", "prepare", "edge", "poles", "copy", "publish",
               "stages", "solve", "write"}
    /\ pc = "rdinp" <=> rd # "idle"
    /\ full \in BOOLEAN
    /\ checked \in BOOLEAN
    /\ source \in Versions \cup {None}
    /\ at \in DOMAIN Published
    /\ dirs \in [1 .. 2 -> [AllKinds -> Accepted \cup {None}]]
    /\ staged \in [Names -> Accepted \cup {None}]
    /\ pair \in [Names -> Accepted \cup {None}]
    /\ poles \in Accepted \cup {None}
    /\ shared \in Accepted \cup {None}
    /\ out \in 1 .. SpectrumFiles
    /\ spectrum \in [1 .. SpectrumFiles ->
                        {None, Torn} \cup
                        [pair    : SUBSET [kind : AllKinds, of : Accepted],
                         shared  : BOOLEAN,
                         checked : BOOLEAN]]

\* A spectrum computed by a run that found no rixsET.dat, or derived from one,
\* is of the directory's own files or of a whole set of published ones of one
\* preparation: those its pipelines write are all of the input it read,
\* whatever stopped the runs before it.  A run that finds rixsET.dat skips the
\* refusal of incomplete sets, and may compute from parts of two preparations.
SolvedFromOnePair ==
    \A o \in 1 .. SpectrumFiles :
        LET s == spectrum[o] IN
        ~Missing(o) /\ s.checked =>
            \/ s.pair = {}
            \/ /\ ~s.shared
               /\ \E v \in Accepted :
                    \A r \in s.pair : r.kind \in Makes[v] => r.of = v

\* No run replaces a published file, its own or one a user put there.
PublishedKept ==
    [][\A n \in Names : pair[n] # None /\ pair'[n] # pair[n] => pc = "idle"]_vars

\* What is being published was computed from the input the preparation read,
\* whatever earlier preparations left in the subdirectories and under the
\* temporary names, except what that input does not ask for.
PreparedFromSource ==
    pc = "publish" =>
        \A i \in DOMAIN Published :
            LET n == Published[i] IN
            n.kind \in Makes[source] =>
                source = IF i < at THEN pair[n] ELSE staged[n]
==============================================================================
