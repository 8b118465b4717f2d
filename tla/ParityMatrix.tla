---------------------------- MODULE ParityMatrix ----------------------------
(***************************************************************************)
(* run-parity-matrix.py: the resumable walk over the stock workflows that  *)
(* compares the program with the golden references before a release.       *)
(*                                                                         *)
(* The result is workflow-summary.json.  It is saved before and after each *)
(* workflow, so that an interrupted matrix can be resumed: workflows with  *)
(* a verdict are kept, the one that was running is run again.  One of the  *)
(* workflows, HIGHZ, consists of many elements; these are kept in a report *)
(* of their own.  While the matrix runs, and between two runs, the golden  *)
(* files, the source and the executable may change.                        *)
(*                                                                         *)
(* A file, and a state of the source, is a version; an edit may be undone, *)
(* so that a version comes back and a hash compared before and after does  *)
(* not show it.  What the comparisons read besides the inputs, the golden  *)
(* outputs and HighZ.out, and the copies under references/ are left out:   *)
(* nothing records the outputs.  The checks before a resume are one step,  *)
(* and so are those at the end, and a comparison of xtask once the         *)
(* executable is built.  A child of a killed script does nothing more, and *)
(* xtask itself is not replaced.                                           *)
(***************************************************************************)
EXTENDS Naturals, Sequences

CONSTANTS
    Order,      \* stock_workflows, in order
    HighZ,      \* the workflow that consists of elements
    Elements,   \* its elements, a range of numbers
    Versions,   \* what a file or the source can be
    MaxRuns,    \* how often the script is started
    MaxEdits,   \* how many changes there are from outside
    Clobbers,   \* another build may replace the executable
    None,       \* nothing is recorded, there is no such file
    Torn        \* a file that was being written when the script was killed

Workflows == {Order[i] : i \in DOMAIN Order}

ASSUME MatrixAssumption ==
    /\ Order \in Seq(Workflows)
    /\ HighZ \in Workflows
    /\ \A i, j \in DOMAIN Order : Order[i] = Order[j] => i = j
    /\ Elements \subseteq Nat /\ Elements # {}
    /\ Workflows \cap Elements = {}
    /\ 1 \in Versions /\ Versions \subseteq Nat \ {0}
    /\ MaxRuns \in Nat /\ MaxEdits \in Nat /\ Clobbers \in BOOLEAN

\* An executable that was not built from the source.
Other == 0

VARIABLES
    golden,     \* the golden files: manifests, inputs and the HIGHZ template
    head,       \* the commit
    tree,       \* the source as it is checked out, with any uncommitted change
    binary,     \* what the executable was built from
    edits,      \* changes from outside so far
    disk,       \* workflow-summary.json
    report,     \* reports/: the input named by the last report on a workflow
    results,    \* reports/HIGHZ.json: the elements done
    retained,   \* inputs/: the copies of the inputs
    pc,         \* "off", or the step that is next
    resume,     \* --resume was given
    at,         \* position in Order
    mem,        \* the summary in memory
    elements,   \* the elements done, in memory
    runs        \* starts so far

env == <<golden, head, tree, binary, edits>>
vars == <<golden, head, tree, binary, edits, disk, report, results, retained, pc,
          resume, at, mem, elements, runs>>

Running == [status |-> "running", from |-> {}]

Fresh_ForgetsElements ==
    [commit    |-> head,
     build     |-> None,
     leftover  |-> results # None,
     manifests |-> [w \in Workflows |-> None],
     inputs    |-> [x \in Workflows |-> None],
     rows      |-> [w \in Workflows |-> None],
     complete  |-> FALSE,
     dirty     |-> FALSE,
     unchanged |-> FALSE]

\* A summary at the start.  "leftover" is not in the file: it tells whether the
\* matrix began where an earlier one had left a report on elements.
Fresh ==
    [commit    |-> head,
     build     |-> None,
     leftover  |-> results # None,
     manifests |-> [w \in Workflows |-> None],
     inputs    |-> [x \in Workflows \cup Elements |-> None],
     rows      |-> [w \in Workflows |-> None],
     complete  |-> FALSE,
     dirty     |-> FALSE,
     unchanged |-> FALSE]

Init ==
    /\ golden = [manifest |-> [w \in Workflows |-> 1], input |-> [w \in Workflows |-> 1]]
    /\ head = 1
    /\ tree = 1
    /\ binary = 1
    /\ edits = 0
    /\ disk = None
    /\ report = [w \in Workflows |-> None]
    /\ results = None
    /\ retained = [x \in Workflows \cup Elements |-> None]
    /\ pc = "off"
    /\ resume = FALSE
    /\ at = 1
    /\ mem = None
    /\ elements = {}
    /\ runs = 0

\* The workflow the loop is at.
Workflow == Order[at]

-----------------------------------------------------------------------------
(* Starting. *)

\* The checkout must be clean.
Start(again) ==
    /\ pc = "off"
    /\ runs < MaxRuns
    /\ tree = head
    /\ runs' = runs + 1
    /\ resume' = again
    /\ at' = 1
    /\ mem' = None
    /\ elements' = {}
    /\ pc' = "build"
    /\ UNCHANGED <<env, disk, report, results, retained>>

\* cargo build: of the source as it is by then.
Build ==
    /\ pc = "build"
    /\ binary' = tree
    /\ pc' = "commit"
    /\ UNCHANGED <<golden, head, tree, edits, disk, report, results, retained, resume, at,
                   mem, elements, runs>>

\* git rev-parse HEAD.
ReadCommit ==
    /\ pc = "commit"
    /\ mem' = Fresh
    /\ pc' = "hash"
    /\ UNCHANGED <<env, disk, report, results, retained, resume, at, elements, runs>>

\* What --resume compares: the provenance, every recorded input with the copy and
\* with the golden file, and every recorded manifest.
Resumable ==
    /\ disk \notin {None, Torn}
    /\ disk.commit = mem.commit /\ disk.build = binary /\ ~disk.dirty
    /\ \A x \in Workflows \cup Elements : disk.inputs[x] \in {None, retained[x]}
    /\ \A x \in Workflows :
        /\ disk.inputs[x] \in {None, golden.input[x]}
        /\ disk.manifests[x] \in {None, golden.manifest[x]}

\* The executable is hashed; a resume goes on with the summary that is saved.
HashBinary ==
    /\ pc = "hash"
    /\ IF ~resume
       THEN mem' = [mem EXCEPT !.build = binary] /\ pc' = "next"
       ELSE IF Resumable
       THEN mem' = [disk EXCEPT !.complete = FALSE] /\ pc' = "next"
       ELSE pc' = "off" /\ UNCHANGED mem
    /\ UNCHANGED <<env, disk, report, results, retained, resume, at, elements, runs>>

-----------------------------------------------------------------------------
(* A workflow. *)

Kept_AnyRow == mem.rows[Workflow] # None

Kept_PassOnly == mem.rows[Workflow] # None /\ mem.rows[Workflow].status = "pass"

\* "retain completed results"
Kept == mem.rows[Workflow] \notin {None, Running}

\* The next workflow is passed over, or marked as running and saved.
Enter ==
    /\ pc = "next"
    /\ at \in DOMAIN Order
    /\ IF Kept
       THEN /\ at' = at + 1
            /\ UNCHANGED <<mem, disk, pc>>
       ELSE /\ mem' = [mem EXCEPT !.rows[Workflow] = Running]
            /\ disk' = mem'
            /\ pc' = "manifest"
            /\ UNCHANGED at
    /\ UNCHANGED <<env, report, results, retained, resume, elements, runs>>

\* The hash of the reference manifest; it is not saved yet.
ReadManifest ==
    /\ pc = "manifest"
    /\ mem' = [mem EXCEPT !.manifests[Workflow] = golden.manifest[Workflow]]
    /\ pc' = IF Workflow = HighZ THEN "template" ELSE "invoke"
    /\ UNCHANGED <<env, disk, report, results, retained, resume, at, elements, runs>>

\* xtask parity builds the executable again before it does anything else.
Rebuild ==
    /\ pc = "invoke"
    /\ binary' = tree
    /\ pc' = "compare"
    /\ UNCHANGED <<golden, head, tree, edits, disk, report, results, retained, resume, at,
                   mem, elements, runs>>

\* The build fails, or the time is over before it is done.
RebuildFails(status) ==
    /\ pc = "invoke"
    /\ mem' = [mem EXCEPT !.rows[Workflow] = [status |-> status, from |-> {}]]
    /\ pc' = "retain"
    /\ UNCHANGED <<env, disk, report, results, retained, resume, at, elements, runs>>

\* It copies the inputs, hashes the copies, runs the executable on them and writes
\* its report before it judges; what does not pass may end before or in that.
Compare(status) ==
    /\ pc = "compare"
    /\ mem' = [mem EXCEPT !.rows[Workflow] =
                [status |-> status,
                 from   |-> {[of     |-> Workflow,
                              input  |-> golden.input[Workflow],
                              binary |-> binary,
                              ok     |-> status = "pass"]}]]
    /\ \E named \in {golden.input[Workflow]}
                      \cup (IF status = "pass" THEN {} ELSE {report[Workflow], Torn}) :
        report' = [report EXCEPT ![Workflow] = named]
    /\ pc' = "retain"
    /\ UNCHANGED <<env, disk, results, retained, resume, at, elements, runs>>

Stale_Unasked == FALSE

\* "input changed since execution": of the report, or of an earlier attempt's; or
\* the report cannot be read.
Stale == report[Workflow] # golden.input[Workflow]

\* The inputs the report names are retained, or the script ends.
RetainInputs ==
    /\ pc = "retain"
    /\ IF report[Workflow] = None
       THEN pc' = "verdict" /\ UNCHANGED <<mem, retained>>
       ELSE IF Stale
       THEN pc' = "off" /\ UNCHANGED <<mem, retained>>
       ELSE /\ retained' = [retained EXCEPT ![Workflow] = golden.input[Workflow]]
            /\ mem' = [mem EXCEPT !.inputs[Workflow] = golden.input[Workflow]]
            /\ pc' = "verdict"
    /\ UNCHANGED <<env, disk, report, results, resume, at, elements, runs>>

\* The verdict is saved.
SaveVerdict ==
    /\ pc = "verdict"
    /\ disk' = mem
    /\ at' = at + 1
    /\ pc' = "next"
    /\ UNCHANGED <<env, report, results, retained, resume, mem, elements, runs>>

-----------------------------------------------------------------------------
(* HIGHZ. *)

Numbers(done) == {c.of : c \in done}

\* The template is retained.  With --resume the elements of the report are
\* taken over if what is retained for them is what the template gives now.
ReadTemplate ==
    /\ pc = "template"
    /\ retained' = [retained EXCEPT ![HighZ] = golden.input[HighZ]]
    /\ LET done == IF resume /\ results # None THEN results ELSE {} IN
        IF done = Torn \/ \E n \in Numbers(done) : retained[n] # golden.input[HighZ]
        THEN /\ pc' = "off"
             /\ UNCHANGED <<mem, elements>>
        ELSE /\ elements' = done
             /\ mem' = [mem EXCEPT !.inputs =
                    [x \in Workflows \cup Elements |->
                        IF x = HighZ \/ x \in Numbers(done) THEN golden.input[HighZ]
                        ELSE @[x]]]
             /\ pc' = "save"
    /\ UNCHANGED <<env, disk, report, results, resume, at, runs>>

\* The input of the next element, made from the template as it is now.
PrepareElement ==
    /\ pc = "element"
    /\ LET left == Elements \ Numbers(elements) IN
        \E n \in left :
            /\ \A k \in left : n <= k
            /\ retained' = [retained EXCEPT ![n] = golden.input[HighZ]]
            /\ mem' = [mem EXCEPT !.inputs[n] = golden.input[HighZ]]
    /\ pc' = "atomic"
    /\ UNCHANGED <<env, disk, report, results, resume, at, elements, runs>>

\* The modules rdinp and atomic; the comparison with the reference energy.
RunElement(ok) ==
    /\ pc = "atomic"
    /\ \E n \in Elements \ Numbers(elements) :
        /\ \A k \in Elements \ Numbers(elements) : n <= k
        /\ elements' = elements \cup
                {[of |-> n, input |-> mem.inputs[n], binary |-> binary, ok |-> ok]}
    /\ pc' = "report"
    /\ UNCHANGED <<env, disk, report, results, retained, resume, at, mem, runs>>

\* The report is written before the summary.
WriteReport ==
    /\ pc = "report"
    /\ results' = elements
    /\ pc' = "save"
    /\ UNCHANGED <<env, disk, report, retained, resume, at, mem, elements, runs>>

\* After the template, and after each element, the summary is saved.
SaveProgress ==
    /\ pc = "save"
    /\ disk' = mem
    /\ pc' = "element"
    /\ UNCHANGED <<env, report, results, retained, resume, at, mem, elements, runs>>

\* All elements are there: they pass together or not at all.
Judge ==
    /\ pc = "element"
    /\ Elements = Numbers(elements)
    /\ mem' = [mem EXCEPT !.rows[HighZ] =
                [status |-> IF \A c \in elements : c.ok THEN "pass" ELSE "fail",
                 from   |-> elements]]
    /\ pc' = "verdict"
    /\ UNCHANGED <<env, disk, report, results, retained, resume, at, elements, runs>>

-----------------------------------------------------------------------------
(* The end, and what comes from outside. *)

\* The recorded manifests and the commit are still those.
Unchanged ==
    /\ \A x \in Workflows : mem.manifests[x] \in {None, golden.manifest[x]}
    /\ head = mem.commit

\* Only a full matrix is marked complete.
Finish ==
    /\ pc = "next"
    /\ at = Len(Order) + 1
    /\ IF Unchanged
       THEN /\ mem' = [mem EXCEPT !.complete = \A x \in Workflows : mem.rows[x] # None,
                                  !.dirty = (tree # head),
                                  !.unchanged = (binary = mem.build)]
            /\ disk' = mem'
       ELSE UNCHANGED <<mem, disk>>
    /\ pc' = "off"
    /\ UNCHANGED <<env, report, results, retained, resume, at, elements, runs>>

\* A kill or an exception, also in the middle of a write.
Kill ==
    /\ pc # "off"
    /\ disk' \in {disk} \cup (IF pc \in {"next", "verdict", "save"}
                              THEN {Torn} ELSE {})
    /\ results' \in {results} \cup (IF pc = "report" THEN {Torn} ELSE {})
    /\ pc' = "off"
    /\ mem' = None
    /\ elements' = {}
    /\ UNCHANGED <<env, report, retained, resume, at, runs>>

EditGolden ==
    /\ \E kind \in {"manifest", "input"}, x \in Workflows, v \in Versions :
        golden' = [golden EXCEPT ![kind][x] = v]
    /\ UNCHANGED <<head, tree, binary>>

\* The source is edited or restored; or a state of it is committed or checked out.
ChangeSource ==
    /\ tree' \in Versions
    /\ head' \in {head, tree'}
    /\ UNCHANGED <<golden, binary>>

ReplaceBinary ==
    /\ Clobbers
    /\ binary' = Other
    /\ UNCHANGED <<golden, head, tree>>

Outside ==
    /\ edits < MaxEdits
    /\ edits' = edits + 1
    /\ EditGolden \/ ChangeSource \/ ReplaceBinary
    /\ UNCHANGED <<disk, report, results, retained, pc, resume, at, mem, elements, runs>>

Next ==
    \/ \E again \in BOOLEAN : Start(again)
    \/ Build \/ ReadCommit \/ HashBinary
    \/ Enter \/ ReadManifest
    \/ Rebuild
    \/ \E status \in {"fail", "timeout"} : RebuildFails(status)
    \/ \E status \in {"pass", "fail", "timeout"} : Compare(status)
    \/ RetainInputs \/ SaveVerdict
    \/ ReadTemplate \/ PrepareElement
    \/ \E ok \in BOOLEAN : RunElement(ok)
    \/ WriteReport \/ SaveProgress \/ Judge
    \/ Finish \/ Kill
    \/ Outside

Spec == Init /\ [][Next]_vars

-----------------------------------------------------------------------------
(* Properties. *)

Computations ==
    [of     : Workflows \cup Elements,
     input  : Versions,
     binary : Versions \cup {Other},
     ok     : BOOLEAN]

Verdicts ==
    [status : {"running", "pass", "fail", "timeout"}, from : SUBSET Computations]

Summaries ==
    [commit    : Versions,
     build     : Versions \cup {Other, None},
     leftover  : BOOLEAN,
     manifests : [Workflows -> Versions \cup {None}],
     inputs    : [Workflows \cup Elements -> Versions \cup {None}],
     rows      : [Workflows -> Verdicts \cup {None}],
     complete  : BOOLEAN,
     dirty     : BOOLEAN,
     unchanged : BOOLEAN]

ASSUME NothingAssumption ==
    None \notin Verdicts /\ None \notin Summaries /\ {None, Torn} \cap Nat = {}

TypeOK ==
    /\ golden \in [{"manifest", "input"} -> [Workflows -> Versions]]
    /\ head \in Versions
    /\ tree \in Versions
    /\ binary \in Versions \cup {Other}
    /\ edits \in 0 .. MaxEdits
    /\ disk \in Summaries \cup {None, Torn}
    /\ report \in [Workflows -> Versions \cup {None, Torn}]
    /\ results \in {None, Torn} \cup SUBSET Computations
    /\ retained \in [Workflows \cup Elements -> Versions \cup {None}]
    /\ pc \in {"off", "build", "commit", "hash", "next", "manifest", "invoke", "compare",
               "retain", "verdict", "template", "element", "atomic", "report", "save"}
    /\ resume \in BOOLEAN
    /\ at \in 1 .. Len(Order) + 1
    /\ mem \in Summaries \cup {None}
    /\ pc \notin {"off", "build", "commit"} => mem # None
    /\ elements \subseteq Computations
    /\ runs \in 0 .. MaxRuns

\* There is a summary that says the matrix is complete.
Certified == disk \notin {None, Torn} /\ disk.complete

\* "this script never certifies a subset": a complete summary has a verdict for
\* every workflow, HIGHZ's rests on every element, and pass means that all of
\* them passed, wherever the runs that made it were killed and resumed.
NeverCertifiesSubset ==
    Certified =>
        /\ \A x \in Workflows :
            /\ disk.rows[x] \notin {None, Running}
            /\ disk.rows[x].status = "pass" => \A c \in disk.rows[x].from : c.ok
        /\ Numbers(disk.rows[HighZ].from) = Elements

\* The inputs a saved summary records are those its verdicts rest on, however the
\* golden files were edited, also back again, and the matrix killed and resumed: a
\* workflow that passed was run on the recorded input; and every element HIGHZ's
\* verdict counts was computed from the input recorded for it, provided the matrix
\* did not begin in a directory where an earlier one had left elements.
VerdictsMatchRecord ==
    disk \notin {None, Torn} =>
        /\ \A x \in Workflows \ {HighZ} :
            disk.rows[x] # None /\ disk.rows[x].status = "pass" =>
                \A c \in disk.rows[x].from : disk.inputs[x] = c.input
        /\ disk.rows[HighZ] # None /\ ~disk.leftover =>
                \A c \in disk.rows[HighZ].from : disk.inputs[c.of] = c.input

\* A verdict that was saved stays in the summary, as long as it is resumed.
VerdictsKept ==
    [][\A x \in Workflows :
        disk \notin {None, Torn} /\ disk' \notin {None, Torn} /\ resume' =>
            disk.rows[x] \in {None, Running, disk'.rows[x]}]_vars

\* "retain completed results after checking their provenance and inputs" (the
\* help text of --resume): what a complete summary rests on was computed by the
\* executable whose hash it records and finds unchanged.
RetainedOfProvenance ==
    Certified /\ disk.unchanged =>
        \A x \in Workflows : \A c \in disk.rows[x].from : c.binary = disk.build
=============================================================================
