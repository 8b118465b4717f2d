------------------------------ MODULE Scheduler ------------------------------
(***************************************************************************)
(* The stage scheduler of the engine: the two passes of a full run over    *)
(* one work directory.                                                     *)
(*                                                                         *)
(* run_supported_cached_modules_into (discovery) walks the stages in the   *)
(* scientific branch order and runs each one its files can already         *)
(* satisfy; run_remaining_required_modules (completion) then runs what is  *)
(* still required, and fails when that is impossible.  Nothing but the     *)
(* files of the work directory carries a result from one stage to the next *)
(* and from one run to the next, so what a run delivers depends on the     *)
(* order of the two passes and on the predicate that guards each stage.    *)
(*                                                                         *)
(* A stage's outputs are one value: "none", "old" (derived from an earlier *)
(* input, or from something that was) or "new" (derived from the input the *)
(* directory holds now).  A file that cannot be decoded counts as "none".  *)
(* SFCONV has no file of its own: it convolves the spectra FF2X wrote, in  *)
(* place and one after another, and refuses when any is convolved already; *)
(* applied counts how often that was done to the most convolved of them.   *)
(***************************************************************************)
EXTENDS Naturals, Sequences

\* The order of the first pass.
Discovery == <<"rhorrp", "pot", "xsph", "fms", "mkgtr", "band", "compton",
               "eels", "eelsmdff", "path", "genfmt", "ff2x", "sfconv">>

\* The order of the second pass.
Completion == <<"pot", "xsph", "fms", "mkgtr", "band", "rhorrp", "compton",
                "path", "genfmt", "ff2x", "eels", "eelsmdff", "sfconv">>

Stages == {Discovery[i] : i \in DOMAIN Discovery}

Schedule == Discovery \o Completion

\* The stages whose outputs a stage generates its own from.
Sources == [rhorrp   |-> {"pot"},
            pot      |-> {},
            xsph     |-> {"pot"},
            fms      |-> {"xsph"},
            mkgtr    |-> {"fms"},
            band     |-> {"xsph"},
            compton  |-> {"pot", "xsph", "fms"},
            eels     |-> {"ff2x"},
            eelsmdff |-> {"ff2x"},
            path     |-> {"xsph"},
            genfmt   |-> {"xsph", "path"},
            ff2x     |-> {"xsph", "genfmt"},
            sfconv   |-> {"ff2x"}]

CONSTANTS
    Requests,   \* the sets of stages the modelled inputs may request
    MaxRuns     \* how often the work directory is run

\* MKGTR has no switch of its own: it does nothing unless FMS is enabled.
ASSUME RequestsAssumption ==
    /\ Requests \subseteq SUBSET Stages
    /\ \A r \in Requests : "mkgtr" \in r => "fms" \in r
ASSUME MaxRunsAssumption == MaxRuns \in Nat \ {0}

VARIABLES
    requested,  \* the stages the input enables
    work,       \* the outputs of every stage in the work directory
    applied,    \* convolutions applied to a present spectrum of FF2X, at most
    pos,        \* position in Schedule
    running,    \* the stage being executed, or "none"
    announced,  \* the stage named by the last StageStarted, or "none"
    reports,    \* the reports pushed for each stage in this run
    cancelled,  \* the run was cancelled or its deadline has passed
    gaveUp,     \* the stages whose pass-1 attempt ended without outputs
    outcome,    \* "running", "ok", "failed" or "interrupted"
    runs,       \* runs so far
    settled     \* successful runs in a row on the present input, at most 2

vars == <<requested, work, applied, pos, running, announced, reports,
          cancelled, gaveUp, outcome, runs, settled>>

-----------------------------------------------------------------------------
(* What the predicates of the stages see. *)

Present(s) == work[s] # "none"

HasSources(s) == \A t \in Sources[s] : Present(t)

InDiscovery == pos \in 1 .. Len(Discovery)

\* The stage can be run: from its own outputs or from those of its sources.
\* MKGTR always rebuilds from the FMS matrix.  SFCONV needs spectra that are
\* not convolved yet.
Satisfiable(s) ==
    /\ s \in requested
    /\ \/ HasSources(s) /\ (s = "sfconv" => applied = 0)
       \/ Present(s) /\ s # "mkgtr"

\* The stage's own outputs are there.  POT compares them with its input too, and
\* BAND with what it would generate from its sources.
Completed(s) ==
    /\ s \in requested
    /\ CASE s = "pot"  -> work[s] = "new"
         [] s = "band" -> Present(s) /\ (HasSources(s) => work[s] = work["xsph"])
         [] OTHER      -> Present(s)

Discovered_OnlyCached(s) == s = "pot" \/ (s \in requested /\ Present(s))

\* The condition of the first pass.  POT is announced before it is examined.
Discovered(s) == s = "pot" \/ Satisfiable(s)

Required_Always(s) == TRUE

\* The condition of the second pass: one of three tests, stage by stage.  A
\* stage the input does not request always passes it and then does nothing.
Required(s) ==
    CASE s \in {"pot", "fms"} -> reports[s] = 0 /\ ~Completed(s)
      [] s = "xsph" -> reports[s] = 0 /\ ~Satisfiable(s)
      [] s = "mkgtr" -> Completed("fms") /\ reports[s] = 0
      [] s = "sfconv" -> reports[s] = 0
      [] s \in {"band", "eels", "eelsmdff"} -> ~Completed(s)
      [] OTHER -> ~Satisfiable(s)

Invoked(s) == IF InDiscovery THEN Discovered(s) ELSE Required(s)

\* Reading a BAND cache passes a cancellation checkpoint, and an error of any
\* kind counts as an unusable cache.
MayMissItsCache(s) == cancelled /\ s = "band"

Announces_Unregistered(s) ==
    IF InDiscovery /\ s = "band" /\ ~Completed(s) THEN "band-handoff" ELSE s

\* The name a stage is announced with.
Announces(s) ==
    IF InDiscovery /\ s = "band" /\ ~Completed(s) THEN "rixs" ELSE s

-----------------------------------------------------------------------------
(* What running a stage does. *)

Result_KeepsReadable(s) ==
    IF Present(s) \/ ~HasSources(s) THEN work[s]
    ELSE IF \A t \in Sources[s] : work[t] = "new" THEN "new" ELSE "old"

\* What the stage leaves: with sources its outputs are (re)generated unless
\* they match; without, they are re-rendered as they are.
Result(s) ==
    IF ~HasSources(s) THEN work[s]
    ELSE IF \A t \in Sources[s] : work[t] = "new" THEN "new" ELSE "old"

CanRun_Reconvolves(s) ==
    /\ s \notin gaveUp
    /\ s = "sfconv" \/ Satisfiable(s)

\* Without usable files a stage fails, SFCONV only when the spectra are already
\* convolved.  What failed on the present files fails on them again.
CanRun(s) ==
    /\ s \notin gaveUp
    /\ IF s = "sfconv" THEN ~Present("ff2x") \/ applied = 0
       ELSE Satisfiable(s)

\* SFCONV without spectra writes its log and reports nothing.
Reports(s) == s \in requested /\ (s = "sfconv" => Present("ff2x"))

\* The pass-1 attempts that report nothing, or a partial hand-off, instead of
\* failing: a POT SCF calculation and the BAND pre-solver.
MayGiveUp(s) ==
    /\ InDiscovery
    /\ s \in requested
    /\ s \in {"pot", "band"} /\ ~Completed(s)

-----------------------------------------------------------------------------
Relevant(stages) ==
    stages \cup UNION {Sources[s] : s \in stages}

\* A work directory holding any outputs of an earlier input.
Init ==
    /\ requested \in Requests
    /\ work \in {w \in [Stages -> {"none", "old"}] :
                    \A s \in Stages :
                        w[s] # "none" => s \in Relevant(requested) \ {"sfconv"}}
    /\ applied \in (IF Present("ff2x") THEN 0 .. 1 ELSE {0})
    /\ pos = 1
    /\ running = "none"
    /\ announced = "none"
    /\ reports = [s \in Stages |-> 0]
    /\ cancelled = FALSE
    /\ gaveUp = {}
    /\ outcome = "running"
    /\ runs = 1
    /\ settled = 0

Deciding ==
    /\ outcome = "running"
    /\ running = "none"
    /\ pos \in DOMAIN Schedule

\* The predicate says no: the next stage.
Skip ==
    /\ Deciding
    /\ LET s == Schedule[pos] IN
        \/ ~Invoked(s)
        \/ InDiscovery /\ MayMissItsCache(s)
    /\ pos' = pos + 1
    /\ UNCHANGED <<requested, work, applied, running, announced, reports,
                   cancelled, gaveUp, outcome, runs, settled>>

\* execution::start: a run that was interrupted stops here.
Announce ==
    /\ Deciding
    /\ LET s == Schedule[pos] IN
        /\ Invoked(s) \/ (~InDiscovery /\ MayMissItsCache(s))
        /\ IF cancelled
           THEN /\ outcome' = "interrupted"
                /\ UNCHANGED <<running, announced>>
           ELSE /\ running' = s
                /\ announced' = Announces(s)
                /\ UNCHANGED outcome
    /\ UNCHANGED <<requested, work, applied, pos, reports, cancelled, gaveUp,
                   runs, settled>>

\* The stage runs to its end: its outputs, its report, the next stage.
Complete ==
    /\ outcome = "running"
    /\ running # "none"
    /\ LET s == running IN
        /\ s \in requested => CanRun(s)
        /\ work' = IF s \in requested \ {"sfconv"}
                   THEN [work EXCEPT ![s] = Result(s)]
                   ELSE work
        /\ applied' = IF s = "ff2x" /\ s \in requested /\ HasSources(s) THEN 0
                      ELSE IF s = "sfconv" /\ Reports(s) THEN applied + 1
                      ELSE applied
        /\ reports' = IF Reports(s) THEN [reports EXCEPT ![s] = @ + 1]
                      ELSE reports
    /\ running' = "none"
    /\ pos' = pos + 1
    /\ UNCHANGED <<requested, announced, cancelled, gaveUp, outcome, runs, settled>>

\* The error of a pass-1 attempt is dropped: the second pass decides.
GiveUp ==
    /\ outcome = "running"
    /\ running # "none"
    /\ MayGiveUp(running)
    /\ gaveUp' = gaveUp \cup {running}
    /\ running' = "none"
    /\ pos' = pos + 1
    /\ UNCHANGED <<requested, work, applied, announced, reports, cancelled,
                   outcome, runs, settled>>

\* A stage or a predicate fails, for want of files, in its numerics, in I/O
\* or at a checkpoint of its own, and the run ends with that error.  SFCONV may
\* have convolved some of the spectra by then.
Break ==
    /\ outcome = "running"
    /\ pos \in DOMAIN Schedule
    /\ outcome' \in (IF cancelled THEN {"failed", "interrupted"}
                     ELSE {"failed"})
    /\ applied' \in {applied} \cup
            (IF running = "sfconv" /\ Reports(running) /\ CanRun(running) THEN {applied + 1}
             ELSE {})
    /\ running' = "none"
    /\ UNCHANGED <<requested, work, pos, announced, reports,
                   cancelled, gaveUp, runs, settled>>

\* Both passes are done.
Return ==
    /\ outcome = "running"
    /\ pos = Len(Schedule) + 1
    /\ outcome' = "ok"
    /\ settled' = IF settled = 2 THEN 2 ELSE settled + 1
    /\ UNCHANGED <<requested, work, applied, pos, running, announced, reports,
                   cancelled, gaveUp, runs>>

\* The embedding program cancels the run, or its deadline passes.
Cancel ==
    /\ outcome = "running"
    /\ ~cancelled
    /\ cancelled' = TRUE
    /\ UNCHANGED <<requested, work, applied, pos, running, announced, reports,
                   gaveUp, outcome, runs, settled>>

\* The directory is run once more, after its input was edited or not.
RunAgain ==
    /\ outcome # "running"
    /\ runs < MaxRuns
    /\ runs' = runs + 1
    /\ \E edited \in BOOLEAN :
        /\ work' = IF edited
                   THEN [s \in Stages |-> IF Present(s) THEN "old" ELSE "none"]
                   ELSE work
        /\ settled' = IF edited \/ outcome # "ok" THEN 0 ELSE settled
    /\ pos' = 1
    /\ running' = "none"
    /\ announced' = "none"
    /\ reports' = [s \in Stages |-> 0]
    /\ cancelled' = FALSE
    /\ gaveUp' = {}
    /\ outcome' = "running"
    /\ UNCHANGED <<requested, applied>>

Next == \/ Skip
        \/ Announce
        \/ Complete
        \/ GiveUp
        \/ Break
        \/ Return
        \/ Cancel
        \/ RunAgain

Spec == Init /\ [][Next]_vars

-----------------------------------------------------------------------------
(* Properties. *)

TypeOK ==
    /\ requested \in Requests
    /\ work \in [Stages -> {"none", "old", "new"}]
    /\ applied \in Nat
    /\ pos \in 1 .. Len(Schedule) + 1
    /\ running \in Stages \cup {"none"}
    /\ announced \in Stages \cup {"none", "rixs"}
    /\ reports \in [Stages -> Nat]
    /\ cancelled \in BOOLEAN
    /\ gaveUp \subseteq Stages
    /\ outcome \in {"running", "ok", "failed", "interrupted"}
    /\ runs \in 1 .. MaxRuns
    /\ settled \in 0 .. 2

\* The outputs of the stage are as recent as the sources that are there.
UpToDate(s) ==
    HasSources(s) => (work[s] = "new" <=> \A t \in Sources[s] : work[t] = "new")

\* The stage did its work in this directory, and from what is there now.
Delivered(s) ==
    IF s = "sfconv" THEN Present("ff2x") => applied = 1
    ELSE Present(s) /\ UpToDate(s)

Before(s, t) ==
    \E i, j \in DOMAIN Discovery :
        i < j /\ Discovery[i] = s /\ Discovery[j] = t

\* The stages the first pass tries after everything they read.
InOrder == {s \in Stages : \A t \in Sources[s] : Before(t, s)}

\* A run that returns success has produced every requested stage that is
\* tried after its sources, from the present outputs of those sources, and has
\* reported it: whatever the directory held before, whichever attempts of the
\* first pass gave up, and however late the run was cancelled.
SuccessIsComplete ==
    outcome = "ok" =>
        \A s \in requested \cap InOrder :
            Delivered(s) /\ (Reports(s) => reports[s] = 1)

\* However often a directory is run, stopped and run again, its spectra are
\* never convolved with the spectral function a second time.
ConvolvedOnce == applied <= 1

\* Running an unchanged input again until two runs in a row succeed delivers
\* everything requested, the stages tried before their sources included.
SecondRunSettles ==
    settled = 2 /\ outcome = "ok" => \A s \in requested : Delivered(s)

\* A declared density request is satisfied by the run (the port plan).
DensityDelivered ==
    outcome = "ok" /\ "rhorrp" \in requested => Present("rhorrp")
=============================================================================
