# Verification of ReFEFF

ReFEFF is a Rust port of FEFF10: a pipeline of some twenty stages computes X-ray
absorption spectra from one input file, `feff.inp`, in one work directory. Most of
its code is floating-point physics, which is compared with FEFF10 by other means.
This directory holds TLA+ models of the rest: how runs are started, ordered,
interrupted, published, cached and resumed, in the engine, in the browser and in the
release scripts, and the one combinatorial algorithm of the pipeline, the path
search. TLC checks the models on small instances; TLAPS proves the most important
properties for all instances.

Paths below are relative to the repository; line numbers are in `PROJECT.json`.

## 1. The system

| Component | State it keeps | Operations |
|---|---|---|
| Facade `Runner` (`crates/refeff/src/lib.rs`) | the output directory, `.refeff-recompute-*` and `.refeff-backup-*` beside it, the cancellation token | `run_files` with the policies *reuse*, *recompute*, *conflict*; `run_in_memory`; `publish_recomputed` |
| Execution scope (`refeff-engine/src/execution.rs`, `refeff-core/src/execution.rs`, `refeff-linalg/src/lib.rs`) | faer's process-wide parallelism policy, the lock around it, a Rayon pool, the control (token, deadline) and observer of each calculation | `with_execution`, `with_settings`, `with_parallelism`, `start` at a stage boundary, checkpoints, `configure_parallelism` |
| Scheduler (`refeff-engine/src/scheduler.rs`) | none of its own: the files of the work directory, and the list of reports | the discovery pass and the completion pass of a full run |
| Stage modules (`refeff-engine/src/{pot,xsph,fms,...}.rs`) | their files | for the scheduler: *can it run?*, *has it run?*, *run it* |
| Provenance cache (`refeff-engine/src/cache.rs`) | manifests under `.refeff-cache`, their pending files | look up, replay, certify, rename |
| Engine entry (`refeff-engine/src/lib.rs`) | `.feff.error`, the hand-off files of RDINP | `execute_pipeline`, `execute_module`, `execute_rdinp` |
| RIXS workflow (`refeff-engine/src/rixs.rs`) | two edge subdirectories, temporary copies, the nine published files, `edges.dat`, the spectra (`rixsET.dat` first) | prepare both edges, publish, solve, write or derive the spectra |
| Path finder (`refeff-core/src/path`) | neighbour rows, a heap of candidates, the records | preparation, search, reduction of symmetric paths |
| Browser runner (`wasm/src`) | a worker, a promise, an abort listener, an in-memory file system | run, abort |
| Parity matrix (`scripts/run-parity-matrix.py`, `xtask/src/parity.rs`) | `workflow-summary.json`, `reports/`, `inputs/`, the executable | start, resume, run a workflow or an element, certify |
| Release gate (`scripts/require-ci.py`) | none: it reads CI runs over the network | compare |
| Command line (`refeff-cli`) | none | one command per process, exit codes |
| Numerics, codecs, developer tools (`refeff-core`, `refeff-io`, `refeff-linalg`, `xtask`) | none | pure functions |

How they interact: the command line and applications call the facade, the facade
calls `execute_pipeline` inside `with_execution`, and that calls RDINP, the
preparation of RIXS, the cache and the scheduler, which call the stages. The
preparation of RIXS calls `execute_pipeline` again, in a subdirectory for each edge.
Results pass from stage to stage, and from run to run, only through files.
Callbacks go the other way: the observer of a calculation is called on the
calculation's thread at every stage boundary, and may cancel or panic there.
Calculations of one process meet at the faer lock; processes meet only in the file
system. The browser runner is the facade of a page: it starts one process-like
worker for each calculation and hears of it by messages. The parity matrix runs the
command line.

What is hard, and what makes each component correct:

* **Publication** is a sequence of renames and removals that another process, a
  full disk or a kill can separate. The output is never a partial or a mixed tree,
  and the last complete result is never destroyed; a cancelled run shows nothing of
  itself, and leaves nothing unless the removal of its directory fails.
* **The execution scope** relies on guards dropped in the right order on every way
  out, and on checks both before and after waits and callbacks. Calculations
  exclude each other, compute under their own policy, give back the program's, do
  nothing after an interruption they had to see, and return.
* **The scheduler** takes every decision from what files there are. The first pass
  tries each stage once, some before the stages they read; the second skips what
  *could* run rather than what *did*. Success must nevertheless mean that all that was
  requested is there, derived from the present input, once.
* **The cache** is consulted after RDINP has rewritten files, certifies after the
  computation, and anybody may edit in between. A hit must leave what computing
  would have left, and an untouched directory should be a hit.
* **RDINP** rewrites many hand-offs one by one; only a sentinel file tells a directory
  it has finished with from one it was stopped in.
* **The RIXS workflow** publishes the results of two pipelines by nine renames, from
  subdirectories that keep the results of earlier runs, for a solver that can also
  be called alone, and that writes its spectra one by one. No file a user supplied may
  be replaced, and no spectrum should come from parts of two preparations: the
  workflow refuses to mix them, though not once `rixsET.dat` is there (section 4).
* **The path finder** replaces a node by its sibling before it extends it, prunes by
  criteria that are not monotone, and stops on limits. It must find each path within
  the limits once, shortest first.
* **The browser runner** settles one promise among messages, worker errors, an abort
  shared by several calculations, and a callback that may throw or abort. Whatever
  comes first, nothing stays behind, and a result follows all output.
* **The parity matrix** runs for hours, is killed and resumed, and everything it
  reads may change meanwhile, and change back. A summary that says *complete* must cover
  everything, and what passed must have been run on the inputs it records.

`PROJECT.json` lists these hazards at the lines where they bite, with the
properties that cover each one; those no property covers say why.

## 2. Modules

| Module | Role |
|---|---|
| `ResultStore` | what recomputing a directory promises whoever uses it (abstract) |
| `Publication` | file-backed runs over one output directory; its recomputes refine `ResultStore` |
| `ParallelScope` | what the execution scope promises (abstract) |
| `Execution` | the scope as coded; refines `ParallelScope` |
| `Scheduler` | the two passes, over any number of runs of one directory |
| `ProvenanceCache` | pipeline and stage manifests |
| `HandoffDirectory` | what RDINP promises its readers (abstract) |
| `Rdinp` | RDINP as coded; refines `HandoffDirectory` |
| `RixsEdges` | `Rdinp` composed with the RIXS workflow |
| `PathEnumeration` | what the path search promises the rest of PATH (abstract) |
| `PathFinder` | the path search and its heap as coded; refines `PathEnumeration` |
| `WasmRunner` | the browser runner: page, promises, workers |
| `ParityMatrix` | the resumable release matrix |
| `MC*` | instances for TLC |
| `*Proofs` | theorems about `Publication`, `Execution`, `Scheduler`, `ProvenanceCache`, `RixsEdges` (with `Rdinp`), `PathFinder`, `WasmRunner`, `ParityMatrix` |

Operators with an underscore (`MoveAside_Removes`, `Key_OneLeg`, ...) are plausible
wrong versions of the operator after them. Each breaks the property named with it
under `mutants`, which shows that the property depends on that piece of code.

### Publication and ResultStore

Runners are processes. A directory is *absent* or a function from files to the run
that wrote each (`Tree`), so *partial* and *mixed* are visible and contents are not
needed. `output`, `staging` and `backup` are the three directories; `pc` walks
through `run_files_inner`, `run_recomputed` and `publish_recomputed`, one action per
system call that another process can come between: `MakeStaging`, `EnterEngine`,
`Stage` (one file of the pipeline), `ChoosePublication` (`output.exists()`),
`PublishFresh`, `ReserveBackup`, `MoveAside`, `Install`, `Rollback`, `Discard`,
`DropBackup`. `Return` is every error return: dropping the `TempDir`, or
`remove_dir_all`, removes the staging directory; the code ignores an error of either,
and some of the directory stays (`PartlyRemoved`). `ReserveBackup` creates and removes a
directory to find a name; if the removal fails the run fails and the empty directory
stays. `Fault` is an I/O error of the environment, these included, counted so that
properties can speak of one; a rename that fails because a rival has put something
in its way is not counted, it follows from the state. `Crash` is a kill: nothing is
cleaned up, and a removal under way may have removed a part. `Cancel` sets the token,
which only engine checkpoints read.

Hence what the two properties of ends say. `CancelledStaysPrivate`: no file of a cancelled
recompute is anywhere but in its own staging directory, and that is gone unless an
I/O error hit the run. `AllOrNothing`: a recompute alone that met at most one error ends
with its own tree as the output or with the previous one untouched, and the only thing
it may leave is what the error accounts for - the rest of a backup, an empty reserved
slot, a staging directory.

`ResultStore` knows neither staging nor errors: a result is shown where none is, set
aside, put back, or discarded while another one is there; a run that has not shown its
own may give it up. The refinement reads a whole tree as the result of whoever wrote
it, every backup with a whole tree as set aside, and a run as pending until it has
published or failed. It is about directories that are only recomputed: a run of another
policy writes into the output itself, and then nothing is claimed. The store does not
keep a result for its owner: whoever finds the gap a rival opened may show its own there,
and the rival's rollback then fails, which is what the code does.

### Execution and ParallelScope

One action per step of `with_execution`: check, build the pool, lock, save the
policy, set it, check again, then for a pipeline *announce - callback - check again -
work* for each stage, and the two guards on the way out. A policy is named by the
run that set it or is one of the program's (`Ambient`). Errors, interruptions and
panics all leave through `Unwind`. `Configure` is `configure_parallelism`, which
takes no lock; the constant `Coordinated` says whether callers keep it outside
calculations, which `docs/IMPROVEMENTS_2026-09.md` asks of other users of faer.

`ParallelScope` has one owner at a time, whose policy is in force, and the program's
otherwise. The refinement takes as owner the run between setting and restoring the
policy (`InScope`), not the one holding the lock: a run that has the lock and has not
set the policy yet is invisible.

### Scheduler

`Schedule` is the discovery order followed by the completion order; `pos` walks over
it. The files of a stage are *none*, *old* (derived from an earlier input) or *new*;
`applied` counts convolutions of the spectra, which SFCONV rewrites in place.
`Satisfiable`, `Completed`, `Discovered` and `Required` are the predicates; the last
one differs from stage to stage in the code and therefore here. BAND compares what is there with its
source, even where the scheduler only looks for it. The actions are `Skip`, `Announce`,
`Complete`, `GiveUp` (a first-pass attempt whose error the code drops), `Break` (an
error that ends the run) and `Return`. Then `RunAgain` starts the next run on what the
last one left, with the input edited or not. SFCONV converts one spectrum after the
other: a run that breaks there leaves some of them converted, which counts as another
convolution or as none.

Thirteen stages are modelled. Left out are LDOS with its Hubbard refresh, ATOMIC,
SCREEN, OPCONS, CRPA, DMDW, SELF and the partial hand-offs of POT and XSPH; RIXS has
a module of its own. `gaveUp` assumes that an attempt that failed on given files
fails on them again: a numerical failure does, a transient I/O error need not (see
the hazard at `pot.rs:433`).

### ProvenanceCache

Files are versions: of `feff.inp` (some name a file outside the directory), of an
auxiliary file, of the outside file, and of the policy that is hashed with them
(executable, features, environment, threads). Outputs are records of what they were
computed from, so *this output is what computing now would give* can be stated. The
pipeline has two stages, POT and FF2X; FF2X has a manifest of its own, and PATH and
GENFMT, the others that do, are alike.

POT reads a part of the hand-offs (`PotPart`), which different inputs may share. A
self-consistent potential (`Scf`) it keeps without computing when `.refeff-pot-scf-cache`
names the digests of that part and of the potential (`KeepsPot`); the record names no
executable, thread count or environment. Any other potential it computes anew and
compares with what is there (`Confirmed`), and writes when they differ: `pot.bin`, then
`apot.bin`, then the record. So a potential of an older policy may be kept, and then be
certified under the present one: that is why `HitIsCurrent` says of the potential what
computing would have left - the one POT would keep, or the one it would compute - and
`CertifiedIsHonest` leaves a self-consistent potential its own policy. Of everything
else both ask for the present policy. The inputs are ones whose potential POT can
generate.
 Reading and writing are two steps, as are
fingerprint and rename. `Stop` is an error, a cancellation or a kill between any two
steps; `SaveFails` an I/O error while saving, which the code ignores. `touched`,
`current` and `expected` are history variables for `RepeatHits`.

### PathFinder and PathEnumeration

`Prepare` builds a sorted row for each atom and for the start (ties in any order),
`Begin` puts the first candidate on the heap, `Visit` records the root and replaces
it by its sibling or removes it, `Sink` is one level of the bubble-down, `Extend`
adds the first child, `Rise` is one level of the bubble-up. Lengths are integers;
the criteria, which are numerics, are two sets of paths they reject (`weak` for the
heap, `faint` for the output), any sets the code's preconditions allow. A sibling
turned away takes the rest of its row with it, and a path everything that extends
it: `Pruned` says so, and `NothingMissed` is stated against it. Left out: the
counters of the result (`skipped_count`, `max_heap_size`, ...), the normalization by
the first path's importance, and the length and record checks at the top of the
loop that the checks before them make unreachable.

`PathEnumeration` has neither heap nor rows: while fewer paths were found than were asked
for it takes a shortest one of those left (`Find`), and it ends when none is left
(`Exhaust`) or enough were taken. What there is to find is decided in one step
(`Choose`), which `Begin` carries out; under the refinement mapping (`Enumeration`)
`Visit` is a `Find` when it records, an end of the search when nothing was asked for,
and everything between two visits is invisible. That a path is found once, shortest
first, and none is left out at the end, is in the abstract specification by
construction, and in the search because it refines it.

### Rdinp, HandoffDirectory and RixsEdges

In `Rdinp` a hand-off is the version of `feff.inp` it was made from, *none*, or *torn*
between the truncation and the end of its write. `Begin` writes the sentinel, `Parse`
renders everything or fails, `Open` and `Fill` are the write of one file, `Unlink`
removes the sentinel, `StopRdinp` is a kill or an error at any point, `Edit` the user.
Which hand-offs there are depends on the input, so those of an earlier input may stay.
`HandoffDirectory` is a single variable, *dirty* or the set of versions whose
hand-offs are complete; the mapping is *dirty* when the sentinel is there.

`RixsEdges` extends `Rdinp` and walks through `prepare_two_edge_handoffs`, the stages
and the solver: `Prepare` (its checks, then the second read of `feff.inp`), `RunEdge`
(an edge's whole pipeline: the files its input asks for are rewritten, the others stay
as earlier runs left them), `StopEdge`, `WritePoles`, `Copy`, `Publish` (one rename),
`RunStages`, `Solve`, and `WriteSpectrum` for each spectrum, `rixsET.dat` first. Where the
hand-offs are not all there, a missing spectrum is derived from `rixsET.dat` (`Derive`);
else the spectra are used as they are (`Keep`). A spectrum that is missing or unreadable
while the hand-offs are there has all of them solved again, whatever the hand-offs then
are. `StartSolver` and a start that is not `full` are the single modules. `Stop` is a
kill between any two of these steps, `StopWriting` one in the middle of writing a
spectrum, which leaves it unreadable or whole, `Clear` what the user may delete between
runs. A spectrum is the record of what it was computed from, and of whether the run that
computed it had found no `rixsET.dat` when it made its checks (`checked`): a run that
finds one skips them. An edge's pipeline is one step because it runs in a directory
nobody else writes.

### WasmRunner

The page is one thread, so a handler is one action: `Call`, `Abort`, `DeliverLog`,
`DeliverLast`, `DeliverFault`. What the caller's `onLog` may do in the middle of a
handler, abort the signal that several calls share or throw, is a choice inside
`DeliverLog`. A worker has a queue of messages (`outbox`), which `terminate` empties,
and an error event (`fault`), which it does not. `Load`, `Write`, `Finish`, `Fail` and
`Crash` are the worker's steps.

### ParityMatrix

A file, and a state of the source, is a version; an edit may bring a version back, and a
hash compared before and after does not see that. `tree` is the source as it is checked
out, `head` the commit; the checkout is dirty when they differ. `Start` is the check that
it is clean, `Build` the build, `ReadCommit` the read of `HEAD` and the new summary,
`HashBinary` the hash and, with `--resume`, the checks and the summary taken over
(`Resumable`). For each workflow `Enter`, `ReadManifest`, then `xtask parity`, which builds
the executable again before anything else (`Rebuild`, or `RebuildFails`) and then copies
the inputs, runs and compares (`Compare`): unless it passes it may end before it has
written its report, which then is that of an earlier attempt, or in the write. The script
compares the input the report names with the golden file as it is by then and retains it
(`RetainInputs`), and saves (`SaveVerdict`). For HIGHZ `ReadTemplate`, `PrepareElement`,
`RunElement`, `WriteReport`, `SaveProgress`, `Judge`; `Finish` are the checks at the end.
`mem` is the summary in memory, `disk` the saved one, *torn* if the script is killed in
the write (`Kill`). A verdict holds what it was computed from, which the script does
not know: the properties compare the two. `Outside` edits golden files, edits, restores,
commits or checks out the source, or replaces the executable.

Three things are one step each though the code does them one after the other: the checks
before a resume, the checks at the end, and a comparison of `xtask` once the executable
is built.

What a summary records of the executable proves little, and no property claims more: the
comparisons build it anew, from the source as it is then, so that one that was replaced
while a workflow ran is put back by the next, and the hash at the end matches. Nor does
anything hash the golden outputs the comparisons read; the manifest whose hash is recorded
they do not open. What can be relied on are the inputs: `VerdictsMatchRecord` says that a
workflow that passed was run on the input the summary records for it, and that the
elements HIGHZ's verdict counts were computed from the inputs recorded for them. The
second part is only of matrices that began without a report on elements (`leftover`), for
the reason `parity_resume` shows.

## 3. Runs

Each finishes within a few minutes. Deadlock is checked in the two cache runs and in
`rixs_edges`, where another run can always follow; elsewhere runs end and the model
stops. The states are those of the runs that pass.

| Run | States | Instance | Question |
|---|---|---|---|
| `publication` | 57 994 | 2 runs, 2 files, all policies, 2 I/O errors per run | is it a store of whole results, the last one safe, a cancelled run private, a lone one all-or-nothing? |
| `conflict_race` | | 2 runs, *conflict* only, no errors | does *conflict* reject every non-empty directory? (no) |
| `execution` | 200 704 | 2 calculations, 2 program policies, 2 stages, fair | do calculations exclude each other, own and restore the policy, heed interruptions, return, and refine the scope? |
| `scheduler` | 65 076 | 6 inputs, 3 runs | does success mean complete, current, once, and two successes everything? |
| `density` | | POT, RHORRP, 1 run | does one run deliver a density? (no) |
| `path_search` | 49 449 | 8 searches of 3 or 4 atoms with 8 pairs of criteria | is the heap in order, is exactly what should be found found, shortest first, does the search end, and does it refine the enumeration, in which each path is found once? |
| `cache` | 2 253 974 | 4 inputs (two self-consistent, one not, one that names an outside file), 2 versions of all else, 3 edits | is a hit current, a manifest honest, an untouched directory a hit? |
| `cache_live_edit` | | the auxiliary file may change during a run, 1 edit | is a hit current then? (no) |
| `rixs_edges` | 1 822 254 | 3 versions, one of them rejected, 2 hand-offs, 3 published files, 2 spectra, any number of runs | is a spectrum of one preparation if its run made the checks, a published file kept, a directory without the sentinel whole? |
| `parity_matrix` | 5 178 639 | a workflow and HIGHZ with 2 elements, 2 versions, 3 starts, 2 changes from outside | is *complete* complete, was what passed run on the recorded input, is a saved verdict kept? |
| `parity_resume` | | 1 change, the executable left alone | does everything a complete summary rests on come from the executable it names? (no) |
| `wasm_runner` | 28 565 | 2 calls under one signal, 1 alone, 2 pieces of output, fair | is a settled call clean, does a result come last, is every promise settled? |

Why these bounds are enough to be interesting:

* *publication*: two runs give every race of two writers, and one can be killed with
  its backup in place while the other publishes. Two files distinguish whole, partial
  and mixed. Two errors are the failed swap whose rollback fails too, or a failure and
  the failed removal of what it leaves. The runs are
  interchangeable, hence the symmetry. All five properties are proved for any number
  of each.
* *execution*: one calculation waits while the other is in its scope; a second stage
  gives a boundary after work. No symmetry, because liveness is checked.
* *scheduler*: each input's directory starts with any combination of leftovers, and
  the next run starts wherever the last was stopped. Separate inputs keep the number
  of initial states small; stages of one input never meet those of another.
  `SecondRunSettles` needs three runs: one to disturb, two to succeed.
* *cache*: three edits suffice to change an input, change it back and change
  something else; two self-consistent inputs and one that is not give POT every
  potential to find that it may keep, must not keep, or must compare. The input that
  names an outside file shares its potential with another. Versions of the auxiliary
  and of the outside file and policies are only compared among themselves, hence the
  symmetry over each of these; inputs differ in what POT reads.
* *path_search*: clusters with ties, one where the nearest atom is not the shortest
  way out and back, limits on length, atoms and records that bind, a limit of 0
  records, and rejecting criteria for siblings, children and both.
* *rixs_edges*: one file of both edges and the cross section of the second make the
  three published files a kill can separate; the second version turns off the stage
  that writes the cross section, so an old one stays in the subdirectory. Two spectra
  are the one that is written first and is asked for, and one after it. Runs are
  not bounded.
* *parity_matrix*: two elements and three starts give a report that is partly old and
  partly new, twice; two changes are one and its undoing between two reads of the same
  file, or one that a resume must notice and one that follows it. Two versions are
  enough for that: with two changes no file is ever compared with a third.
* *wasm_runner*: the third call shows that an abort leaves calls without the signal
  alone; with two pieces of output one can be in the queue while `onLog` handles the
  other.

Fairness. `Execution!FairSpec` is weak fairness of each calculation's own steps: its
thread is scheduled, callbacks return, stages end, and the mutex is handed to a
waiter once it is free for good (each calculation takes it once, so weak fairness is
enough and no fairness of the mutex among waiters is assumed). Cancellation,
deadlines and configuration are not fair. `PathFinder!FairSpec` is weak fairness of
`Next`: a sequential program goes on. `WasmRunner!FairSpec` is weak fairness of the
page's handling of each call's messages and of each worker: the event loop turns and
programs end. Nobody has to call, abort or throw.

## 4. Where code and documentation disagree

Each of the first four is a run that ends with a counterexample; `findings` has the
quotations.

1. `conflict_race`: *conflict* tests emptiness once and reserves nothing. Two runs
   started together both pass, and one computes among the other's files.
2. `density`: discovery tries RHORRP before POT has written what it reads, and
   completion skips it because by then it *could* run. A fresh run succeeds without the
   requested density; the next run computes it (`SecondRunSettles`).
3. `cache_live_edit`: the fingerprint is taken after the computation. A file that
   RDINP does not rewrite, edited after a stage has read it, is certified together with
   outputs of its old content, and the next run is served those.
4. `parity_resume`: `reports/HIGHZ.json` carries no provenance and survives a fresh
   start. A matrix of a new commit that is killed before it writes that file, and then
   resumed, keeps the elements the old executable computed.

Behaviour the models show that no text of the repository speaks against, or that
follows from one of the four:

* `configure_parallelism` during a calculation is undone when the calculation restores
  the policy it saved; hence the constant `Coordinated`.
* Before the BAND pre-solver the scheduler announces `rixs` (`Announces`), so observers
  hear of a stage that is not the one that runs.
* EELS and EELSMDFF run before FF2X has regenerated the spectrum they read; as with the
  density, the next run repairs it.
* A RIXS publication that is killed between two renames makes every later full run
  refuse the directory until the published files are deleted: safe, but not
  self-healing. Not safe once `rixsET.dat` is there, since the preparation with its
  refusal is then skipped, and not of the module `rixs` alone, which refuses only one
  file of two. A directory holds the files of a full run; the user deletes
  the published ones and the spectra; the next full run, of an edited input, is killed
  between two renames; the module `rixs` alone solves from what is published and the
  directory's own files for the rest, and is killed while it writes `rixsET.dat`. The
  next full run finds the file, does not refuse, and solves again from parts of two
  preparations, which is what the message at `rixs.rs:85` says it refuses to do. Hence
  `checked` in `SolvedFromOnePair`: TLC finds this trace when the property is claimed
  of every full run.
* A run that turns a stage off republishes that stage's file of an earlier input from
  the edge subdirectory, and an `edges.dat` that is there is kept. That is why
  `SolvedFromOnePair` and `PreparedFromSource` are about the files an input asks for.
* A potential computed by another executable, or with other threads, may be certified
  under the present ones, as its own record does not name them.
* A kill in the write of `workflow-summary.json` leaves a file no resume can read. An
  executable replaced while the matrix runs is put back by the build of the next
  comparison, and the hash at the end does not show it; neither does it show the golden
  outputs that were read. An input edited and edited back while a comparison runs, on
  the other hand, is caught, because its report names the copy that was run.

## 5. Theorems

Every theorem is checked by TLAPS for all values of the constants that satisfy the
modules' `ASSUME`s, which TLC evaluates on the instances. These assumptions say what
kind of value a constant is, and further: that *none* and *torn* are not versions; that
the cluster is a metric space (`InputsAssumption`); and that MKGTR is requested only
with FMS (`RequestsAssumption`), which has its switch.

**PublicationProofs.** `TypeCorrect`; `RecomputesAreWhole` (`OutputWhole`, a consequence of
the refinement that no run checks separately); `StoreImplemented` (`StoreRefined`);
`LastResultSurvives` (`ResultSurvives`); `CancelledRunsStayPrivate`
(`CancelledStaysPrivate`); `LoneRunsAreAllOrNothing` (`AllOrNothing`). None is
inductive: that `Install` publishes a whole tree depends on what staging held when the
engine ended, which depends on each stage having written its own file, which depends
on nobody else writing there. `RunsInv` says for each place of `run_files` what staging
and backup hold (`PlacesInv`, `StagingInv`); a step of one run does not touch another's
(`StepKeeps`). On it rest three arguments about all runs together. What is at the
output and in the backups is whole (`PublicationInv`), so `DropBackup` removes a
complete tree just when the output has become one. The files of a run that has not
published are in its staging directory only, not at the output nor in a rival's backup
(`TraceInv`). A run that is alone now has always been alone, since a run that has begun
never becomes idle again; so `LoneInv` may follow a single run from place to place, and
with it what the one error it met has left behind.

The refinement needs two facts more (`StoreInv`). A complete result is in one place, at
the output or in one backup (`OnePlace`): otherwise a rollback would show a result
and keep it set aside as well. This holds because a run's tree is nowhere when it
publishes it (`TraceInv`) and a rename leaves nothing behind. And while anybody removes
a backup, a complete result is elsewhere (`DropsOnlySpare`): `Install` has put it there,
and no step of any run loses the last one (`ResultKept`); it need not be the remover's
own any more. `RecomputeMoves` sorts the steps of a run into five kinds - it stays,
shows, sets aside, puts back, drops - and each kind is a step of the store or a stutter.

**ExecutionProofs.** `TypeCorrect`, `CalculationsExclude` (`MutualExclusion`),
`LateRunsStop`, `AnnouncedStagesStop`, `ScopesEnd`, and, where callers are `Coordinated`,
`OwnPolicy` (`ComputesUnderOwnPolicy`), `ProgramPolicy` (`PolicyRestored`) and `ScopeImplemented`
(`ScopeRefined`). `LockInv`: a run is between lock and unlock exactly if it holds the
lock. `PolicyInv`: before the policy is set and after it is restored it is the
program's; in between it is the run's and the guard holds the program's.
`InterruptInv`: an interrupted latecomer never gets beyond the second check.
Without coordination the last three are false: the policy in force is then not the
one that was set. `ScopesEnd` is the safety part of `EveryRunReturns`: `Left`, a number
made of the stages a run has not computed and its place in the present one, never
grows, whoever steps, and gets less with every step of the run; and a run at the lock
waits only for one that is inside the scope, where no step has a guard
(`WaitsForAScope`).

**ProvenanceCacheProofs.** `TypeCorrect`, `RepeatsHit` (`RepeatHits`), and, if the
auxiliary file rests while a run computes (`~LiveAux`), `ManifestsHonest`
(`CertifiedIsHonest`) and `HitsAreCurrent` (`HitIsCurrent`). The invariant `IInv` adds
what a run has written so far (`Computing`), the manifest about to be renamed
(`Pending`), and that a hit decided at the look-up is still one at the end (`Served`).
Nothing is said of `feff.inp` during a run: RDINP has read it, and the fingerprint
covers both it and the hand-offs, so an edit makes the certificate useless and not
wrong. Without `~LiveAux` both are false, as `cache_live_edit` shows. `HitsAreComputed`
holds without it and bounds the damage: the potential a hit returns is still the one POT
would keep or compute now, and the FF2X outputs come from it, from the present hand-offs,
under the present policy, and from *some* version of the auxiliary file. One invariant
carries both: `Ff2xAgrees` asks for some version, and for the recorded one only where the
file rests. Of the potential it says (`PotSettled`) that it comes from the hand-offs the
fingerprint names, and either from its policy as well or that the fingerprint covers a
record which vouches for it; the record is in the fingerprint because every file of the
directory is.

**SchedulerProofs.** For every set of requests and any number of runs: `TypeCorrect`;
`ConvolvedAtMostOnce` (`ConvolvedOnce`); `SuccessfulRunsAreComplete`
(`SuccessIsComplete`); `TwoSuccessesSettle` (`SecondRunSettles`). The argument follows
the position of the run (`DPos`, `CPos`). A
stage the first pass has left behind (`Tried`) is `Done`, or `Pending`: nothing of it was
reported and it cannot run on the files that are there; or it is the BAND stage of a
cancelled run (`Missed`). The second pass changes no file that other stages read, since
of a requested stage it runs only what could not run; so it does not get past a pending
stage (`Passed`), and a cancelled run stops at COMPTON at the latest, which is always
announced when BAND was missed. What is done stays done, because nothing it reads
changes later (`InOrder`). Over several runs (`SettledInv`): after one success every stage
in the order matches its sources, so running it again changes no file of it
(`SettledKept`); the three stages tried before their sources (`Late`) are then tried, in
the next run, on sources that no longer change, and each is delivered or cannot be run,
which the second pass of a run that succeeds does not get past (`SettledLate`).
`PassesOnlyAdvance` is about single steps: within a run no stage loses its files, and
none that was generated from the present input is replaced by something older
(`NothingLost`), although stages are tried before their sources and again after
failures. That follows from `NewFromNew`: what counts as new has only new sources, and so
has its regeneration.

**RixsEdgesProofs.** For any versions and published files: `TypeCorrect`;
`SentinelImplemented` (`SentinelProtects`, the refinement of `HandoffDirectory`);
`SolutionsOfOnePair` (`SolvedFromOnePair`); `PublicationsFromSource`
(`PreparedFromSource`); `PublicationsKept` (`PublishedKept`). `RdinpInv`: while RDINP
writes, all hand-offs of the parsed version but those still to be written are there.
`EdgesInv` says at each step of a preparation where its results are: in the
subdirectories, under temporary names, or published. A run that has made the checks
therefore finds the published files missing, or whole and of one source, when it solves
(`ReadyToSolve`); and what it writes, or what is derived from that, stays so whatever is
killed. Of runs that found a `rixsET.dat` it says nothing.

**WasmRunnerProofs.** For any number of calls and any output: `TypeCorrect`;
`SettledCallsAreClean` (`SettledIsClean`); `ResultComesLast` (`HeardBeforeResult`). While
a promise is pending, what its worker has written is what `onLog` has heard and what is
in the queue, and only the last message can end the call (`Pending`, `OneLast`).
`NoCallIsForgotten` is the safety part of `EveryCallSettles`: a pending call has a worker
at work, a message in the queue or an error event on its way (`Moving`), because a
worker that is through has posted how the call ends or has raised an error (`Said`); and
what is left of a call (`Left`) is not added to by any step while it is pending and
gets less with each of its own. `MaxLogs`, any number, stands for output that is finite.

**ParityMatrixProofs.** For any workflows, elements, numbers of starts and changes:
`MatrixInvariant` and `TypeCorrect`; `SubsetsAreNotCertified` (`NeverCertifiesSubset`);
`VerdictsStay` (`VerdictsKept`); `VerdictsAreRecorded` (`VerdictsMatchRecord`).
`Progress` and `Left`: the loop leaves no workflow without a verdict; `Saved` and
`Behind`: what is on disk is an earlier state of what is in memory, also after a resume,
which takes it over as it is. `VerdictsAreRecorded` may not argue from the order of
versions, since they come back; its invariant (`RInv`) follows what was run instead. After
a comparison that passed, the report names the input that was run (`ReportPart`); only
then is it retained, and only if it is the golden one at that moment, and recorded as
such (`MemPart`), so the summary that is saved agrees with the verdict
(`DiskPart`). For HIGHZ the retained copy of an element's input is what the element was
computed from, in the report (`OwnPart`) and in memory (`ElementPart`): an element is
prepared only while it is not in the report, and a resume takes it over only if its copy
is what the template gives now. That needs a matrix to come to HIGHZ for the first time
with no element reported (`FirstPart`), which is what `leftover` excludes otherwise.

**PathFinderProofs.** For any cluster whose distances are a metric, any limits and any
criteria: `TypeCorrect`; `HeapStaysOrdered` (`HeapOrdered`); `FoundShortestFirst`
(`ShortestFirst`); `EachFoundOnce` (`FoundOnce`); `MissesNothing` (`NothingMissed`);
`SearchImplemented` (`EnumerationRefined`); `SearchProgresses`. The argument:

1. `HeapInv`: keys belong to their nodes, no node is on the heap twice, and the heap is
   in order but for one entry. The one that sinks may be larger than its children
   (`Sinking`), the one that rises may be smaller than its parent (`Rising`); in both
   cases its children are not smaller than its parent. A swap moves the exception by
   one level.
2. In an ordered heap the root is least (`RootLeast`), by descent to a least
   counterexample: the library's induction theorems cannot be instantiated here, so
   `Least` (a nonempty set of naturals has a least member, from well-foundedness)
   replaces them throughout, also for the existence of the recursive function that
   sums a path's legs (`SumExists`).
3. A candidate stands at its own column of its own row (`Fits`). As a row is sorted by
   the way out and back, its next sibling is not shorter (`SiblingLonger`); by the
   triangle inequality its child is not shorter either (`ChildLonger`). Both need that
   paths with a common beginning have a common length there (`SamePrefix`).
4. So nothing that can still be found is shorter than what was (`OrderInv`).
5. No two nodes walk the same siblings: their paths differ before the last atom
   (`Walks`). A path counts as visited when a node of its siblings has gone past it in
   its row (`Visited`); what is recorded or extended was visited, and as a row names
   each atom once the candidate at the root was not (`RootIsNew`). So it was neither
   found nor extended before, and the node of its first child walks new siblings.
6. A path that is wanted was found, or is ahead of a node on the heap (it takes that
   node's candidate, or one later in its row, where the node's path ends), or goes on
   from the path just visited (`Search`). A visit finds the root's path, leaves what goes
   on from it to the extension, and what comes later in the row to the sibling. Where no
   sibling or child is added nothing wanted is lost (`NothingBehind`): what comes later
   is not shorter, a path the importance criterion rejects prunes what is behind it by the
   definition of `Pruned`, and the row's places past the last candidate hold the atoms no
   path goes to (`RowEnds`; a row has every atom because it is an injection between sets
   of one size). So an empty heap means that everything was found; and when the record
   limit ends the search, what is missing is ahead of a node and not shorter than its
   path, nor that than the root's.
7. The refinement (`EnumerationStep`) puts these together for each step. A visit that
   records takes a path that is left (`Unseen`: the root was not found before) and a
   shortest one (`RootShortest`: whatever is left is ahead of a node, and the root is
   least); the search says *complete* only on an empty heap, when by 6 nothing is left.
8. `SearchProgresses` is the safety part of `SearchEnds`. `Measure` has four places: the
   rows to prepare, the paths not visited yet (finitely many, `PathsFinite`), what is
   left of a round, and how far an entry can still move in the heap. Every step makes it
   smaller in the lexicographic order, which is well founded (`LessWellFounded`); and
   there is always a row to prepare (`RowExists`), the only step that has to find
   something.

What stays with TLC: liveness and fairness (`EveryRunReturns`, `SearchEnds`,
`EveryCallSettles`), which the prover does not treat, as it does not treat `ENABLED`.
What such an argument rests on is proved for all instances (`ScopesEnd`,
`SearchProgresses`, `NoCallIsForgotten`): a measure that each step lowers, and that
nobody waits for what will not come. The step from there to *eventually* is TLC's.
A recursive operator would cost the provers their SMT back end, so no module has one; and
what a recursion computes on every input needs an induction they cannot do. Of `Walked`, a recursive
function, the proofs use the defining equation alone.

## 6. Not modelled

* The physics, the linear algebra and the file formats: values and conversions.
  A file is *none*, *old* or *new*, or a version. This is most of the code, and what
  makes it correct is numerical agreement, which a model checker cannot judge.
* The path reduction (`degeneracy.rs`): it groups by differences of floating-point
  lengths.
* LDOS and the Hubbard refresh: whether the second round happens depends on the
  densities LDOS computes. ATOMIC, SCREEN, OPCONS, CRPA, DMDW, SELF and FULLSPECTRUM add
  stages of kinds the schedule already has.
* `run_in_memory`: the same engine in a private directory; which of two decoders of the
  spectra it uses is the hazard at `lib.rs:616`.
* `execute_module` but for `rdinp` and `rixs`: one stage, on whatever is there.
* Two file-backed runs in one work directory: the repository promises nothing for them.
* In the RIXS workflow `wscrn.dat`, the `SkipCalc` branch and the satellites, and a
  killed write that leaves a spectrum readable but short.
* In the parity matrix what a comparison computes, the golden outputs it reads and
  `HighZ.out`, the retained reference copies, a replacement of `xtask` itself, the process
  group that a timeout kills, and a child that outlives a killed script.
* In the browser runner a message that cannot be decoded (`messageerror`), for which
  `index.mjs` has no handler.
* Rounding: the path search sums legs in `f32`, the model in integers. That paths come
  shortest first and none is missed holds of the code up to that rounding.
* A configuration of the policy during a calculation: `PolicyRestored` and
  `ComputesUnderOwnPolicy` are about callers that are `Coordinated`.
* The command line, the run plan and the registry's aliases: no state. The release gate:
  three reads of a service whose behaviour the repository does not define.

A callback that starts another calculation would wait for the lock its own holds;
nothing in the repository promises otherwise, and `EveryRunReturns` is about callbacks
that return.

## 7. How it could go on

The models were written in the order of what a failure would cost: a user's results
(`Publication`), the process (`Execution`), what a run delivers (`Scheduler`), when it may
be skipped (`ProvenanceCache`), the search (`PathFinder`), then the workflows around
them (`Rdinp`, `RixsEdges`, `WasmRunner`, `ParityMatrix`); the proofs followed.

What would add most next, in this order:

1. The LDOS stage in `Scheduler`, with the appearance of `v_hubbard.bin` as a choice, and
   a failure between the two rounds.
2. The path reduction, once its tolerance has a discrete counterpart that keeps its
   point: that nearness is not transitive.
