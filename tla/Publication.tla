---------------------------- MODULE Publication ----------------------------
(***************************************************************************)
(* File-backed runs of the facade crate (`Runner::run_files`) that share   *)
(* one output directory: the three existing-output policies, the staging   *)
(* and backup directories of a recompute, and what is on disk when a run   *)
(* completes, fails, is cancelled or is killed between two system calls.   *)
(*                                                                         *)
(* Every runner is a process of its own, so nothing but the file system    *)
(* orders two of them (runners of one process are serialized further by    *)
(* the engine lock, which module Execution models).                        *)
(***************************************************************************)
EXTENDS Naturals, FiniteSets

CONSTANTS
    Runners,    \* the runs that target the output directory
    User,       \* who wrote what was there before any of them
    Nobody,     \* a file that does not exist
    Absent,     \* a directory that does not exist
    NFiles,     \* files a pipeline writes, in stage order; file 1 is RDINP's
    Policies,   \* the existing-output policies a request may carry
    MaxFaults   \* bound: environment I/O errors one run may meet

ASSUME NFilesAssumption == NFiles \in Nat \ {0}
ASSUME NamesAssumption ==
    /\ User \notin Runners
    /\ Nobody \notin Runners \cup {User}
ASSUME MaxFaultsAssumption == MaxFaults \in Nat
ASSUME PoliciesAssumption == Policies \subseteq {"reuse", "recompute", "conflict"}

Files == 1 .. NFiles
Writers == Runners \cup {User}

\* A directory's contents: who wrote each file of the calculation.
Tree == [Files -> Writers \cup {Nobody}]
ASSUME AbsentAssumption == Absent \notin Tree

Full(w) == [f \in Files |-> w]
Empty == [f \in Files |-> Nobody]
Directory == Tree \cup {Absent}

\* What rename(2) accepts as the target of a directory: nothing, or an empty one.
Replaceable(d) == d \in {Absent, Empty}

\* Some of a directory's files are gone, as after an interrupted remove_dir_all.
PartlyRemoved(tree) ==
    {[f \in Files |-> IF f \in gone THEN Nobody ELSE tree[f]] : gone \in SUBSET Files}

VARIABLES
    output,     \* the requested output directory
    staging,    \* .refeff-recompute-* of each run
    backup,     \* .refeff-backup-* of each run
    pc,         \* where each run is in run_files
    policy,     \* the request's ExistingOutputPolicy
    written,    \* files the run's engine has finished
    token,      \* the run's CancellationToken (or an expired deadline)
    faults,     \* I/O errors of the environment's that hit the run (history)
    initial     \* the output directory before any run (history)

vars == <<output, staging, backup, pc, policy, written, token, faults, initial>>

Steps == {"idle", "staging", "conflict", "ensure", "enter", "engine",
          "publish", "fresh", "slot", "aside", "install", "rollback",
          "discard", "dropBackup"}
Ends == {"completed", "failed", "cancelled", "crashed"}

Init ==
    /\ output \in {Absent, Empty, Full(User)}
    /\ initial = output
    /\ staging = [r \in Runners |-> Absent]
    /\ backup = [r \in Runners |-> Absent]
    /\ pc = [r \in Runners |-> "idle"]
    /\ policy \in [Runners -> Policies]
    /\ written = [r \in Runners |-> 0]
    /\ token = [r \in Runners |-> FALSE]
    /\ faults = [r \in Runners |-> 0]

---------------------------------------------------------------------------
\* Steps of a run

Goto(r, from, to) == pc[r] = from /\ pc' = [pc EXCEPT ![r] = to]

\* I/O errors of the environment's: a full disk, a revoked permission.
Faults(r, errors) ==
    /\ faults[r] + errors <= MaxFaults
    /\ faults' = [faults EXCEPT ![r] = @ + errors]
Fault(r) == Faults(r, 1)

\* The error returns of run_files_inner, in a step that met so many errors: a
\* live staging TempDir is removed when it is dropped, and publish_recomputed
\* removes a kept one itself.  An error in that removal is ignored, and leaves
\* some of the directory behind.
Return(r, end, errors) ==
    /\ pc' = [pc EXCEPT ![r] = end]
    /\ \/ /\ staging' = [staging EXCEPT ![r] = Absent]
          /\ Faults(r, errors)
       \/ /\ staging[r] # Absent
          /\ \E tree \in PartlyRemoved(staging[r]) : staging' = [staging EXCEPT ![r] = tree]
          /\ Faults(r, errors + 1)

\* validate_request refuses the request: nothing on disk is touched.
Reject(r) ==
    /\ Goto(r, "idle", "failed")
    /\ UNCHANGED <<output, staging, backup, policy, initial, written, token, faults>>

Start(r) ==
    /\ Goto(r, "idle", CASE policy[r] = "recompute" -> "staging"
                         [] policy[r] = "conflict"  -> "conflict"
                         [] policy[r] = "reuse"     -> "ensure")
    /\ UNCHANGED <<output, staging, backup, policy, initial, written, token, faults>>

\* ensure_empty_output
EnsureEmptyOutput(r) ==
    /\ Goto(r, "conflict", IF output \in {Absent, Empty} THEN "ensure" ELSE "failed")
    /\ UNCHANGED <<output, staging, backup, policy, initial, written, token, faults>>

\* create_dir_all(output)
EnsureDirectory(r) ==
    /\ \/ /\ Goto(r, "ensure", "enter")
          /\ output' = IF output = Absent THEN Empty ELSE output
          /\ UNCHANGED faults
       \/ Goto(r, "ensure", "failed") /\ Fault(r) /\ UNCHANGED output
    /\ UNCHANGED <<staging, backup, policy, initial, written, token>>

\* create_dir_all(parent) and tempdir_in(parent)
MakeStaging(r) ==
    /\ \/ /\ Goto(r, "staging", "enter")
          /\ staging' = [staging EXCEPT ![r] = Empty]
          /\ UNCHANGED faults
       \/ Goto(r, "staging", "failed") /\ Fault(r) /\ UNCHANGED staging
    /\ UNCHANGED <<output, backup, policy, initial, written, token>>

\* run_engine takes the inventory of its directory, which may fail, and
\* with_execution checks the control before the engine does anything.
EnterEngine(r) ==
    /\ pc[r] = "enter"
    /\ \/ token[r] /\ Return(r, "cancelled", 0)
       \/ ~token[r] /\ Goto(r, "enter", "engine") /\ UNCHANGED <<staging, faults>>
       \/ Return(r, "failed", 1)
    /\ UNCHANGED <<output, backup, policy, initial, written, token>>

\* The engine resolves every file by its path: a recompute's in its staging
\* directory, another run's in the output directory, whatever is there now.
Root(r) == IF policy[r] = "recompute" THEN staging[r] ELSE output
SetRoot_InPlace(r, tree) == output' = tree /\ UNCHANGED staging   \* mutant: no staging
SetRoot(r, tree) ==
    IF policy[r] = "recompute"
    THEN staging' = [staging EXCEPT ![r] = tree] /\ UNCHANGED output
    ELSE output' = tree /\ UNCHANGED staging

Unfinished_OffByOne(r) == written[r] <= NFiles   \* mutant
Unfinished(r) == written[r] < NFiles

\* RDINP creates a missing root and rewrites its handoffs in every run; a later
\* stage keeps a file it finds valid and otherwise generates it.
Stage(r) ==
    /\ pc[r] = "engine" /\ ~token[r] /\ Unfinished(r)
    /\ LET f == written[r] + 1
           tree == IF Root(r) = Absent THEN Empty ELSE Root(r)
       IN  /\ f = 1 \/ Root(r) # Absent
           /\ \/ SetRoot(r, [tree EXCEPT ![f] = r])
              \/ f > 1 /\ tree[f] # Nobody /\ UNCHANGED <<output, staging>>
           /\ written' = [written EXCEPT ![r] = f]
    /\ UNCHANGED <<backup, pc, policy, initial, token, faults>>

\* A stage fails, or finds the directory it works in moved away.
StageFails(r) ==
    /\ pc[r] = "engine"
    /\ Return(r, "failed", IF Root(r) = Absent THEN 0 ELSE 1)
    /\ UNCHANGED <<output, backup, policy, initial, written, token>>

\* Mutant: the staging directory outlives a cancelled run.
Interrupt_KeepsStaging(r) ==
    /\ token[r] /\ Goto(r, "engine", "cancelled")
    /\ UNCHANGED <<output, staging, backup, policy, initial, written, token, faults>>

\* A checkpoint of the engine finds the token set.
Interrupt(r) ==
    /\ pc[r] = "engine" /\ token[r]
    /\ Return(r, "cancelled", 0)
    /\ UNCHANGED <<output, backup, policy, initial, written, token>>

EngineDone(r) ==
    /\ written[r] = NFiles
    /\ Goto(r, "engine", IF policy[r] = "recompute" THEN "publish" ELSE "completed")
    /\ UNCHANGED <<output, staging, backup, policy, initial, written, token, faults>>

---------------------------------------------------------------------------
\* publish_recomputed

\* output.exists(), and the choice between a plain rename and a swap
ChoosePublication(r) ==
    /\ Goto(r, "publish", IF output = Absent THEN "fresh" ELSE "slot")
    /\ UNCHANGED <<output, staging, backup, policy, initial, written, token, faults>>

\* rename(staging, output) when no output was seen
PublishFresh(r) ==
    /\ pc[r] = "fresh"
    /\ \/ /\ Replaceable(output)
          /\ output' = staging[r]
          /\ pc' = [pc EXCEPT ![r] = "completed"]
          /\ staging' = [staging EXCEPT ![r] = Absent]
          /\ UNCHANGED faults
       \/ /\ Return(r, "failed", IF Replaceable(output) THEN 1 ELSE 0)
          /\ UNCHANGED output
    /\ UNCHANGED <<backup, policy, initial, written, token>>

\* The unique backup name is reserved by creating and removing a directory;
\* when it is the removal that fails, the empty directory stays.
ReserveBackup(r) ==
    /\ pc[r] = "slot"
    /\ \/ Goto(r, "slot", "aside") /\ UNCHANGED <<staging, backup, faults>>
       \/ /\ Return(r, "failed", 1)
          /\ backup' \in {backup, [backup EXCEPT ![r] = Empty]}
    /\ UNCHANGED <<output, policy, initial, written, token>>

\* Mutant: the old output is removed instead of moved aside.
MoveAside_Removes(r) ==
    /\ Goto(r, "aside", "install")
    /\ output' = Absent
    /\ UNCHANGED <<staging, backup, policy, initial, written, token, faults>>

\* rename(output, backup)
MoveAside(r) ==
    /\ pc[r] = "aside"
    /\ \/ /\ output # Absent
          /\ Goto(r, "aside", "install")
          /\ backup' = [backup EXCEPT ![r] = output]
          /\ output' = Absent
          /\ UNCHANGED <<staging, faults>>
       \/ /\ Return(r, "failed", IF output = Absent THEN 0 ELSE 1)
          /\ UNCHANGED <<output, backup>>
    /\ UNCHANGED <<policy, initial, written, token>>

\* rename(staging, output) over the gap MoveAside left
Install(r) ==
    /\ \/ /\ Goto(r, "install", "dropBackup")
          /\ Replaceable(output)
          /\ output' = staging[r]
          /\ staging' = [staging EXCEPT ![r] = Absent]
          /\ UNCHANGED faults
       \/ /\ Goto(r, "install", "rollback")
          /\ IF Replaceable(output) THEN Fault(r) ELSE UNCHANGED faults
          /\ UNCHANGED <<output, staging>>
    /\ UNCHANGED <<backup, policy, initial, written, token>>

\* Mutant: a failed swap is reported but not undone.
Rollback_Skipped(r) ==
    /\ Goto(r, "rollback", "discard")
    /\ UNCHANGED <<output, staging, backup, policy, initial, written, token, faults>>

\* rename(backup, output); a failure is reported but the backup stays
Rollback(r) ==
    /\ Goto(r, "rollback", "discard")
    /\ \/ /\ Replaceable(output)
          /\ output' = backup[r]
          /\ backup' = [backup EXCEPT ![r] = Absent]
          /\ UNCHANGED faults
       \/ /\ IF Replaceable(output) THEN Fault(r) ELSE UNCHANGED faults
          /\ UNCHANGED <<output, backup>>
    /\ UNCHANGED <<staging, policy, initial, written, token>>

\* remove_dir_all(staging) after a failed swap
Discard(r) ==
    /\ pc[r] = "discard"
    /\ Return(r, "failed", 0)
    /\ UNCHANGED <<output, backup, policy, initial, written, token>>

\* remove_dir_all(backup); a failure may leave part of it and fails the run,
\* although its tree is already the output
DropBackup(r) ==
    /\ \/ /\ Goto(r, "dropBackup", "completed")
          /\ backup' = [backup EXCEPT ![r] = Absent]
          /\ UNCHANGED faults
       \/ /\ Goto(r, "dropBackup", "failed")
          /\ \E tree \in PartlyRemoved(backup[r]) : backup' = [backup EXCEPT ![r] = tree]
          /\ Fault(r)
    /\ UNCHANGED <<output, staging, policy, initial, written, token>>

---------------------------------------------------------------------------
\* The environment: a caller that cancels, a process that is killed.

Cancel(r) ==
    /\ pc[r] \notin Ends /\ ~token[r]
    /\ token' = [token EXCEPT ![r] = TRUE]
    /\ UNCHANGED <<output, staging, backup, pc, policy, initial, written, faults>>

\* The process is killed: no destructor runs, so its directories stay behind,
\* less what a removal under way had removed, and so does a reserved slot.
Crash(r) ==
    /\ pc[r] \notin Ends \cup {"idle"}
    /\ pc' = [pc EXCEPT ![r] = "crashed"]
    /\ \/ UNCHANGED <<staging, backup>>
       \/ /\ pc[r] \in {"enter", "engine", "fresh", "slot", "aside", "discard"}
          /\ staging[r] # Absent
          /\ \E tree \in PartlyRemoved(staging[r]) : staging' = [staging EXCEPT ![r] = tree]
          /\ UNCHANGED backup
       \/ /\ pc[r] = "slot"
          /\ backup' = [backup EXCEPT ![r] = Empty]
          /\ UNCHANGED staging
       \/ /\ pc[r] = "dropBackup"
          /\ \E tree \in PartlyRemoved(backup[r]) : backup' = [backup EXCEPT ![r] = tree]
          /\ UNCHANGED staging
    /\ UNCHANGED <<output, policy, initial, written, token, faults>>

Publish(r) ==
    \/ ChoosePublication(r) \/ PublishFresh(r) \/ ReserveBackup(r) \/ MoveAside(r)
    \/ Install(r) \/ Rollback(r) \/ Discard(r) \/ DropBackup(r)

Run(r) ==
    \/ Reject(r) \/ Start(r) \/ EnsureEmptyOutput(r) \/ EnsureDirectory(r)
    \/ MakeStaging(r) \/ EnterEngine(r) \/ Stage(r) \/ StageFails(r)
    \/ Interrupt(r) \/ EngineDone(r) \/ Publish(r)

Next == \E r \in Runners : Run(r) \/ Cancel(r) \/ Crash(r)

Spec == Init /\ [][Next]_vars

---------------------------------------------------------------------------
\* Properties

TypeOK ==
    /\ output \in Directory
    /\ staging \in [Runners -> Directory]
    /\ backup \in [Runners -> Directory]
    /\ pc \in [Runners -> Steps \cup Ends]
    /\ policy \in [Runners -> Policies]
    /\ written \in [Runners -> 0 .. NFiles]
    /\ token \in [Runners -> BOOLEAN]
    /\ faults \in [Runners -> 0 .. MaxFaults]
    /\ initial \in {Absent, Empty, Full(User)}

Ended(r) == pc[r] \in Ends
Recomputing(r) == policy[r] = "recompute"
AllRecompute == \A r \in Runners : Recomputing(r)

\* Concurrent recomputes of one output, failing and killed at any point, never
\* show a half-written or mixed output directory: it is missing, empty as the
\* caller left it, or one writer's complete tree (`publish_recomputed`).
OutputWhole ==
    AllRecompute => output \in {Absent, Empty} \cup {Full(w) : w \in Writers}

\* A complete result is still reachable: at the output, or in a backup whose
\* run has not reached the removal of it.
HasResult ==
    \E w \in Writers :
        \/ output = Full(w)
        \/ \E r \in Runners : pc[r] # "dropBackup" /\ backup[r] = Full(w)

\* Once the output held a complete result, no step of a recompute (and no
\* crash, I/O error or rival recompute) destroys the last one: the tree moved
\* aside is removed only after a complete one took its place.
ResultSurvives == [][AllRecompute /\ HasResult => HasResult']_vars

\* Recomputes that race in `publish_recomputed`, failing and killed anywhere,
\* implement a store of whole results: one rename shows a run's result, at most
\* once; one sets it aside; it comes back only from where it was set aside; and
\* it is removed only while another is there.  With runs of other policies,
\* which write into the output itself, nothing is claimed.
WhoseResult(d) ==
    IF Replaceable(d) THEN Nobody
    ELSE IF \E w \in Writers : d = Full(w)
         THEN CHOOSE w \in Writers : d = Full(w) ELSE d
Kept == {w \in Writers : \E r \in Runners : backup[r] = Full(w)}
MayPublish == {r \in Runners : pc[r] \in Steps \ {"rollback", "discard", "dropBackup"}}
Store == INSTANCE ResultStore WITH
    Results <- Writers,
    None <- Nobody,
    shown <- IF AllRecompute THEN WhoseResult(output) ELSE Nobody,
    kept <- IF AllRecompute THEN Kept ELSE {},
    pending <- IF AllRecompute THEN MayPublish ELSE {}
StoreRefined == Store!Spec

\* A cancelled recompute shows nothing of itself: it leaves no backup, and none
\* of its files at the output or in a rival's backup, whatever the rivals do.
\* Its staging directory is gone too, unless an I/O error hit the removal.
CancelledStaysPrivate ==
    \A r \in Runners :
        Recomputing(r) /\ pc[r] = "cancelled" =>
            /\ backup[r] = Absent
            /\ faults[r] = 0 => staging[r] = Absent
            /\ \A d \in {output} \cup {backup[q] : q \in Runners} :
                  d # Absent => \A f \in Files : d[f] # r

\* A recompute that had the directory to itself and met at most one I/O error
\* ends all-or-nothing.  Either its own complete tree is the output, no staging
\* directory is left, and what remains of the backup was met by the error in
\* removing it; or the previous output is untouched.  Then that error may have
\* left a failed run's reserved slot, empty, or a cancelled run's staging
\* directory, and nothing else is left.
Alone(r) == \A q \in Runners \ {r} : pc[q] = "idle"
AllOrNothing ==
    \A r \in Runners :
        Recomputing(r) /\ Alone(r) /\ Ended(r) /\ pc[r] # "crashed" /\ faults[r] <= 1 =>
            \/ /\ output = Full(r) /\ staging[r] = Absent
               /\ \/ pc[r] = "completed" /\ backup[r] = Absent
                  \/ pc[r] = "failed" /\ faults[r] = 1
            \/ /\ output = initial
               /\ \/ pc[r] = "failed" /\ staging[r] = Absent /\ backup[r] \in {Absent, Empty}
                  \/ /\ pc[r] = "cancelled" /\ backup[r] = Absent
                     /\ faults[r] = 0 => staging[r] = Absent

\* What the documentation says of the conflict policy: a non-empty destination
\* is rejected, so such a run's engine never starts in one.
ConflictRejectsNonEmpty ==
    [][\A r \in Runners :
          policy[r] = "conflict" /\ pc[r] = "enter" /\ pc'[r] = "engine"
              => output \in {Absent, Empty}]_vars
============================================================================
