----------------------------- MODULE Execution -----------------------------
(***************************************************************************)
(* `with_execution`: the scope every calculation of a process runs in. The *)
(* caller's control is checked, a worker pool is built, the process-wide   *)
(* faer lock is taken, faer's policy is saved and set, the observer is     *)
(* installed, and the control is checked once more before any work; errors *)
(* and panics unwind through the guards that restore the policy and release*)
(* the lock. Between stages the engine announces the next stage to the     *)
(* caller's callback and checks the control before and after it.           *)
(***************************************************************************)
EXTENDS Naturals

CONSTANTS
    Runs,           \* calculations, each on a thread of its own
    Ambient,        \* faer policies the program itself configures
    NoRun,
    NStages,        \* stages of a pipeline run
    Coordinated     \* callers do not reconfigure faer while a run holds it

ASSUME NStagesAssumption == NStages \in Nat \ {0}
ASSUME CoordinatedAssumption == Coordinated \in BOOLEAN
ASSUME RunNamesAssumption == NoRun \notin Runs /\ Runs \cap Ambient = {}

VARIABLES
    pc,             \* where each run is
    kind,           \* "pipeline", or "module" for one named stage
    cancelled,      \* the run's cancellation token
    expired,        \* the run's deadline has passed
    outcome,        \* what the run returned, or is unwinding with
    stages,         \* stages the run has computed
    lock,           \* LOCK: the run that holds it, or NoRun
    par,            \* faer's global policy
    saved,          \* the policy each run's Restore guard will put back
    configured,     \* the policy the program configured last (history)
    late,           \* the run was interrupted before it got the lock (history)
    calledOff       \* the stage whose announcement the callback cancelled (history)

vars == <<pc, kind, cancelled, expired, outcome, stages, lock, par, saved,
          configured, late, calledOff>>

Policies == Runs \cup Ambient
Outside == {"idle", "entry", "pool", "acquire", "done"}
Holding == {"save", "set", "settings", "boundary", "callback", "recheck", "work",
            "restore", "release"}
\* The part of a scope in which faer reads the run's own policy.
InScope == {"settings", "boundary", "callback", "recheck", "work", "restore"}
Outcomes == {"none", "ok", "cancelled", "deadline", "failed", "panicked"}

Init ==
    /\ pc = [r \in Runs |-> "idle"]
    /\ kind \in [Runs -> {"pipeline", "module"}]
    /\ cancelled = [r \in Runs |-> FALSE]
    /\ expired = [r \in Runs |-> FALSE]
    /\ outcome = [r \in Runs |-> "none"]
    /\ stages = [r \in Runs |-> 0]
    /\ lock = NoRun
    /\ configured \in Ambient
    /\ par = configured
    /\ saved = [r \in Runs |-> configured]
    /\ late = [r \in Runs |-> FALSE]
    /\ calledOff = [r \in Runs |-> 0]

---------------------------------------------------------------------------

Goto(r, from, to) == pc[r] = from /\ pc' = [pc EXCEPT ![r] = to]

\* Control::check asks for the token first.
Interrupted(r) == cancelled[r] \/ expired[r]
Reason(r) == IF cancelled[r] THEN "cancelled" ELSE "deadline"

\* An error return of the step `from`: it unwinds to `to`.
Unwind(r, from, to, why) ==
    /\ Goto(r, from, to)
    /\ outcome' = [outcome EXCEPT ![r] = why]

Call(r) ==
    /\ Goto(r, "idle", "entry")
    /\ UNCHANGED <<kind, cancelled, expired, outcome, stages, lock, par, saved, configured,
                   late, calledOff>>

\* options.control.check()? before anything is built
CheckEntry(r) ==
    /\ \/ Interrupted(r) /\ Unwind(r, "entry", "done", Reason(r))
       \/ ~Interrupted(r) /\ Goto(r, "entry", "pool") /\ UNCHANGED outcome
    /\ UNCHANGED <<kind, cancelled, expired, stages, lock, par, saved, configured, late,
                   calledOff>>

\* Mutant: the policy is set before the lock is taken.
BuildPool_SetsPolicy(r) ==
    /\ Goto(r, "pool", "acquire")
    /\ par' = r
    /\ UNCHANGED <<kind, cancelled, expired, outcome, stages, lock, saved, configured, late,
                   calledOff>>

\* The pool is built before the lock is asked for.
BuildPool(r) ==
    /\ \/ Goto(r, "pool", "acquire") /\ UNCHANGED outcome
       \/ Unwind(r, "pool", "done", "failed")
    /\ UNCHANGED <<kind, cancelled, expired, stages, lock, par, saved, configured, late,
                   calledOff>>

\* LOCK.lock(); a poisoned lock is taken like any other.
LockFree_Ignored == TRUE   \* mutant: the lock excludes nobody
LockFree == lock = NoRun
Acquire(r) ==
    /\ Goto(r, "acquire", "save")
    /\ LockFree
    /\ lock' = r
    /\ late' = [late EXCEPT ![r] = Interrupted(r)]
    /\ UNCHANGED <<kind, cancelled, expired, outcome, stages, par, saved, configured,
                   calledOff>>

\* Mutant: the guard will restore faer's default instead of the previous policy.
SavePolicy_Default(r) ==
    /\ Goto(r, "save", "set")
    /\ saved' = [saved EXCEPT ![r] = CHOOSE p \in Ambient : TRUE]
    /\ UNCHANGED <<kind, cancelled, expired, outcome, stages, lock, par, configured, late,
                   calledOff>>

\* Restore(get_global_parallelism())
SavePolicy(r) ==
    /\ Goto(r, "save", "set")
    /\ saved' = [saved EXCEPT ![r] = par]
    /\ UNCHANGED <<kind, cancelled, expired, outcome, stages, lock, par, configured, late,
                   calledOff>>

\* set_parallelism(Some(threads))
SetPolicy(r) ==
    /\ Goto(r, "set", "settings")
    /\ par' = r
    /\ UNCHANGED <<kind, cancelled, expired, outcome, stages, lock, saved, configured, late,
                   calledOff>>

\* Mutants: the second check is missing; its error return skips the guard.
SecondCheck_Missing(r) ==
    /\ Goto(r, "settings", IF kind[r] = "pipeline" THEN "boundary" ELSE "work")
    /\ UNCHANGED <<kind, cancelled, expired, outcome, stages, lock, par, saved, configured,
                   late, calledOff>>
SecondCheck_SkipsGuard(r) ==
    /\ \/ Interrupted(r) /\ Unwind(r, "settings", "release", Reason(r))
       \/ ~Interrupted(r) /\ Goto(r, "settings", "work") /\ UNCHANGED outcome
    /\ UNCHANGED <<kind, cancelled, expired, stages, lock, par, saved, configured, late,
                   calledOff>>

\* with_settings checks the control again: the wait for the lock may have been
\* long. A pipeline goes on to its first stage boundary, a module run to its work.
SecondCheck(r) ==
    /\ \/ Interrupted(r) /\ Unwind(r, "settings", "restore", Reason(r))
       \/ /\ ~Interrupted(r)
          /\ Goto(r, "settings", IF kind[r] = "pipeline" THEN "boundary" ELSE "work")
          /\ UNCHANGED outcome
    /\ UNCHANGED <<kind, cancelled, expired, stages, lock, par, saved, configured, late,
                   calledOff>>

\* start(name): the checkpoint before the stage is announced
Boundary(r) ==
    /\ \/ Interrupted(r) /\ Unwind(r, "boundary", "restore", Reason(r))
       \/ ~Interrupted(r) /\ Goto(r, "boundary", "callback") /\ UNCHANGED outcome
    /\ UNCHANGED <<kind, cancelled, expired, stages, lock, par, saved, configured, late,
                   calledOff>>

\* The observer runs on the calculation's thread; it may cancel the run or panic.
Callback(r) ==
    /\ \/ /\ Goto(r, "callback", "recheck")
          /\ UNCHANGED <<outcome, cancelled, calledOff>>
       \/ /\ Goto(r, "callback", "recheck")
          /\ cancelled' = [cancelled EXCEPT ![r] = TRUE]
          /\ calledOff' = [calledOff EXCEPT ![r] = stages[r] + 1]
          /\ UNCHANGED outcome
       \/ /\ Unwind(r, "callback", "restore", "panicked")
          /\ UNCHANGED <<cancelled, calledOff>>
    /\ UNCHANGED <<kind, expired, stages, lock, par, saved, configured, late>>

\* Mutant: a stage is announced after its only checkpoint.
Recheck_Missing(r) ==
    /\ Goto(r, "recheck", "work")
    /\ UNCHANGED <<kind, cancelled, expired, outcome, stages, lock, par, saved, configured,
                   late, calledOff>>

\* start(name): the checkpoint after the announcement
Recheck(r) ==
    /\ \/ Interrupted(r) /\ Unwind(r, "recheck", "restore", Reason(r))
       \/ ~Interrupted(r) /\ Goto(r, "recheck", "work") /\ UNCHANGED outcome
    /\ UNCHANGED <<kind, cancelled, expired, stages, lock, par, saved, configured, late,
                   calledOff>>

LastStage_OffByOne(r) == kind[r] = "module" \/ stages[r] = NStages   \* mutant
LastStage(r) == kind[r] = "module" \/ stages[r] + 1 = NStages
\* The stage computes, fails, panics, or stops at a checkpoint of its own.
Work(r) ==
    /\ \/ /\ Goto(r, "work", IF LastStage(r) THEN "restore" ELSE "boundary")
          /\ stages' = [stages EXCEPT ![r] = @ + 1]
          /\ outcome' = [outcome EXCEPT ![r] = IF LastStage(r) THEN "ok" ELSE @]
       \/ Unwind(r, "work", "restore", "failed") /\ UNCHANGED stages
       \/ Unwind(r, "work", "restore", "panicked") /\ UNCHANGED stages
       \/ Interrupted(r) /\ Unwind(r, "work", "restore", Reason(r)) /\ UNCHANGED stages
    /\ UNCHANGED <<kind, cancelled, expired, lock, par, saved, configured, late, calledOff>>

\* The Restore guard, declared after the lock guard, is dropped before it.
RestorePolicy(r) ==
    /\ Goto(r, "restore", "release")
    /\ par' = saved[r]
    /\ UNCHANGED <<kind, cancelled, expired, outcome, stages, lock, saved, configured, late,
                   calledOff>>

\* Mutant: a panic under the lock leaves it held.
Release_LostOnPanic(r) ==
    /\ Goto(r, "release", "done")
    /\ lock' = IF outcome[r] = "panicked" THEN lock ELSE NoRun
    /\ UNCHANGED <<kind, cancelled, expired, outcome, stages, par, saved, configured, late,
                   calledOff>>

Release(r) ==
    /\ Goto(r, "release", "done")
    /\ lock' = NoRun
    /\ UNCHANGED <<kind, cancelled, expired, outcome, stages, par, saved, configured, late,
                   calledOff>>

---------------------------------------------------------------------------
\* The environment

Cancel(r) ==
    /\ pc[r] # "done" /\ ~cancelled[r]
    /\ cancelled' = [cancelled EXCEPT ![r] = TRUE]
    /\ UNCHANGED <<pc, kind, expired, outcome, stages, lock, par, saved, configured, late,
                   calledOff>>

Expire(r) ==
    /\ pc[r] # "done" /\ ~expired[r]
    /\ expired' = [expired EXCEPT ![r] = TRUE]
    /\ UNCHANGED <<pc, kind, cancelled, outcome, stages, lock, par, saved, configured, late,
                   calledOff>>

\* configure_parallelism takes no lock.
Configure(p) ==
    /\ Coordinated => lock = NoRun
    /\ par' = p
    /\ configured' = p
    /\ UNCHANGED <<pc, kind, cancelled, expired, outcome, stages, lock, saved, late, calledOff>>

Step(r) ==
    \/ Call(r) \/ CheckEntry(r) \/ BuildPool(r) \/ Acquire(r) \/ SavePolicy(r)
    \/ SetPolicy(r) \/ SecondCheck(r) \/ Boundary(r) \/ Callback(r) \/ Recheck(r)
    \/ Work(r) \/ RestorePolicy(r) \/ Release(r)

Next ==
    \/ \E r \in Runs : Step(r) \/ Cancel(r) \/ Expire(r)
    \/ \E p \in Ambient : Configure(p)

Spec == Init /\ [][Next]_vars

\* Threads are scheduled, callbacks return and stages end.
FairSpec == Spec /\ \A r \in Runs : WF_vars(Step(r))

---------------------------------------------------------------------------
\* Properties

TypeOK ==
    /\ pc \in [Runs -> Outside \cup Holding]
    /\ kind \in [Runs -> {"pipeline", "module"}]
    /\ cancelled \in [Runs -> BOOLEAN]
    /\ expired \in [Runs -> BOOLEAN]
    /\ outcome \in [Runs -> Outcomes]
    /\ stages \in [Runs -> 0 .. NStages]
    /\ lock \in Runs \cup {NoRun}
    /\ par \in Policies
    /\ saved \in [Runs -> Policies]
    /\ configured \in Ambient
    /\ late \in [Runs -> BOOLEAN]
    /\ calledOff \in [Runs -> 0 .. NStages]

\* No two calculations are between taking and releasing the faer lock.
MutualExclusion ==
    \A r, q \in Runs : pc[r] \in Holding /\ pc[q] \in Holding => r = q

\* While a calculation computes, every faer solver of the process reads that
\* calculation's thread bound: no other run's scope, entry or unwinding changes it.
ComputesUnderOwnPolicy == \A r \in Runs : pc[r] \in InScope => par = r

\* Whenever no calculation holds the lock faer has the program's own policy,
\* however the last one ended (result, error, interruption or panic).
PolicyRestored == lock = NoRun => par = configured

\* A run cancelled or out of time before it got the lock computes nothing,
\* although it had passed the check at entry.
LateRunComputesNothing == \A r \in Runs : late[r] => stages[r] = 0

\* A callback that cancels while a stage is being announced stops that stage.
AnnouncedStageStops == \A r \in Runs : calledOff[r] # 0 => stages[r] < calledOff[r]

\* Every calculation that is started returns, whatever the others do: nobody
\* waits for the lock forever, not even after a panic under it.
EveryRunReturns == \A r \in Runs : pc[r] = "entry" ~> pc[r] = "done"

\* The scope implements its specification: the locks and guards show as one
\* owner at a time whose policy is in force, and the program's otherwise.
Owner ==
    IF \E r \in Runs : pc[r] \in InScope
    THEN CHOOSE r \in Runs : pc[r] \in InScope ELSE NoRun
Scope == INSTANCE ParallelScope WITH owner <- Owner, policy <- par, base <- configured
ScopeRefined == Scope!Spec
============================================================================
