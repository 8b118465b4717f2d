--------------------------- MODULE ParallelScope ---------------------------
(***************************************************************************)
(* What `with_parallelism` promises its callers, without locks or guards:  *)
(* the process-wide faer policy is the program's own except inside one     *)
(* calculation's scope, where it is that calculation's.                    *)
(***************************************************************************)
CONSTANTS
    Runs,       \* calculations; a run's own thread bound is named by the run
    Ambient,    \* policies the program sets outside every calculation
    NoRun

VARIABLES
    owner,      \* the calculation in scope, or NoRun
    policy,     \* the policy faer's solvers read
    base        \* the policy the program chose

vars == <<owner, policy, base>>

Init ==
    /\ owner = NoRun
    /\ base \in Ambient
    /\ policy = base

Enter(r) ==
    /\ owner = NoRun
    /\ owner' = r
    /\ policy' = r
    /\ UNCHANGED base

Leave(r) ==
    /\ owner = r
    /\ owner' = NoRun
    /\ policy' = base
    /\ UNCHANGED base

Configure(p) ==
    /\ owner = NoRun
    /\ base' = p
    /\ policy' = p
    /\ UNCHANGED owner

Next ==
    \/ \E r \in Runs : Enter(r) \/ Leave(r)
    \/ \E p \in Ambient : Configure(p)

Spec == Init /\ [][Next]_vars
============================================================================
