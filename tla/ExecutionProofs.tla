--------------------------- MODULE ExecutionProofs ---------------------------
(* The execution scope is exclusive and restores the faer policy, for any    *)
(* number of calculations, stages and policies.                              *)
EXTENDS Execution, TLAPS

USE DEF Goto, Unwind, Outside, Holding, InScope, Outcomes, Policies

LEMMA Policied == ASSUME NEW r \in Runs PROVE r \in Policies
  BY DEF Policies

\* A pipeline has a stage left while it is on its way to one.
StagesLeft ==
    \A r \in Runs :
        /\ pc[r] \in {"idle", "entry", "pool", "acquire", "save", "set", "settings"} =>
              stages[r] = 0
        /\ pc[r] \in {"boundary", "callback", "recheck", "work"} => stages[r] < NStages

TypeInv == TypeOK /\ StagesLeft

LEMMA TypeInit == Init => TypeInv
  BY NStagesAssumption DEF Init, TypeInv, TypeOK, StagesLeft

LEMMA TypeStep == TypeInv /\ [Next]_vars => TypeInv'
  <1> SUFFICES ASSUME TypeInv, [Next]_vars PROVE TypeInv'
    OBVIOUS
  <1> USE NStagesAssumption DEF TypeInv
  <1>u. CASE UNCHANGED vars
    BY <1>u DEF TypeOK, StagesLeft, vars
  <1>c. ASSUME NEW p \in Ambient, Configure(p) PROVE TypeInv'
    BY <1>c DEF Configure, TypeOK, StagesLeft
  <1>s. ASSUME NEW r \in Runs, Step(r) \/ Cancel(r) \/ Expire(r) PROVE TypeInv'
    <2>1. CASE Call(r)
      BY <2>1 DEF Call, TypeOK, StagesLeft
    <2>2. CASE CheckEntry(r)
      BY <2>2 DEF CheckEntry, Reason, TypeOK, StagesLeft
    <2>3. CASE BuildPool(r)
      BY <2>3 DEF BuildPool, TypeOK, StagesLeft
    <2>4. CASE Acquire(r)
      BY <2>4 DEF Acquire, Interrupted, TypeOK, StagesLeft
    <2>5. CASE SavePolicy(r)
      BY <2>5 DEF SavePolicy, TypeOK, StagesLeft
    <2>6. CASE SetPolicy(r)
      BY <2>6 DEF SetPolicy, TypeOK, StagesLeft
    <2>7. CASE SecondCheck(r)
      BY <2>7 DEF SecondCheck, Reason, TypeOK, StagesLeft
    <2>8. CASE Boundary(r)
      BY <2>8 DEF Boundary, Reason, TypeOK, StagesLeft
    <2>9. CASE Callback(r)
      <3>1. pc[r] = "callback" /\ stages[r] \in Nat /\ stages[r] < NStages
        BY <2>9 DEF Callback, TypeOK, StagesLeft
      <3>2. stages[r] + 1 \in 0 .. NStages
        BY <3>1
      <3>3. calledOff' \in [Runs -> 0 .. NStages]
        BY <2>9, <3>2 DEF Callback, TypeOK
      <3>4. TypeOK'
        BY <2>9, <3>3 DEF Callback, TypeOK
      <3>5. StagesLeft'
        BY <2>9, <3>1 DEF Callback, TypeOK, StagesLeft
      <3> QED BY <3>4, <3>5
    <2>10. CASE Recheck(r)
      BY <2>10 DEF Recheck, Reason, TypeOK, StagesLeft
    <2>11. CASE Work(r)
      <3>1. pc[r] = "work" /\ stages[r] \in Nat /\ stages[r] < NStages
        BY <2>11 DEF Work, TypeOK, StagesLeft
      <3>2. /\ stages[r] + 1 \in 0 .. NStages
            /\ ~LastStage(r) => stages[r] + 1 < NStages
        BY <3>1 DEF LastStage
      <3>3. stages' \in [Runs -> 0 .. NStages]
        BY <2>11, <3>2 DEF Work, TypeOK
      <3>4. TypeOK'
        BY <2>11, <3>3 DEF Work, Reason, TypeOK
      <3>5. StagesLeft'
        BY <2>11, <3>1, <3>2 DEF Work, TypeOK, StagesLeft
      <3> QED BY <3>4, <3>5
    <2>12. CASE RestorePolicy(r)
      BY <2>12 DEF RestorePolicy, TypeOK, StagesLeft
    <2>13. CASE Release(r)
      <3>1. TypeOK'
        BY <2>13 DEF Release, TypeOK
      <3>2. StagesLeft'
        BY <2>13 DEF Release, TypeOK, StagesLeft
      <3> QED BY <3>1, <3>2
    <2>14. CASE Cancel(r) \/ Expire(r)
      BY <2>14 DEF Cancel, Expire, TypeOK, StagesLeft
    <2> QED
      BY <1>s, <2>1, <2>2, <2>3, <2>4, <2>5, <2>6, <2>7, <2>8, <2>9, <2>10, <2>11, <2>12,
         <2>13, <2>14 DEF Step
  <1> QED BY <1>u, <1>c, <1>s DEF Next

\* Every variable of the execution scope keeps its type; no pipeline computes
\* more stages than it has.
THEOREM TypeCorrect == Spec => []TypeOK
  <1>1. Spec => []TypeInv
    BY TypeInit, TypeStep, PTL DEF Spec
  <1> QED BY <1>1, PTL DEF TypeInv

---------------------------------------------------------------------------
\* The lock and the policy

LockInv == \A r \in Runs : pc[r] \in Holding <=> lock = r

LEMMA LockInit == Init => LockInv
  <1> SUFFICES ASSUME Init, NEW r \in Runs PROVE pc[r] \notin Holding /\ lock # r
    BY DEF LockInv
  <1> QED BY RunNamesAssumption DEF Init

LEMMA LockStep == TypeInv /\ LockInv /\ [Next]_vars => LockInv'
  <1> SUFFICES ASSUME TypeInv, LockInv, [Next]_vars PROVE LockInv'
    OBVIOUS
  <1> USE RunNamesAssumption DEF TypeInv, TypeOK, LockInv
  <1>u. CASE UNCHANGED vars
    BY <1>u DEF vars
  <1>c. ASSUME NEW p \in Ambient, Configure(p) PROVE LockInv'
    BY <1>c DEF Configure
  <1>s. ASSUME NEW r \in Runs, Step(r) \/ Cancel(r) \/ Expire(r) PROVE LockInv'
    <2>1. CASE Call(r) \/ CheckEntry(r) \/ BuildPool(r)
      BY <2>1 DEF Call, CheckEntry, BuildPool
    <2>2. CASE Acquire(r)
      BY <2>2 DEF Acquire, LockFree
    <2>3. CASE SavePolicy(r) \/ SetPolicy(r) \/ SecondCheck(r)
      BY <2>3 DEF SavePolicy, SetPolicy, SecondCheck
    <2>4. CASE Boundary(r) \/ Callback(r) \/ Recheck(r)
      BY <2>4 DEF Boundary, Callback, Recheck
    <2>5. CASE Work(r)
      BY <2>5 DEF Work
    <2>6. CASE RestorePolicy(r)
      BY <2>6 DEF RestorePolicy
    <2>7. CASE Release(r)
      BY <2>7 DEF Release
    <2>8. CASE Cancel(r) \/ Expire(r)
      BY <2>8 DEF Cancel, Expire
    <2> QED
      BY <1>s, <2>1, <2>2, <2>3, <2>4, <2>5, <2>6, <2>7, <2>8 DEF Step
  <1> QED BY <1>u, <1>c, <1>s DEF Next

\* What each part of a scope knows of faer's policy when callers coordinate.
PolicyInv ==
    /\ lock = NoRun => par = configured
    /\ \A r \in Runs :
        /\ pc[r] \in {"save", "set", "release"} => par = configured
        /\ pc[r] \in {"set"} \cup InScope => saved[r] = configured
        /\ pc[r] \in InScope => par = r

LEMMA PolicyInit == Init => PolicyInv
  BY DEF Init, PolicyInv

LEMMA PolicyStep ==
    ASSUME Coordinated
    PROVE  TypeInv /\ LockInv /\ PolicyInv /\ [Next]_vars => PolicyInv'
  <1> SUFFICES ASSUME TypeInv, LockInv, PolicyInv, [Next]_vars PROVE PolicyInv'
    OBVIOUS
  <1> USE RunNamesAssumption DEF TypeInv, TypeOK, LockInv, PolicyInv
  <1>u. CASE UNCHANGED vars
    BY <1>u DEF vars
  <1>c. ASSUME NEW p \in Ambient, Configure(p) PROVE PolicyInv'
    BY <1>c DEF Configure
  <1>s. ASSUME NEW r \in Runs, Step(r) \/ Cancel(r) \/ Expire(r) PROVE PolicyInv'
    <2>1. CASE Call(r) \/ CheckEntry(r) \/ BuildPool(r)
      BY <2>1 DEF Call, CheckEntry, BuildPool
    <2>2. CASE Acquire(r)
      BY <2>2 DEF Acquire, LockFree
    <2>3. CASE SavePolicy(r)
      BY <2>3 DEF SavePolicy
    <2>4. CASE SetPolicy(r)
      BY <2>4 DEF SetPolicy
    <2>5. CASE SecondCheck(r) \/ Boundary(r) \/ Callback(r) \/ Recheck(r)
      BY <2>5 DEF SecondCheck, Boundary, Callback, Recheck
    <2>6. CASE Work(r)
      BY <2>6 DEF Work
    <2>7. CASE RestorePolicy(r)
      BY <2>7 DEF RestorePolicy
    <2>8. CASE Release(r)
      BY <2>8 DEF Release
    <2>9. CASE Cancel(r) \/ Expire(r)
      BY <2>9 DEF Cancel, Expire
    <2> QED
      BY <1>s, <2>1, <2>2, <2>3, <2>4, <2>5, <2>6, <2>7, <2>8, <2>9 DEF Step
  <1> QED BY <1>u, <1>c, <1>s DEF Next

\* At most one calculation holds the lock, whether or not callers coordinate.
THEOREM CalculationsExclude == Spec => []MutualExclusion
  <1>1. Spec => [](TypeInv /\ LockInv)
    BY TypeInit, TypeStep, LockInit, LockStep, PTL DEF Spec
  <1>2. LockInv => MutualExclusion
    BY DEF LockInv, MutualExclusion
  <1> QED BY <1>1, <1>2, PTL

LEMMA ScopeInvariants ==
    ASSUME Coordinated PROVE Spec => [](TypeInv /\ LockInv /\ PolicyInv)
  BY TypeInit, TypeStep, LockInit, LockStep, PolicyInit, PolicyStep, PTL DEF Spec

\* Every calculation computes under its own policy, if the program reconfigures
\* faer only while no calculation holds the lock.
THEOREM OwnPolicy == ASSUME Coordinated PROVE Spec => []ComputesUnderOwnPolicy
  <1>1. PolicyInv => ComputesUnderOwnPolicy
    BY DEF PolicyInv, ComputesUnderOwnPolicy
  <1> QED BY <1>1, ScopeInvariants, PTL

\* The program has its own policy back whenever no calculation holds the lock,
\* however the last one ended, if it reconfigures faer only then.
THEOREM ProgramPolicy == ASSUME Coordinated PROVE Spec => []PolicyRestored
  <1>1. PolicyInv => PolicyRestored
    BY DEF PolicyInv, PolicyRestored
  <1> QED BY <1>1, ScopeInvariants, PTL

---------------------------------------------------------------------------
\* What an interruption prevents

InterruptInv ==
    \A r \in Runs :
        /\ pc[r] \in Outside \ {"done"} => ~late[r]
        /\ late[r] => /\ Interrupted(r)
                      /\ stages[r] = 0
                      /\ pc[r] \notin {"boundary", "callback", "recheck", "work"}
        /\ calledOff[r] # 0 => /\ cancelled[r]
                               /\ stages[r] < calledOff[r]
                               /\ pc[r] \in {"recheck", "restore", "release", "done"}

LEMMA InterruptInit == Init => InterruptInv
  BY DEF Init, InterruptInv

LEMMA InterruptStep == TypeInv /\ InterruptInv /\ [Next]_vars => InterruptInv'
  <1> SUFFICES ASSUME TypeInv, InterruptInv, [Next]_vars PROVE InterruptInv'
    OBVIOUS
  <1> USE DEF TypeInv, TypeOK, InterruptInv, Interrupted
  <1>u. CASE UNCHANGED vars
    BY <1>u DEF vars
  <1>c. ASSUME NEW p \in Ambient, Configure(p) PROVE InterruptInv'
    BY <1>c DEF Configure
  <1>s. ASSUME NEW r \in Runs, Step(r) \/ Cancel(r) \/ Expire(r) PROVE InterruptInv'
    <2>1. CASE Call(r) \/ CheckEntry(r) \/ BuildPool(r)
      BY <2>1 DEF Call, CheckEntry, BuildPool
    <2>2. CASE Acquire(r)
      BY <2>2 DEF Acquire, StagesLeft
    <2>3. CASE SavePolicy(r) \/ SetPolicy(r) \/ RestorePolicy(r) \/ Release(r)
      BY <2>3 DEF SavePolicy, SetPolicy, RestorePolicy, Release
    <2>4. CASE SecondCheck(r) \/ Boundary(r) \/ Recheck(r)
      BY <2>4 DEF SecondCheck, Boundary, Recheck
    <2>5. CASE Callback(r)
      BY <2>5 DEF Callback
    <2>6. CASE Work(r)
      BY <2>6 DEF Work
    <2>7. CASE Cancel(r) \/ Expire(r)
      BY <2>7 DEF Cancel, Expire
    <2> QED
      BY <1>s, <2>1, <2>2, <2>3, <2>4, <2>5, <2>6, <2>7 DEF Step
  <1> QED BY <1>u, <1>c, <1>s DEF Next

LEMMA InterruptInvariants == Spec => [](TypeInv /\ InterruptInv)
  BY TypeInit, TypeStep, InterruptInit, InterruptStep, PTL DEF Spec

\* A run interrupted while it waited for the lock computes nothing.
THEOREM LateRunsStop == Spec => []LateRunComputesNothing
  <1>1. InterruptInv => LateRunComputesNothing
    BY DEF InterruptInv, LateRunComputesNothing
  <1> QED BY <1>1, InterruptInvariants, PTL

\* A stage whose announcement was answered with a cancellation is not computed.
THEOREM AnnouncedStagesStop == Spec => []AnnouncedStageStops
  <1>1. InterruptInv => AnnouncedStageStops
    BY DEF InterruptInv, AnnouncedStageStops
  <1> QED BY <1>1, InterruptInvariants, PTL

---------------------------------------------------------------------------
\* Refinement: each step of the scope is a step of ParallelScope or a stutter.

LEMMA OwnerIs ==
    ASSUME LockInv
    PROVE  /\ \A r \in Runs : pc[r] \in InScope => Owner = r
           /\ (\A r \in Runs : pc[r] \notin InScope) => Owner = NoRun
  BY DEF LockInv, Owner

LEMMA OwnerIsNext ==
    ASSUME LockInv'
    PROVE  /\ \A r \in Runs : pc'[r] \in InScope => Owner' = r
           /\ (\A r \in Runs : pc'[r] \notin InScope) => Owner' = NoRun
  BY DEF LockInv, Owner

\* A step that neither moves a run into or out of its scope nor touches faer
\* is a stutter of the abstract scope.
LEMMA SameOwner ==
    ASSUME TypeInv, LockInv, LockInv', NEW r \in Runs,
           pc' = [pc EXCEPT ![r] = pc'[r]], pc[r] \in InScope <=> pc'[r] \in InScope
    PROVE  Owner' = Owner
  <1>1. \A q \in Runs : pc[q] \in InScope <=> pc'[q] \in InScope
    BY DEF TypeInv, TypeOK
  <1>2. CASE \E q \in Runs : pc[q] \in InScope
    BY <1>1, <1>2, OwnerIs, OwnerIsNext
  <1>3. CASE \A q \in Runs : pc[q] \notin InScope
    BY <1>1, <1>3, OwnerIs, OwnerIsNext
  <1> QED BY <1>2, <1>3

LEMMA ScopeStep ==
    ASSUME Coordinated, TypeInv, LockInv, PolicyInv, LockInv', [Next]_vars
    PROVE  [Scope!Next]_(Scope!vars)
  <1> USE DEF TypeInv, TypeOK
  <1> DEFINE Stutter == Owner' = Owner /\ par' = par /\ configured' = configured
  <1>0. Stutter => UNCHANGED Scope!vars
    BY DEF Scope!vars
  <1>u. CASE UNCHANGED vars
    BY <1>u, <1>0 DEF vars, Owner
  <1>c. ASSUME NEW p \in Ambient, Configure(p) PROVE Scope!Configure(p)
    <2>1. lock = NoRun /\ pc' = pc
      BY <1>c DEF Configure
    <2>2. \A r \in Runs : pc[r] \notin InScope
      BY <2>1, RunNamesAssumption DEF LockInv
    <2>3. Owner = NoRun /\ Owner' = NoRun
      BY <2>1, <2>2, OwnerIs, OwnerIsNext
    <2> QED BY <1>c, <2>3 DEF Configure, Scope!Configure
  <1>s. ASSUME NEW r \in Runs, Step(r) \/ Cancel(r) \/ Expire(r)
        PROVE  Stutter \/ Scope!Enter(r) \/ Scope!Leave(r)
    <2>1. CASE Call(r) \/ CheckEntry(r) \/ BuildPool(r) \/ Acquire(r)
      BY <2>1, SameOwner DEF Call, CheckEntry, BuildPool, Acquire
    <2>2. CASE SavePolicy(r) \/ Release(r)
      BY <2>2, SameOwner DEF SavePolicy, Release
    <2>3. CASE SecondCheck(r) \/ Boundary(r) \/ Callback(r) \/ Recheck(r)
      BY <2>3, SameOwner DEF SecondCheck, Boundary, Callback, Recheck
    <2>4. CASE Work(r)
      BY <2>4, SameOwner DEF Work
    <2>5. CASE Cancel(r) \/ Expire(r)
      BY <2>5 DEF Cancel, Expire, Owner
    <2>6. CASE SetPolicy(r)
      <3>1. pc[r] = "set" /\ pc' = [pc EXCEPT ![r] = "settings"] /\ pc'[r] = "settings"
        BY <2>6 DEF SetPolicy
      <3>2. \A q \in Runs : pc[q] \notin InScope
        BY <3>1 DEF LockInv
      <3>3. Owner = NoRun /\ Owner' = r
        BY <3>1, <3>2, OwnerIs, OwnerIsNext
      <3> QED BY <2>6, <3>3 DEF SetPolicy, Scope!Enter
    <2>7. CASE RestorePolicy(r)
      <3>1. pc[r] = "restore" /\ pc' = [pc EXCEPT ![r] = "release"] /\ pc'[r] = "release"
        BY <2>7 DEF RestorePolicy
      <3>2. \A q \in Runs : pc'[q] \notin InScope
        BY <3>1 DEF LockInv
      <3>3. Owner = r /\ Owner' = NoRun
        BY <3>1, <3>2, OwnerIs, OwnerIsNext
      <3>4. saved[r] = configured
        BY <3>1 DEF PolicyInv
      <3> QED BY <2>7, <3>3, <3>4 DEF RestorePolicy, Scope!Leave
    <2> QED
      BY <1>s, <2>1, <2>2, <2>3, <2>4, <2>5, <2>6, <2>7 DEF Step
  <1> QED BY <1>0, <1>u, <1>c, <1>s DEF Next, Scope!Next

\* The lock and the guards implement one exclusive policy scope.
THEOREM ScopeImplemented == ASSUME Coordinated PROVE Spec => ScopeRefined
  <1>1. Init => Scope!Init
    <2> SUFFICES ASSUME Init PROVE Scope!Init
      OBVIOUS
    <2>1. Owner = NoRun
      BY LockInit, OwnerIs DEF Init
    <2> QED BY <2>1 DEF Init, Scope!Init
  <1>2. TypeInv /\ LockInv /\ PolicyInv /\ LockInv' /\ [Next]_vars
            => [Scope!Next]_(Scope!vars)
    BY ScopeStep
  <1> QED BY <1>1, <1>2, ScopeInvariants, PTL DEF Spec, ScopeRefined, Scope!Spec

---------------------------------------------------------------------------
\* Why every calculation returns

\* The steps a run takes at most from each place to its end, not counting the
\* stages that follow the present one.
Rank == [idle |-> 13, entry |-> 12, pool |-> 11, acquire |-> 10, save |-> 9, set |-> 8,
         settings |-> 7, boundary |-> 6, callback |-> 5, recheck |-> 4, work |-> 3,
         restore |-> 2, release |-> 1, done |-> 0]

\* Each further stage has four: boundary, callback, recheck and work.
Left(r) == Rank[pc[r]] + 4 * (NStages - stages[r])

\* A run at the lock waits for nobody, or for another run inside its scope.
WaitsForAScope ==
    \A r \in Runs : pc[r] = "acquire" =>
        lock = NoRun \/ (lock \in Runs \ {r} /\ pc[lock] \in Holding)

\* Nothing a run or the environment does gives any run more to do, and each
\* step of a run leaves it less.
ScopesShrink ==
    [][\A r \in Runs : Left(r)' <= Left(r) /\ (Step(r) => Left(r)' < Left(r))]_vars

LEMMA RankNat == \A p \in Outside \cup Holding : Rank[p] \in Nat
  BY DEF Rank

LEMMA LeftNat ==
    ASSUME TypeOK, NEW r \in Runs
    PROVE  Left(r) \in Nat /\ Rank[pc[r]] \in Nat /\ NStages - stages[r] \in Nat
  <1>1. Rank[pc[r]] \in Nat
    BY RankNat DEF TypeOK
  <1>2. NStages \in Nat /\ stages[r] \in Nat /\ stages[r] <= NStages
    BY NStagesAssumption DEF TypeOK
  <1> HIDE DEF Outside, Holding
  <1> QED BY <1>1, <1>2 DEF Left

\* A step that computes no stage goes down in rank; one that does starts the
\* next stage, or ends the work.
LEMMA StepShrinks ==
    ASSUME TypeInv, NEW r \in Runs, Step(r)
    PROVE  /\ \/ stages'[r] = stages[r] /\ Rank[pc'[r]] < Rank[pc[r]]
              \/ stages'[r] = stages[r] + 1 /\ Rank[pc'[r]] < Rank[pc[r]] + 4
           /\ \A q \in Runs \ {r} : stages'[q] = stages[q] /\ pc'[q] = pc[q]
  <1> USE DEF TypeInv, TypeOK
  <1>1. CASE Call(r) \/ CheckEntry(r) \/ BuildPool(r)
    BY <1>1 DEF Call, CheckEntry, BuildPool, Rank
  <1>2. CASE Acquire(r) \/ SavePolicy(r) \/ SetPolicy(r)
    BY <1>2 DEF Acquire, SavePolicy, SetPolicy, Rank
  <1>3. CASE SecondCheck(r)
    BY <1>3 DEF SecondCheck, Rank
  <1>4. CASE Boundary(r) \/ Recheck(r)
    BY <1>4 DEF Boundary, Recheck, Rank
  <1>5. CASE Callback(r)
    BY <1>5 DEF Callback, Rank
  <1>6. CASE Work(r)
    <2>1. /\ pc[r] = "work"
          /\ pc'[r] \in {"restore", "boundary"}
          /\ stages'[r] = stages[r] + 1 \/ (stages'[r] = stages[r] /\ pc'[r] = "restore")
          /\ \A q \in Runs \ {r} : stages'[q] = stages[q] /\ pc'[q] = pc[q]
      BY <1>6 DEF Work
    <2>2. Rank["work"] = 3 /\ Rank["restore"] = 2 /\ Rank["boundary"] = 6
      BY DEF Rank
    <2> QED BY <2>1, <2>2
  <1>7. CASE RestorePolicy(r) \/ Release(r)
    BY <1>7 DEF RestorePolicy, Release, Rank
  <1> QED BY <1>1, <1>2, <1>3, <1>4, <1>5, <1>6, <1>7 DEF Step

LEMMA LeftStep ==
    TypeInv /\ TypeInv' /\ [Next]_vars =>
        \A r \in Runs : Left(r)' <= Left(r) /\ (Step(r) => Left(r)' < Left(r))
  <1> SUFFICES ASSUME TypeInv, TypeInv', [Next]_vars, NEW r \in Runs
               PROVE  Left(r)' <= Left(r) /\ (Step(r) => Left(r)' < Left(r))
    OBVIOUS
  <1>1. Rank[pc[r]] \in Nat /\ stages[r] \in Nat /\ Rank[pc'[r]] \in Nat /\ stages'[r] \in Nat
    BY RankNat DEF TypeInv, TypeOK
  <1>2. NStages \in Nat
    BY NStagesAssumption
  <1>3. Left(r) = Rank[pc[r]] + 4 * (NStages - stages[r])
    BY DEF Left
  <1>4. Left(r)' = Rank[pc'[r]] + 4 * (NStages - stages'[r])
    BY DEF Left
  <1>5. CASE Step(r)
    <2>1. \/ stages'[r] = stages[r] /\ Rank[pc'[r]] < Rank[pc[r]]
          \/ stages'[r] = stages[r] + 1 /\ Rank[pc'[r]] < Rank[pc[r]] + 4
      BY <1>5, StepShrinks
    <2> QED BY <1>1, <1>2, <1>3, <1>4, <2>1
  <1>6. CASE ~Step(r)
    <2>1. stages'[r] = stages[r] /\ pc'[r] = pc[r]
      <3>1. CASE UNCHANGED vars
        BY <3>1 DEF vars
      <3>2. ASSUME NEW p \in Ambient, Configure(p) PROVE stages'[r] = stages[r] /\ pc'[r] = pc[r]
        BY <3>2 DEF Configure
      <3>3. ASSUME NEW q \in Runs, Cancel(q) \/ Expire(q)
            PROVE  stages'[r] = stages[r] /\ pc'[r] = pc[r]
        BY <3>3 DEF Cancel, Expire
      <3>4. ASSUME NEW q \in Runs, Step(q) PROVE stages'[r] = stages[r] /\ pc'[r] = pc[r]
        BY <1>6, <3>4, StepShrinks
      <3> QED BY <3>1, <3>2, <3>3, <3>4 DEF Next
    <2>2. Left(r)' = Left(r)
      BY <1>3, <1>4, <2>1
    <2>3. Left(r) \in Nat
      BY LeftNat DEF TypeInv
    <2> QED BY <1>6, <2>2, <2>3
  <1> QED BY <1>5, <1>6

\* with_execution and execution::start: however long the pipeline, each run has
\* a number of steps left that none of its steps, and nothing anybody else
\* does, fails to reduce or to leave alone; and the only thing a run ever waits
\* for is a run that is itself inside the scope, with the lock, and so has only
\* steps without a guard before it.  No chain or circle of waiting runs forms.
THEOREM ScopesEnd ==
    Spec => [](WaitsForAScope /\ \A r \in Runs : Left(r) \in Nat) /\ ScopesShrink
  <1>1. Spec => [](TypeInv /\ LockInv)
    BY TypeInit, TypeStep, LockInit, LockStep, PTL DEF Spec
  <1>2. TypeInv /\ LockInv => WaitsForAScope
    <2> SUFFICES ASSUME TypeInv, LockInv, NEW r \in Runs, pc[r] = "acquire"
                 PROVE  lock = NoRun \/ (lock \in Runs \ {r} /\ pc[lock] \in Holding)
      BY DEF WaitsForAScope
    <2>1. lock # r /\ lock \in Runs \cup {NoRun}
      BY DEF LockInv, TypeInv, TypeOK
    <2>2. lock \in Runs => pc[lock] \in Holding
      BY DEF LockInv
    <2> QED BY <2>1, <2>2
  <1>3. TypeInv => \A r \in Runs : Left(r) \in Nat
    BY LeftNat DEF TypeInv
  <1> QED BY <1>1, <1>2, <1>3, LeftStep, PTL DEF Spec, ScopesShrink
=============================================================================
