-------------------------- MODULE PublicationProofs --------------------------
(***************************************************************************)
(* Type correctness and the recompute guarantees of Publication, proved    *)
(* for any number of runs, files and I/O errors.                           *)
(*                                                                         *)
(* RunsInv says of each run, whatever the others do, what its staging and  *)
(* backup directories hold at each place of run_files.  On it rest the     *)
(* three arguments about all runs together: what is at the output and in   *)
(* the backups is whole; the files of a run that has published nothing are *)
(* in its staging directory only; and a run that is alone now was alone    *)
(* whenever it found the output as it is.                                  *)
(***************************************************************************)
EXTENDS Publication, TLAPS

LEMMA EmptyIsTree == Empty \in Tree
  BY DEF Empty, Tree

LEMMA FullIsTree == ASSUME NEW w \in Writers PROVE Full(w) \in Tree
  BY DEF Full, Tree

LEMMA PartlyRemovedIsTree ==
    ASSUME NEW tree \in Directory, NEW part \in PartlyRemoved(tree), tree # Absent
    PROVE  part \in Tree
  BY DEF PartlyRemoved, Tree, Directory

\* A backup that is being removed exists; needed for the type of its remains.
BackupTaken ==
    \A r \in Runners :
        pc[r] \in {"install", "rollback", "dropBackup"} => backup[r] # Absent

TypeInv == TypeOK /\ BackupTaken

USE DEF Goto, Return, Fault, Faults, Steps, Ends

LEMMA TypeInit == Init => TypeInv
  <1> SUFFICES ASSUME Init PROVE TypeInv
    OBVIOUS
  <1>1. output \in Directory /\ initial \in {Absent, Empty, Full(User)}
    BY EmptyIsTree, FullIsTree DEF Init, Directory, Writers
  <1>2. TypeOK
    BY <1>1, NFilesAssumption, MaxFaultsAssumption DEF Init, TypeOK, Directory
  <1>3. BackupTaken
    BY DEF Init, BackupTaken
  <1> QED BY <1>2, <1>3 DEF TypeInv

LEMMA TypeStep == TypeInv /\ [Next]_vars => TypeInv'
  <1> SUFFICES ASSUME TypeInv, [Next]_vars PROVE TypeInv'
    OBVIOUS
  <1> USE NFilesAssumption, MaxFaultsAssumption DEF TypeInv
  <1>u. CASE UNCHANGED vars
    BY <1>u DEF TypeOK, BackupTaken, vars
  <1>s. ASSUME NEW r \in Runners, Run(r) \/ Cancel(r) \/ Crash(r) PROVE TypeInv'
    <2> HIDE DEF Return
    <2>r. ASSUME NEW end \in Ends, NEW errors \in {0, 1}, Return(r, end, errors)
          PROVE  /\ pc' = [pc EXCEPT ![r] = end] /\ pc' \in [Runners -> Steps \cup Ends]
                 /\ staging' \in [Runners -> Directory]
                 /\ faults' \in [Runners -> 0 .. MaxFaults]
      BY <2>r, PartlyRemovedIsTree DEF Return, TypeOK, Directory
    <2>1. CASE Reject(r) \/ EnsureEmptyOutput(r) \/ Discard(r) \/ ChoosePublication(r)
      BY <2>1, <2>r DEF Reject, EnsureEmptyOutput, Discard, ChoosePublication, TypeOK, BackupTaken
    <2>2. CASE Start(r)
      BY <2>2, PoliciesAssumption DEF Start, TypeOK, BackupTaken
    <2>3. CASE EnsureDirectory(r)
      BY <2>3, EmptyIsTree DEF EnsureDirectory, TypeOK, BackupTaken, Directory
    <2>4. CASE MakeStaging(r)
      BY <2>4, EmptyIsTree DEF MakeStaging, TypeOK, BackupTaken, Directory
    <2>5. CASE EnterEngine(r)
      BY <2>5, <2>r DEF EnterEngine, TypeOK, BackupTaken, Directory
    <2>6. CASE Stage(r)
      <3> DEFINE f == written[r] + 1
                 tree == IF Root(r) = Absent THEN Empty ELSE Root(r)
      <3>1. written[r] \in Nat /\ written[r] < NFiles /\ f \in 0 .. NFiles
        BY <2>6 DEF Stage, Unfinished, TypeOK
      <3>2. written' \in [Runners -> 0 .. NFiles]
        BY <2>6, <3>1 DEF Stage, TypeOK
      <3>3. tree \in Tree
        BY EmptyIsTree DEF Root, Directory, TypeOK
      <3>4. [tree EXCEPT ![f] = r] \in Tree
        BY <3>3 DEF Tree, Writers
      <3> HIDE DEF f, tree
      <3>5. output' \in Directory /\ staging' \in [Runners -> Directory]
        BY <2>6, <3>4 DEF Stage, SetRoot, Directory, TypeOK, f, tree
      <3> QED
        BY <2>6, <3>2, <3>5 DEF Stage, TypeOK, BackupTaken
    <2>7. CASE StageFails(r) \/ Interrupt(r) \/ EngineDone(r)
      BY <2>7, <2>r DEF StageFails, Interrupt, EngineDone, TypeOK, BackupTaken, Directory
    <2>8. CASE PublishFresh(r)
      BY <2>8, <2>r DEF PublishFresh, TypeOK, BackupTaken, Directory
    <2>9. CASE ReserveBackup(r)
      BY <2>9, <2>r, EmptyIsTree DEF ReserveBackup, TypeOK, BackupTaken, Directory
    <2>10. CASE MoveAside(r)
      BY <2>10, <2>r DEF MoveAside, TypeOK, BackupTaken, Directory
    <2>11. CASE Install(r)
      BY <2>11 DEF Install, TypeOK, BackupTaken, Directory
    <2>12. CASE Rollback(r)
      BY <2>12 DEF Rollback, TypeOK, BackupTaken, Directory
    <2>13. CASE DropBackup(r)
      BY <2>13, PartlyRemovedIsTree DEF DropBackup, TypeOK, BackupTaken, Directory
    <2>14. CASE Cancel(r)
      BY <2>14 DEF Cancel, TypeOK, BackupTaken
    <2>15. CASE Crash(r)
      <3>1. staging' \in [Runners -> Directory] /\ backup' \in [Runners -> Directory]
        <4>1. ASSUME NEW d \in Directory, d # Absent, NEW part \in PartlyRemoved(d)
              PROVE  part \in Directory
          BY <4>1, PartlyRemovedIsTree DEF Directory
        <4>2. pc[r] = "dropBackup" => backup[r] # Absent
          BY DEF BackupTaken
        <4> QED BY <2>15, <4>1, <4>2, EmptyIsTree DEF Crash, TypeOK, Directory
      <3>2. \A q \in Runners :
              pc'[q] \in {"install", "rollback", "dropBackup"} => q # r /\ pc'[q] = pc[q]
        BY <2>15 DEF Crash, TypeOK
      <3>3. \A q \in Runners \ {r} : backup'[q] = backup[q]
        BY <2>15 DEF Crash, TypeOK
      <3> QED BY <2>15, <3>1, <3>2, <3>3 DEF Crash, TypeOK, BackupTaken
    <2> QED
      BY <1>s, <2>1, <2>2, <2>3, <2>4, <2>5, <2>6, <2>7, <2>8, <2>9, <2>10, <2>11, <2>12,
         <2>13, <2>14, <2>15 DEF Run, Publish
  <1> QED BY <1>u, <1>s DEF Next

\* Every variable of run_files keeps its type, whatever the runs do to each other.
THEOREM TypeCorrect == Spec => []TypeOK
  <1>1. Spec => []TypeInv
    BY TypeInit, TypeStep, PTL DEF Spec
  <1> QED BY <1>1, PTL DEF TypeInv

---------------------------------------------------------------------------
\* What a run, whatever the others do, has done at each place of run_files.

Publishing == {"publish", "fresh", "slot", "aside", "install", "rollback", "discard",
               "dropBackup"}

PlacesInv(r) ==
    /\ pc[r] \in Publishing \cup {"staging"} => Recomputing(r)
    /\ pc[r] \in {"conflict", "ensure"} => ~Recomputing(r)
    /\ ~Recomputing(r) => staging[r] = Absent
    /\ pc[r] \in {"idle", "staging", "conflict", "ensure", "enter", "engine", "publish",
                  "fresh", "slot", "aside", "cancelled"} => backup[r] = Absent
    /\ pc[r] \in {"idle", "staging", "conflict", "ensure"} => staging[r] = Absent
    /\ pc[r] = "cancelled" /\ faults[r] = 0 => staging[r] = Absent

\* Of the files in r's staging directory, those of finished stages are r's and
\* no other run's is.
OwnFiles(r) ==
    \A f \in Files :
        /\ staging[r][f] \in {r, Nobody}
        /\ f <= written[r] => staging[r][f] = r

StagingInv(r) ==
    Recomputing(r) =>
        /\ pc[r] \in {"idle", "staging", "enter"} => written[r] = 0
        /\ pc[r] \in {"enter", "engine"} => staging[r] # Absent
        /\ pc[r] \in {"enter", "engine"} => OwnFiles(r)
        /\ pc[r] \in {"publish", "fresh", "slot", "aside", "install"} => staging[r] = Full(r)

RunsInv == \A r \in Runners : PlacesInv(r) /\ StagingInv(r)

LEMMA StepKeeps ==
    ASSUME TypeInv, NEW p \in Runners, Run(p) \/ Cancel(p) \/ Crash(p)
    PROVE  /\ policy' = policy
           /\ \A q \in Runners \ {p} :
                pc'[q] = pc[q] /\ staging'[q] = staging[q] /\ backup'[q] = backup[q]
                /\ faults'[q] = faults[q] /\ written'[q] = written[q]
           /\ initial' = initial
  <1> USE DEF TypeInv, TypeOK
  <1>1. CASE Reject(p) \/ Start(p) \/ EnsureEmptyOutput(p) \/ EnsureDirectory(p) \/ MakeStaging(p)
    BY <1>1 DEF Reject, Start, EnsureEmptyOutput, EnsureDirectory, MakeStaging
  <1>2. CASE EnterEngine(p) \/ StageFails(p) \/ Interrupt(p) \/ EngineDone(p)
    BY <1>2 DEF EnterEngine, StageFails, Interrupt, EngineDone
  <1>3. CASE Stage(p)
    BY <1>3 DEF Stage, SetRoot
  <1>4. CASE ChoosePublication(p) \/ PublishFresh(p) \/ ReserveBackup(p) \/ MoveAside(p)
    BY <1>4 DEF ChoosePublication, PublishFresh, ReserveBackup, MoveAside
  <1>5. CASE Install(p) \/ Rollback(p) \/ Discard(p) \/ DropBackup(p)
    BY <1>5 DEF Install, Rollback, Discard, DropBackup
  <1>6. CASE Cancel(p) \/ Crash(p)
    BY <1>6 DEF Cancel, Crash
  <1> QED BY <1>1, <1>2, <1>3, <1>4, <1>5, <1>6 DEF Run, Publish

LEMMA PlacesStep ==
    ASSUME TypeInv, NEW p \in Runners, Run(p) \/ Cancel(p) \/ Crash(p), PlacesInv(p)
    PROVE  PlacesInv(p)'
  <1> USE DEF TypeInv, TypeOK, PlacesInv, Recomputing, Publishing
  <1>1. CASE Reject(p) \/ EnsureEmptyOutput(p) \/ EnsureDirectory(p) \/ MakeStaging(p)
    BY <1>1 DEF Reject, EnsureEmptyOutput, EnsureDirectory, MakeStaging
  <1>2. CASE Start(p)
    BY <1>2, PoliciesAssumption DEF Start
  <1>3. CASE EnterEngine(p) \/ StageFails(p) \/ Interrupt(p) \/ EngineDone(p)
    BY <1>3 DEF EnterEngine, StageFails, Interrupt, EngineDone
  <1>4. CASE Stage(p)
    BY <1>4 DEF Stage, SetRoot
  <1>5. CASE ChoosePublication(p) \/ PublishFresh(p) \/ ReserveBackup(p) \/ MoveAside(p)
    BY <1>5 DEF ChoosePublication, PublishFresh, ReserveBackup, MoveAside
  <1>6. CASE Install(p) \/ Rollback(p) \/ Discard(p) \/ DropBackup(p)
    BY <1>6 DEF Install, Rollback, Discard, DropBackup
  <1>7. CASE Cancel(p) \/ Crash(p)
    BY <1>7 DEF Cancel, Crash
  <1> QED BY <1>1, <1>2, <1>3, <1>4, <1>5, <1>6, <1>7 DEF Run, Publish

LEMMA StagingStep ==
    ASSUME TypeInv, NEW r \in Runners, Run(r) \/ Cancel(r) \/ Crash(r), PlacesInv(r),
           StagingInv(r)
    PROVE  StagingInv(r)'
  <1> SUFFICES ASSUME Recomputing(r)' PROVE StagingInv(r)'
    BY DEF StagingInv
  <1> USE DEF TypeInv
  <1>r. policy[r] = "recompute" /\ policy' = policy
    BY StepKeeps DEF Recomputing
  <1>i. StagingInv(r) /\ Recomputing(r)
    BY <1>r DEF Recomputing
  <1>q. pc[r] \notin {"conflict", "ensure"}
    BY <1>i DEF PlacesInv
  <1>1. CASE Reject(r) \/ Start(r) \/ EnsureEmptyOutput(r) \/ EnsureDirectory(r)
    BY <1>1, <1>r, <1>i, <1>q DEF Reject, Start, EnsureEmptyOutput, EnsureDirectory, TypeOK,
       StagingInv
  <1>2. CASE MakeStaging(r)
    <2>1. written[r] = 0 => \A f \in Files : Empty[f] = Nobody /\ ~(f <= written[r])
      BY NFilesAssumption DEF Empty, Files
    <2>2. Empty # Absent
      BY EmptyIsTree, AbsentAssumption
    <2> QED BY <1>2, <1>i, <2>1, <2>2 DEF MakeStaging, TypeOK, StagingInv, OwnFiles
  <1>3. CASE EnterEngine(r)
    BY <1>3, <1>i DEF EnterEngine, TypeOK, StagingInv, OwnFiles
  <1>4. CASE Stage(r)
    <2> DEFINE f == written[r] + 1
    <2>1. pc[r] = "engine" /\ staging[r] \in Tree /\ written[r] \in Nat /\ written[r] < NFiles
      BY <1>4, <1>i DEF Stage, Unfinished, TypeOK, StagingInv, Directory
    <2>2. f \in Files /\ written' = [written EXCEPT ![r] = f]
      BY <1>4, <2>1, NFilesAssumption DEF Stage, Files
    <2>3. /\ output' = output /\ backup' = backup /\ pc' = pc
          /\ \/ staging' = [staging EXCEPT ![r] = [staging[r] EXCEPT ![f] = r]]
             \/ staging' = staging /\ staging[r][f] # Nobody
      BY <1>4, <1>r, <2>1, AbsentAssumption DEF Stage, Root, SetRoot
    <2>4. PICK t \in Tree :
            /\ staging' = [staging EXCEPT ![r] = t]
            /\ \A g \in Files : t[g] \in {r, Nobody} /\ (g <= f => t[g] = r)
      <3>0. \A g \in Files : staging[r][g] \in {r, Nobody} /\ (g < f => staging[r][g] = r)
        <4>1. \A g \in Files : g \in Nat
          BY NFilesAssumption DEF Files
        <4>2. \A g \in Files : staging[r][g] \in {r, Nobody}
                             /\ (g <= written[r] => staging[r][g] = r)
          <5>1. OwnFiles(r)
            BY <2>1, <1>i DEF StagingInv
          <5> QED BY <5>1 DEF OwnFiles
        <4>3. \A g \in Files : g < f => g <= written[r]
          BY <4>1, <2>1
        <4> HIDE DEF f
        <4> QED BY <4>2, <4>3
      <3>1. CASE staging' = [staging EXCEPT ![r] = [staging[r] EXCEPT ![f] = r]]
        <4>1. [staging[r] EXCEPT ![f] = r] \in Tree
          BY <2>1 DEF Tree, Writers
        <4>2. \A g \in Files : g \in Nat /\ (g <= f => g = f \/ g < f)
          BY NFilesAssumption, <2>1 DEF Files
        <4>3. \A g \in Files : [staging[r] EXCEPT ![f] = r][g]
                                = IF g = f THEN r ELSE staging[r][g]
          BY <2>1 DEF Tree
        <4> HIDE DEF f
        <4> QED BY <4>1, <4>2, <4>3, <3>0, <3>1
      <3>2. CASE staging' = staging /\ staging[r][f] # Nobody
        BY <3>2, <3>0, <2>1, <2>2 DEF TypeOK, Files
      <3> QED BY <2>3, <3>1, <3>2
    <2>5. t # Absent
      BY AbsentAssumption
    <2> HIDE DEF f
    <2>6. written'[r] = f /\ staging'[r] = t
      BY <2>2, <2>4 DEF TypeOK
    <2> QED
      BY <2>1, <2>2, <2>3, <2>4, <2>5, <2>6, <1>i DEF StagingInv, OwnFiles, TypeOK
  <1>5. CASE StageFails(r) \/ Interrupt(r)
    BY <1>5, <1>i DEF StageFails, Interrupt, TypeOK, StagingInv
  <1>6. CASE EngineDone(r)
    <2>1. staging[r] \in Tree /\ \A f \in Files : staging[r][f] = r
      <3>1. pc[r] = "engine" /\ written[r] = NFiles /\ staging[r] \in Directory
        BY <1>6 DEF EngineDone, TypeOK
      <3>2. \A f \in Files : f <= written[r]
        BY <3>1, NFilesAssumption DEF Files
      <3>3. staging[r] # Absent /\ \A f \in Files : f <= written[r] => staging[r][f] = r
        <4>1. staging[r] # Absent /\ OwnFiles(r)
          BY <3>1, <1>i DEF StagingInv
        <4> QED BY <4>1 DEF OwnFiles
      <3> QED BY <3>1, <3>2, <3>3 DEF Directory
    <2>2. staging[r] = Full(r)
      BY <2>1 DEF Tree, Full
    <2> QED BY <1>6, <1>r, <2>2, <1>i DEF EngineDone, TypeOK, StagingInv
  <1>7. CASE ChoosePublication(r) \/ PublishFresh(r) \/ ReserveBackup(r) \/ MoveAside(r)
    BY <1>7, <1>i DEF ChoosePublication, PublishFresh, ReserveBackup, MoveAside, TypeOK,
       StagingInv
  <1>8. CASE Install(r) \/ Rollback(r) \/ Discard(r) \/ DropBackup(r)
    BY <1>8, <1>i DEF Install, Rollback, Discard, DropBackup, TypeOK, StagingInv
  <1>9. CASE Cancel(r) \/ Crash(r)
    BY <1>9, <1>i DEF Cancel, Crash, TypeOK, StagingInv, OwnFiles
  <1> QED BY <1>1, <1>2, <1>3, <1>4, <1>5, <1>6, <1>7, <1>8, <1>9 DEF Run, Publish

LEMMA RunsInit == Init => RunsInv
  BY DEF Init, RunsInv, PlacesInv, StagingInv, Publishing

LEMMA RunsStep == TypeInv /\ RunsInv /\ [Next]_vars => RunsInv'
  <1> SUFFICES ASSUME TypeInv, RunsInv, [Next]_vars, NEW r \in Runners
               PROVE  PlacesInv(r)' /\ StagingInv(r)'
    BY DEF RunsInv
  <1>i. PlacesInv(r) /\ StagingInv(r)
    BY DEF RunsInv
  <1>u. CASE UNCHANGED vars
    BY <1>u, <1>i DEF PlacesInv, StagingInv, OwnFiles, Recomputing, vars
  <1>s. ASSUME NEW p \in Runners, Run(p) \/ Cancel(p) \/ Crash(p)
        PROVE  PlacesInv(r)' /\ StagingInv(r)'
    <2>1. CASE r = p
      BY <1>s, <1>i, <2>1, PlacesStep, StagingStep
    <2>2. CASE r # p
      <3>1. /\ policy' = policy /\ pc'[r] = pc[r] /\ staging'[r] = staging[r]
            /\ backup'[r] = backup[r] /\ written'[r] = written[r] /\ faults'[r] = faults[r]
        BY <1>s, <2>2, StepKeeps
      <3> QED BY <1>i, <3>1 DEF PlacesInv, StagingInv, OwnFiles, Recomputing
    <2> QED BY <2>1, <2>2
  <1> QED BY <1>u, <1>s DEF Next

---------------------------------------------------------------------------
\* Recomputes only: the output is whole because whole trees are moved.

Whole == {Absent, Empty} \cup {Full(w) : w \in Writers}

PublicationInv ==
    /\ output \in Whole
    /\ \A r \in Runners : pc[r] \in {"install", "rollback"} => backup[r] \in Whole

RecomputeInv == AllRecompute => PublicationInv

LEMMA FullIsFull ==
    ASSUME NEW w \in Writers PROVE Full(w) # Empty /\ Full(w) # Absent
  <1>1. 1 \in Files
    BY NFilesAssumption DEF Files
  <1>2. Full(w)[1] = w /\ Empty[1] = Nobody
    BY <1>1 DEF Full, Empty
  <1>3. w # Nobody
    BY NamesAssumption DEF Writers
  <1> QED BY <1>2, <1>3, FullIsTree, AbsentAssumption

LEMMA RecomputeInit == Init => RecomputeInv
  BY DEF Init, RecomputeInv, PublicationInv, Whole, Writers

LEMMA RecomputeStep == TypeInv /\ RunsInv /\ RecomputeInv /\ [Next]_vars => RecomputeInv'
  <1> SUFFICES ASSUME TypeInv, RunsInv, RecomputeInv, [Next]_vars, AllRecompute'
               PROVE  PublicationInv'
    BY DEF RecomputeInv
  <1>u. CASE UNCHANGED vars
    BY <1>u DEF RecomputeInv, PublicationInv, AllRecompute, Recomputing, vars
  <1>s. ASSUME NEW r \in Runners, Run(r) \/ Cancel(r) \/ Crash(r) PROVE PublicationInv'
    <2>k. /\ policy' = policy
          /\ \A q \in Runners \ {r} : pc'[q] = pc[q] /\ backup'[q] = backup[q]
      BY <1>s, StepKeeps
    <2>i. PublicationInv /\ policy[r] = "recompute"
      BY <2>k DEF AllRecompute, Recomputing, RecomputeInv
    <2>p. PlacesInv(r) /\ StagingInv(r)
      BY DEF RunsInv
    <2>o. /\ output \in Whole /\ Absent \in Whole /\ Full(r) \in Whole
          /\ pc[r] \in {"install", "rollback"} => backup[r] \in Whole
      BY <2>i DEF PublicationInv, Whole, Writers
    <2>1. output' \in Whole /\ (pc'[r] \in {"install", "rollback"} => backup'[r] \in Whole)
      <3> USE DEF TypeInv, TypeOK
      <3>1. CASE Reject(r) \/ Start(r) \/ MakeStaging(r) \/ EnterEngine(r)
        BY <3>1, <2>o, <2>i DEF Reject, Start, MakeStaging, EnterEngine
      <3>2. CASE EnsureEmptyOutput(r) \/ EnsureDirectory(r)
        BY <3>2, <2>i, <2>p DEF EnsureEmptyOutput, EnsureDirectory, PlacesInv, Recomputing
      <3>3. CASE Stage(r) \/ StageFails(r) \/ Interrupt(r) \/ EngineDone(r)
        BY <3>3, <2>o, <2>i DEF Stage, SetRoot, StageFails, Interrupt, EngineDone
      <3>4. CASE ChoosePublication(r) \/ ReserveBackup(r) \/ MoveAside(r)
        BY <3>4, <2>o DEF ChoosePublication, ReserveBackup, MoveAside
      <3>5. CASE PublishFresh(r) \/ Install(r)
        <4>1. staging[r] = Full(r)
          BY <3>5, <2>p, <2>i DEF PublishFresh, Install, StagingInv, Recomputing
        <4> QED BY <3>5, <4>1, <2>o DEF PublishFresh, Install
      <3>6. CASE Rollback(r) \/ Discard(r) \/ DropBackup(r)
        BY <3>6, <2>o DEF Rollback, Discard, DropBackup
      <3>7. CASE Cancel(r) \/ Crash(r)
        BY <3>7, <2>o DEF Cancel, Crash
      <3> QED BY <1>s, <3>1, <3>2, <3>3, <3>4, <3>5, <3>6, <3>7 DEF Run, Publish
    <2> QED BY <2>1, <2>k, <2>i DEF PublicationInv
  <1> QED BY <1>u, <1>s DEF Next

LEMMA InvariantsHold == Spec => [](TypeInv /\ RunsInv /\ RecomputeInv)
  BY TypeInit, TypeStep, RunsInit, RunsStep, RecomputeInit, RecomputeStep, PTL DEF Spec

\* Recomputes that race for one output, whatever their number, never expose a
\* partial or mixed tree.
THEOREM RecomputesAreWhole == Spec => []OutputWhole
  <1>1. TypeInv /\ RunsInv /\ RecomputeInv => OutputWhole
    BY DEF RecomputeInv, PublicationInv, OutputWhole, Whole
  <1> QED BY <1>1, InvariantsHold, PTL

\* No step of any of them destroys the last complete result.
LEMMA ResultKept ==
    ASSUME TypeInv, RunsInv, RecomputeInv, [Next]_vars, AllRecompute, HasResult
    PROVE  HasResult'
  <1> USE DEF TypeInv
  <1>u. CASE UNCHANGED vars
    BY <1>u DEF HasResult, vars
  <1>s. ASSUME NEW r \in Runners, Run(r) \/ Cancel(r) \/ Crash(r) PROVE HasResult'
    <2>p. policy[r] = "recompute"
      BY DEF AllRecompute, Recomputing
    <2>i. PlacesInv(r) /\ StagingInv(r) /\ Recomputing(r)
      BY <2>p DEF RunsInv, Recomputing
    <2>1. CASE output' = output /\ backup' = backup /\ pc'[r] # "dropBackup"
               /\ pc' = [pc EXCEPT ![r] = pc'[r]]
      BY <2>1 DEF HasResult, TypeOK
    <2>2. CASE PublishFresh(r)
      <3>1. CASE output' = staging[r]
        BY <2>i, <2>2, <3>1 DEF PublishFresh, PlacesInv, StagingInv, HasResult, Writers
      <3>2. CASE output' = output
        BY <2>2, <2>1, <3>2 DEF PublishFresh, TypeOK
      <3> QED BY <2>2, <3>1, <3>2 DEF PublishFresh
    <2>3. CASE MoveAside(r)
      <3>1. CASE output # Absent /\ backup' = [backup EXCEPT ![r] = output]
        <4>1. pc'[r] = "install" /\ backup'[r] = output /\ backup[r] = Absent
          BY <2>i, <2>3, <3>1 DEF MoveAside, PlacesInv, StagingInv, TypeOK
        <4>2. \A q \in Runners \ {r} : backup'[q] = backup[q] /\ pc'[q] = pc[q]
          BY <2>3, <3>1, <4>1 DEF MoveAside, TypeOK
        <4> QED BY <4>1, <4>2, FullIsFull DEF HasResult
      <3>2. CASE output' = output /\ backup' = backup
        BY <2>3, <2>1, <3>2 DEF MoveAside, TypeOK
      <3> QED BY <2>3, <3>1, <3>2 DEF MoveAside
    <2>4. CASE Install(r)
      <3>1. CASE output' = staging[r]
        BY <2>i, <2>4, <3>1 DEF Install, PlacesInv, StagingInv, HasResult, Writers
      <3>2. CASE output' = output /\ pc' = [pc EXCEPT ![r] = "rollback"]
        BY <2>4, <2>1, <3>2 DEF Install, TypeOK
      <3> QED BY <2>4, <3>1, <3>2 DEF Install
    <2>5. CASE Rollback(r)
      <3>1. CASE output' = backup[r] /\ Replaceable(output)
        <4>1. \A w \in Writers : output # Full(w)
          BY <3>1, FullIsFull DEF Replaceable
        <4>2. \A q \in Runners \ {r} : backup'[q] = backup[q] /\ pc'[q] = pc[q]
          BY <2>5 DEF Rollback, TypeOK
        <4> QED BY <3>1, <4>1, <4>2 DEF HasResult
      <3>2. CASE output' = output /\ backup' = backup
        BY <2>5, <2>1, <3>2 DEF Rollback, TypeOK
      <3> QED BY <2>5, <3>1, <3>2 DEF Rollback
    <2>6. CASE DropBackup(r) \/ (Crash(r) /\ pc[r] = "dropBackup")
      <3>1. output' = output /\ pc[r] = "dropBackup"
        BY <2>6 DEF DropBackup, Crash
      <3>2. \A q \in Runners \ {r} : backup'[q] = backup[q] /\ pc'[q] = pc[q]
        BY <2>6 DEF DropBackup, Crash, TypeOK
      <3> QED BY <3>1, <3>2 DEF HasResult
    <2>7. CASE Stage(r)
      BY <2>7, <2>p, <2>1, <2>i DEF Stage, SetRoot, TypeOK, HasResult
    <2>8. CASE EnsureDirectory(r) \/ EnsureEmptyOutput(r)
      BY <2>i, <2>8 DEF EnsureDirectory, EnsureEmptyOutput, PlacesInv, StagingInv
    <2>9. CASE \/ Reject(r) \/ Start(r) \/ MakeStaging(r) \/ EnterEngine(r)
               \/ StageFails(r) \/ Interrupt(r) \/ EngineDone(r)
      BY <2>9, <2>1, PoliciesAssumption
      DEF Reject, Start, MakeStaging, EnterEngine, StageFails, Interrupt, EngineDone, TypeOK
    <2>10. CASE \/ ChoosePublication(r) \/ ReserveBackup(r) \/ Discard(r)
                \/ (Crash(r) /\ pc[r] # "dropBackup")
      <3>1. \/ backup' = backup
            \/ backup[r] = Absent /\ backup' = [backup EXCEPT ![r] = Empty]
        BY <2>10, <2>i DEF ChoosePublication, ReserveBackup, Discard, Crash, PlacesInv
      <3>2. /\ output' = output /\ pc'[r] # "dropBackup"
            /\ pc' = [pc EXCEPT ![r] = pc'[r]]
        BY <2>10 DEF ChoosePublication, ReserveBackup, Discard, Crash, TypeOK
      <3>3. \A w \in Writers, q \in Runners :
              pc[q] # "dropBackup" /\ backup[q] = Full(w)
                => pc'[q] # "dropBackup" /\ backup'[q] = Full(w)
        BY <3>1, <3>2, FullIsFull DEF TypeOK
      <3> QED BY <3>2, <3>3 DEF HasResult
    <2>11. CASE Cancel(r)
      BY <2>11 DEF Cancel, HasResult
    <2> QED
      BY <1>s, <2>2, <2>3, <2>4, <2>5, <2>6, <2>7, <2>8, <2>9, <2>10, <2>11 DEF Run, Publish
  <1> QED BY <1>u, <1>s DEF Next

\* publish_recomputed: whatever fails or is killed, the last complete result is
\* at the output or in a backup nobody is removing.
THEOREM LastResultSurvives == Spec => ResultSurvives
  <1>1. TypeInv /\ RunsInv /\ RecomputeInv /\ [Next]_vars
            => [AllRecompute /\ HasResult => HasResult']_vars
    BY ResultKept
  <1> QED BY <1>1, InvariantsHold, PTL DEF Spec, ResultSurvives

---------------------------------------------------------------------------
\* Runs with any policies: whose files are in which directories.

\* None of r's files is in the directory.
Foreign(d, r) == d # Absent => \A f \in Files : d[f] # r

\* The program counters of a run that has not published its tree.
Unpublished == (Steps \ {"dropBackup"}) \cup {"cancelled"}

StagingOwn(r) == \A q \in Runners \ {r} : Foreign(staging[q], r)

NoTrace(r) ==
    Recomputing(r) /\ pc[r] \in Unpublished =>
        Foreign(output, r) /\ \A q \in Runners : Foreign(backup[q], r)

TraceInv == \A r \in Runners : StagingOwn(r) /\ NoTrace(r)

LEMMA ForeignFacts ==
    ASSUME NEW r \in Runners
    PROVE  /\ Foreign(Absent, r) /\ Foreign(Empty, r)
           /\ \A w \in Writers \ {r} : Foreign(Full(w), r)
  BY NamesAssumption DEF Foreign, Empty, Full

\* A file of another writer's, or the loss of some files, adds nothing of r's.
LEMMA ForeignKept ==
    ASSUME NEW r \in Runners, NEW d \in Tree, Foreign(d, r)
    PROVE  /\ \A w \in Writers \ {r}, f \in Files : Foreign([d EXCEPT ![f] = w], r)
           /\ \A part \in PartlyRemoved(d) : Foreign(part, r)
  <1>1. \A f \in Files : d[f] # r
    BY AbsentAssumption DEF Foreign
  <1>2. ASSUME NEW w \in Writers \ {r}, NEW f \in Files PROVE Foreign([d EXCEPT ![f] = w], r)
    BY <1>1 DEF Foreign, Tree
  <1>3. ASSUME NEW part \in PartlyRemoved(d) PROVE Foreign(part, r)
    BY <1>1, NamesAssumption DEF Foreign, PartlyRemoved
  <1> QED BY <1>2, <1>3

LEMMA TraceInit == Init => TraceInv
  <1> SUFFICES ASSUME Init, NEW r \in Runners PROVE StagingOwn(r) /\ NoTrace(r)
    BY DEF TraceInv
  <1> QED BY ForeignFacts, NamesAssumption DEF Init, StagingOwn, NoTrace, Writers

\* A step of p moves trees, or adds a file of p's to one; it adds nothing of r's.
LEMMA TraceOfOthers ==
    ASSUME TypeInv, RunsInv, TraceInv, NEW p \in Runners, Run(p) \/ Cancel(p) \/ Crash(p),
           NEW r \in Runners, r # p
    PROVE  (StagingOwn(r) /\ NoTrace(r))'
  <1>k. /\ policy' = policy /\ pc'[r] = pc[r]
        /\ \A q \in Runners \ {p} : staging'[q] = staging[q] /\ backup'[q] = backup[q]
    BY StepKeeps
  <1>s. \A q \in Runners \ {r} : Foreign(staging[q], r)
    BY DEF TraceInv, StagingOwn
  <1>p. PlacesInv(p)
    BY DEF RunsInv
  <1>f. Foreign(Absent, r) /\ Foreign(Empty, r)
    BY ForeignFacts
  <1>e. \A d \in Tree : Foreign(d, r) =>
            /\ \A f \in Files : Foreign([d EXCEPT ![f] = p], r)
            /\ \A part \in PartlyRemoved(d) : Foreign(part, r)
    BY ForeignKept DEF Writers
  <1>t. /\ output \in Directory /\ staging[p] \in Directory /\ backup[p] \in Directory
        /\ DOMAIN staging = Runners /\ DOMAIN backup = Runners
        /\ (pc[p] = "dropBackup" => backup[p] # Absent)
    BY DEF TypeInv, TypeOK, BackupTaken
  <1>w. ASSUME Stage(p)
        PROVE  /\ Foreign(staging'[p], r)
               /\ Foreign(output, r) => Foreign(output', r)
               /\ backup' = backup
    <2> DEFINE f == written[p] + 1
               tree == IF Root(p) = Absent THEN Empty ELSE Root(p)
    <2>1. f \in Files
      BY <1>w, NFilesAssumption DEF Stage, Unfinished, TypeInv, TypeOK, Files
    <2>2. tree \in Tree
      BY <1>t, EmptyIsTree DEF Root, Directory
    <2>3. Foreign(Root(p), r) => Foreign(tree, r)
      BY <1>f
    <2>4. Foreign(Root(p), r) => Foreign([tree EXCEPT ![f] = p], r)
      BY <2>1, <2>2, <2>3, <1>e
    <2>5. (SetRoot(p, [tree EXCEPT ![f] = p]) \/ UNCHANGED <<output, staging>>) /\ backup' = backup
      BY <1>w DEF Stage
    <2> HIDE DEF f, tree
    <2> QED BY <2>4, <2>5, <1>s, <1>t DEF Root, SetRoot
  <1>1. Foreign(staging'[p], r)
    <2>1. \/ staging'[p] \in {staging[p], Absent, Empty} \/ Stage(p)
          \/ staging[p] # Absent /\ staging'[p] \in PartlyRemoved(staging[p])
      BY <1>t DEF Run, Publish, Reject, Start, EnsureEmptyOutput, EnsureDirectory,
         MakeStaging, EnterEngine, StageFails, Interrupt, EngineDone, ChoosePublication,
         PublishFresh, ReserveBackup, MoveAside, Install, Rollback, Discard, DropBackup,
         Cancel, Crash
    <2>2. Foreign(staging[p], r)
      BY <1>s
    <2> QED BY <2>1, <2>2, <1>w, <1>e, <1>t, <1>f DEF Directory
  <1>2. StagingOwn(r)'
    BY <1>1, <1>k, <1>s DEF StagingOwn
  <1>3. ASSUME Foreign(output, r), \A q \in Runners : Foreign(backup[q], r)
        PROVE  Foreign(output', r) /\ Foreign(backup'[p], r)
    <2>1. \/ output' \in {output, Absent, Empty, staging[p], backup[p]}
          \/ Stage(p)
      BY <1>t DEF Run, Publish, Reject, Start, EnsureEmptyOutput, EnsureDirectory,
         MakeStaging, EnterEngine, StageFails, Interrupt, EngineDone, ChoosePublication,
         PublishFresh, ReserveBackup, MoveAside, Install, Rollback, Discard, DropBackup,
         Cancel, Crash
    <2>2. \/ backup'[p] \in {backup[p], output, Absent, Empty}
          \/ backup[p] # Absent /\ backup'[p] \in PartlyRemoved(backup[p])
          \/ Stage(p)
      BY <1>t DEF Run, Publish, Reject, Start, EnsureEmptyOutput, EnsureDirectory,
         MakeStaging, EnterEngine, StageFails, Interrupt, EngineDone, ChoosePublication,
         PublishFresh, ReserveBackup, MoveAside, Install, Rollback, Discard, DropBackup,
         Cancel, Crash
    <2>3. Foreign(output', r)
      BY <2>1, <1>3, <1>w, <1>s, <1>f
    <2>4. Foreign(backup'[p], r)
      BY <2>2, <1>3, <1>w, <1>e, <1>f, <1>t DEF Directory
    <2> QED BY <2>3, <2>4
  <1>4. NoTrace(r)'
    <2> SUFFICES ASSUME Recomputing(r)', pc'[r] \in Unpublished
                 PROVE  Foreign(output', r) /\ \A q \in Runners : Foreign(backup'[q], r)
      BY DEF NoTrace
    <2>1. Foreign(output, r) /\ \A q \in Runners : Foreign(backup[q], r)
      BY <1>k DEF Recomputing, TraceInv, NoTrace
    <2> QED BY <2>1, <1>3, <1>k
  <1> QED BY <1>2, <1>4

\* r's own steps show its tree only when they publish it.
LEMMA TraceOfOwn ==
    ASSUME TypeInv, RunsInv, TraceInv, NEW r \in Runners, Run(r) \/ Cancel(r) \/ Crash(r)
    PROVE  (StagingOwn(r) /\ NoTrace(r))'
  <1>k. /\ policy' = policy
        /\ \A q \in Runners \ {r} : staging'[q] = staging[q] /\ backup'[q] = backup[q]
    BY StepKeeps
  <1>p. PlacesInv(r)
    BY DEF RunsInv
  <1>f. Foreign(Absent, r) /\ Foreign(Empty, r)
    BY ForeignFacts
  <1>1. StagingOwn(r)'
    BY <1>k DEF TraceInv, StagingOwn
  <1>2. NoTrace(r)'
    <2> SUFFICES ASSUME Recomputing(r)', pc'[r] \in Unpublished
                 PROVE  Foreign(output', r) /\ \A q \in Runners : Foreign(backup'[q], r)
      BY DEF NoTrace
    <2>r. Recomputing(r) /\ policy[r] = "recompute"
      BY <1>k DEF Recomputing
    <2>1. /\ pc[r] \in Unpublished
          /\ output' \in {output, Absent, backup[r]}
          /\ backup'[r] \in {backup[r], output, Absent, Empty}
      <3> USE <2>r DEF TypeInv, TypeOK, Unpublished
      <3>1. CASE Reject(r) \/ Start(r) \/ MakeStaging(r)
        BY <3>1 DEF Reject, Start, MakeStaging
      <3>2. CASE EnsureEmptyOutput(r) \/ EnsureDirectory(r)
        BY <3>2, <1>p DEF EnsureEmptyOutput, EnsureDirectory, PlacesInv
      <3>3. CASE EnterEngine(r) \/ StageFails(r) \/ Interrupt(r) \/ EngineDone(r)
        BY <3>3 DEF EnterEngine, StageFails, Interrupt, EngineDone
      <3>4. CASE Stage(r)
        BY <3>4 DEF Stage, SetRoot
      <3>5. CASE ChoosePublication(r) \/ PublishFresh(r) \/ ReserveBackup(r) \/ MoveAside(r)
        BY <3>5 DEF ChoosePublication, PublishFresh, ReserveBackup, MoveAside
      <3>6. CASE Install(r) \/ Rollback(r) \/ Discard(r) \/ DropBackup(r)
        BY <3>6 DEF Install, Rollback, Discard, DropBackup
      <3>7. CASE Cancel(r) \/ Crash(r)
        BY <3>7 DEF Cancel, Crash
      <3> QED BY <3>1, <3>2, <3>3, <3>4, <3>5, <3>6, <3>7 DEF Run, Publish
    <2>2. Foreign(output, r) /\ \A q \in Runners : Foreign(backup[q], r)
      BY <2>r, <2>1 DEF TraceInv, NoTrace
    <2> QED BY <2>1, <2>2, <1>k, <1>f
  <1> QED BY <1>1, <1>2

LEMMA TraceStep == TypeInv /\ RunsInv /\ TraceInv /\ [Next]_vars => TraceInv'
  <1> SUFFICES ASSUME TypeInv, RunsInv, TraceInv, [Next]_vars PROVE TraceInv'
    OBVIOUS
  <1>u. CASE UNCHANGED vars
    BY <1>u DEF TraceInv, StagingOwn, NoTrace, Foreign, Recomputing, vars
  <1>s. ASSUME NEW p \in Runners, Run(p) \/ Cancel(p) \/ Crash(p) PROVE TraceInv'
    <2> SUFFICES ASSUME NEW r \in Runners PROVE (StagingOwn(r) /\ NoTrace(r))'
      BY DEF TraceInv
    <2>1. CASE r = p
      BY <1>s, <2>1, TraceOfOwn
    <2>2. CASE r # p
      BY <1>s, <2>2, TraceOfOthers
    <2> QED BY <2>1, <2>2
  <1> QED BY <1>u, <1>s DEF Next

\* However many runs race, with whatever policies and I/O errors: a recompute
\* that ends cancelled has left none of its files anywhere, and no directory
\* but a staging directory whose removal failed.
THEOREM CancelledRunsStayPrivate == Spec => []CancelledStaysPrivate
  <1>1. RunsInv /\ TraceInv => CancelledStaysPrivate
    <2> SUFFICES ASSUME RunsInv, TraceInv, NEW r \in Runners, Recomputing(r), pc[r] = "cancelled"
                 PROVE  /\ backup[r] = Absent
                        /\ faults[r] = 0 => staging[r] = Absent
                        /\ \A d \in {output} \cup {backup[q] : q \in Runners} : Foreign(d, r)
      BY DEF CancelledStaysPrivate, Foreign
    <2>1. backup[r] = Absent /\ (faults[r] = 0 => staging[r] = Absent)
      BY DEF RunsInv, PlacesInv
    <2>2. Foreign(output, r) /\ \A q \in Runners : Foreign(backup[q], r)
      <3>1. pc[r] \in Unpublished
        BY DEF Unpublished
      <3> QED BY <3>1 DEF TraceInv, NoTrace
    <2> QED BY <2>1, <2>2
  <1> QED BY <1>1, InvariantsHold, TraceInit, TraceStep, PTL DEF Spec

---------------------------------------------------------------------------
\* Racing recomputes implement a store of whole results (module ResultStore).

\* A complete result is in one place.
OnePlace ==
    \A w \in Writers, q \in Runners :
        backup[q] = Full(w) =>
            /\ output # Full(w)
            /\ \A p \in Runners \ {q} : backup[p] # Full(w)

\* Whoever removes its backup does so with a complete result elsewhere.
DropsOnlySpare == (\E r \in Runners : pc[r] = "dropBackup") => HasResult

StoreInv == AllRecompute => OnePlace /\ DropsOnlySpare

\* What a step of r does to the output, the backups and the runs to come.
MayStill(place) == place \in Steps \ {"rollback", "discard", "dropBackup"}
Stays(r) ==
    /\ output' = output
    /\ \/ backup' = backup
       \/ backup[r] = Absent /\ backup' = [backup EXCEPT ![r] = Empty]
    /\ MayStill(pc'[r]) => MayStill(pc[r])
    /\ pc'[r] = "dropBackup" => pc[r] = "dropBackup"
Shows(r) ==
    /\ Replaceable(output) /\ output' = Full(r) /\ backup' = backup
    /\ MayStill(pc[r]) /\ ~MayStill(pc'[r])
SetsAside(r) ==
    /\ output # Absent /\ output' = Absent
    /\ backup[r] = Absent /\ backup' = [backup EXCEPT ![r] = output]
    /\ MayStill(pc[r]) /\ MayStill(pc'[r])
PutsBack(r) ==
    /\ Replaceable(output) /\ output' = backup[r] /\ backup' = [backup EXCEPT ![r] = Absent]
    /\ pc[r] = "rollback" /\ pc'[r] = "discard"
Drops(r) ==
    /\ output' = output /\ pc[r] = "dropBackup" /\ pc'[r] \in Ends
    /\ \E d \in {Absent} \cup PartlyRemoved(backup[r]) : backup' = [backup EXCEPT ![r] = d]

LEMMA RecomputeMoves ==
    ASSUME TypeInv, RunsInv, AllRecompute, NEW r \in Runners, Run(r) \/ Cancel(r) \/ Crash(r)
    PROVE  Stays(r) \/ Shows(r) \/ SetsAside(r) \/ PutsBack(r) \/ Drops(r)
  <1> USE DEF TypeInv, TypeOK, MayStill
  <1>p. policy[r] = "recompute" /\ PlacesInv(r) /\ StagingInv(r) /\ Recomputing(r)
    BY DEF AllRecompute, Recomputing, RunsInv
  <1>1. CASE Reject(r) \/ Start(r) \/ MakeStaging(r) \/ EnterEngine(r)
    BY <1>1, <1>p DEF Reject, Start, MakeStaging, EnterEngine, Stays
  <1>2. CASE EnsureEmptyOutput(r) \/ EnsureDirectory(r)
    BY <1>2, <1>p DEF EnsureEmptyOutput, EnsureDirectory, PlacesInv
  <1>3. CASE Stage(r) \/ StageFails(r) \/ Interrupt(r) \/ EngineDone(r)
    BY <1>3, <1>p DEF Stage, SetRoot, StageFails, Interrupt, EngineDone, Stays
  <1>4. CASE ChoosePublication(r) \/ ReserveBackup(r) \/ Discard(r) \/ Cancel(r)
    BY <1>4, <1>p DEF ChoosePublication, ReserveBackup, Discard, Cancel, Stays, PlacesInv
  <1>5. CASE PublishFresh(r) \/ Install(r)
    <2>1. staging[r] = Full(r)
      BY <1>5, <1>p DEF PublishFresh, Install, StagingInv
    <2> QED BY <1>5, <2>1 DEF PublishFresh, Install, Stays, Shows
  <1>6. CASE MoveAside(r)
    BY <1>6, <1>p DEF MoveAside, PlacesInv, Stays, SetsAside
  <1>7. CASE Rollback(r)
    BY <1>7 DEF Rollback, Stays, PutsBack
  <1>8. CASE DropBackup(r)
    BY <1>8 DEF DropBackup, Drops
  <1>9. CASE Crash(r)
    BY <1>9, <1>p DEF Crash, Stays, Drops, PlacesInv
  <1> QED BY <1>1, <1>2, <1>3, <1>4, <1>5, <1>6, <1>7, <1>8, <1>9 DEF Run, Publish

\* Whole trees of two writers differ, and a tree that lost files is whole only
\* if none of them was lost.
LEMMA FullIsOwn ==
    /\ \A v, w \in Writers : Full(v) = Full(w) => v = w
    /\ \A tree \in Tree, w \in Writers : Full(w) \in PartlyRemoved(tree) => tree = Full(w)
    /\ \A w \in Writers : WhoseResult(Full(w)) = w
  <1>1. 1 \in Files
    BY NFilesAssumption DEF Files
  <1>2. \A w \in Writers : Full(w)[1] = w
    BY <1>1 DEF Full
  <1>3. \A v, w \in Writers : Full(v) = Full(w) => v = w
    BY <1>2
  <1>4. ASSUME NEW tree \in Tree, NEW w \in Writers, Full(w) \in PartlyRemoved(tree)
        PROVE  tree = Full(w)
    <2>1. PICK gone \in SUBSET Files :
            Full(w) = [f \in Files |-> IF f \in gone THEN Nobody ELSE tree[f]]
      BY <1>4 DEF PartlyRemoved
    <2>2. \A f \in Files : Full(w)[f] = IF f \in gone THEN Nobody ELSE tree[f]
      BY <2>1
    <2>3. \A f \in Files : Full(w)[f] = w
      BY DEF Full
    <2>4. \A f \in Files : tree[f] = w
      BY <2>2, <2>3, NamesAssumption DEF Writers
    <2> QED BY <2>4 DEF Tree, Full
  <1>5. ASSUME NEW w \in Writers PROVE WhoseResult(Full(w)) = w
    <2>1. ~Replaceable(Full(w))
      BY FullIsFull DEF Replaceable
    <2>2. (CHOOSE v \in Writers : Full(w) = Full(v)) = w
      BY <1>3
    <2> QED BY <2>1, <2>2 DEF WhoseResult
  <1> QED BY <1>3, <1>4, <1>5

LEMMA OnePlaceStep ==
    ASSUME TypeInv, RunsInv, TraceInv, AllRecompute, OnePlace,
           NEW r \in Runners, Run(r) \/ Cancel(r) \/ Crash(r)
    PROVE  OnePlace'
  <1>t. /\ output \in Directory /\ backup \in [Runners -> Directory]
        /\ pc[r] = "dropBackup" => backup[r] \in Tree
    BY DEF TypeInv, TypeOK, BackupTaken, Directory
  <1>a. \A w \in Writers : Full(w) # Absent
    BY FullIsFull
  <1>1. CASE Stays(r)
    <2>1. \A q \in Runners :
            \/ backup'[q] = backup[q]
            \/ q = r /\ backup[r] = Absent /\ backup'[r] = Empty
      BY <1>1, <1>t DEF Stays
    <2>2. output' = output /\ \A w \in Writers : Full(w) # Empty
      BY <1>1, FullIsFull DEF Stays
    <2>3. \A w \in Writers, q \in Runners : backup'[q] = Full(w) => backup[q] = Full(w)
      BY <2>1, <2>2
    <2> QED BY <2>2, <2>3 DEF OnePlace
  <1>2. CASE Shows(r)
    <2>1. \A q \in Runners : Foreign(backup[q], r)
      <3>1. pc[r] \in Unpublished
        BY <1>2 DEF Shows, MayStill, Unpublished
      <3> QED BY <3>1 DEF TraceInv, NoTrace, AllRecompute
    <2>2. \A q \in Runners : backup[q] # Full(r)
      <3>1. 1 \in Files
        BY NFilesAssumption DEF Files
      <3>2. Full(r)[1] = r /\ Full(r) # Absent
        BY <3>1, FullIsFull DEF Full, Writers
      <3> QED BY <3>1, <3>2, <2>1 DEF Foreign
    <2>3. \A w \in Writers : Full(w) = Full(r) => w = r
      BY FullIsOwn DEF Writers
    <2> QED BY <1>2, <2>2, <2>3 DEF Shows, OnePlace
  <1>3. CASE SetsAside(r)
    <2>1. \A q \in Runners : backup'[q] = IF q = r THEN output ELSE backup[q]
      BY <1>3, <1>t DEF SetsAside
    <2>2. output' = Absent
      BY <1>3 DEF SetsAside
    <2> QED BY <2>1, <2>2, <1>a DEF OnePlace
  <1>4. CASE PutsBack(r)
    <2>1. \A q \in Runners : backup'[q] = IF q = r THEN Absent ELSE backup[q]
      BY <1>4, <1>t DEF PutsBack
    <2>2. output' = backup[r]
      BY <1>4 DEF PutsBack
    <2> QED BY <2>1, <2>2, <1>a DEF OnePlace
  <1>5. CASE Drops(r)
    <2>1. PICK d \in {Absent} \cup PartlyRemoved(backup[r]) : backup' = [backup EXCEPT ![r] = d]
      BY <1>5 DEF Drops
    <2>2. \A w \in Writers : d = Full(w) => backup[r] = Full(w)
      BY <1>5, <1>t, <1>a, FullIsOwn DEF Drops
    <2>3. \A q \in Runners : backup'[q] = IF q = r THEN d ELSE backup[q]
      BY <2>1, <1>t
    <2>4. output' = output
      BY <1>5 DEF Drops
    <2> QED BY <2>2, <2>3, <2>4 DEF OnePlace
  <1> QED BY <1>1, <1>2, <1>3, <1>4, <1>5, RecomputeMoves

LEMMA DropsStep ==
    ASSUME TypeInv, RunsInv, RecomputeInv, [Next]_vars, AllRecompute, DropsOnlySpare,
           NEW r \in Runners, Run(r) \/ Cancel(r) \/ Crash(r)
    PROVE  DropsOnlySpare'
  <1> SUFFICES ASSUME NEW q \in Runners, pc'[q] = "dropBackup" PROVE HasResult'
    BY DEF DropsOnlySpare
  <1>1. CASE pc[q] = "dropBackup"
    BY <1>1, ResultKept DEF DropsOnlySpare
  <1>2. CASE pc[q] # "dropBackup"
    <2>1. q = r
      BY <1>2, StepKeeps
    <2>2. Shows(r)
      BY <1>2, <2>1, RecomputeMoves DEF Stays, SetsAside, PutsBack, Drops, MayStill
    <2> QED BY <2>2 DEF Shows, HasResult, Writers
  <1> QED BY <1>1, <1>2

LEMMA StoreInit == Init => StoreInv
  <1> SUFFICES ASSUME Init PROVE OnePlace /\ DropsOnlySpare
    BY DEF StoreInv
  <1> QED BY FullIsFull DEF Init, OnePlace, DropsOnlySpare

LEMMA StoreStep ==
    TypeInv /\ RunsInv /\ RecomputeInv /\ TraceInv /\ StoreInv /\ [Next]_vars => StoreInv'
  <1> SUFFICES ASSUME TypeInv, RunsInv, RecomputeInv, TraceInv, StoreInv, [Next]_vars,
                      AllRecompute'
               PROVE  OnePlace' /\ DropsOnlySpare'
    BY DEF StoreInv
  <1>u. CASE UNCHANGED vars
    BY <1>u DEF StoreInv, OnePlace, DropsOnlySpare, HasResult, AllRecompute, Recomputing, vars
  <1>s. ASSUME NEW r \in Runners, Run(r) \/ Cancel(r) \/ Crash(r)
        PROVE  OnePlace' /\ DropsOnlySpare'
    <2>1. AllRecompute
      BY <1>s, StepKeeps DEF AllRecompute, Recomputing
    <2> QED BY <1>s, <2>1, OnePlaceStep, DropsStep DEF StoreInv
  <1> QED BY <1>u, <1>s DEF Next

\* The store's view of a whole tree, and of the runs to come after a step of r.
LEMMA WhoseIs ==
    /\ \A d : Replaceable(d) => WhoseResult(d) = Nobody
    /\ \A d \in Whole : Replaceable(d) \/ \E w \in Writers : d = Full(w) /\ WhoseResult(d) = w
    /\ \A w \in Writers : w # Nobody /\ ~Replaceable(Full(w))
  BY FullIsOwn, FullIsFull, NamesAssumption DEF WhoseResult, Replaceable, Whole, Writers

LEMMA MayPublishNext ==
    ASSUME TypeInv, NEW r \in Runners, Run(r) \/ Cancel(r) \/ Crash(r)
    PROVE  /\ MayPublish = {q \in Runners : MayStill(pc[q])}
           /\ (MayStill(pc[r]) <=> MayStill(pc'[r])) => MayPublish' = MayPublish
           /\ ~MayStill(pc'[r]) => MayPublish' = MayPublish \ {r}
  <1>1. \A q \in Runners \ {r} : pc'[q] = pc[q]
    BY StepKeeps
  <1> QED BY <1>1 DEF MayPublish, MayStill

\* Each step of racing recomputes is a step of the store or a stutter.
LEMMA StoreMove ==
    ASSUME TypeInv, RunsInv, RecomputeInv, TraceInv, StoreInv, AllRecompute,
           NEW r \in Runners, Run(r) \/ Cancel(r) \/ Crash(r)
    PROVE  [Store!Next]_(Store!vars)
  <1>t. backup \in [Runners -> Directory] /\ Nobody \notin Writers
    BY NamesAssumption DEF TypeInv, TypeOK, Writers
  <1>p. AllRecompute'
    BY StepKeeps DEF AllRecompute, Recomputing
  <1>i. output \in Whole /\ OnePlace /\ DropsOnlySpare
    BY DEF RecomputeInv, PublicationInv, StoreInv
  <1>m. MayPublish = {q \in Runners : MayStill(pc[q])}
    BY MayPublishNext
  <1> DEFINE Stutter == WhoseResult(output)' = WhoseResult(output) /\ Kept' = Kept
                        /\ MayPublish' = MayPublish
  <1>0. Stutter => UNCHANGED Store!vars
    BY <1>p DEF Store!vars
  <1>1. CASE Stays(r)
    <2>1. WhoseResult(output)' = WhoseResult(output) /\ Kept' = Kept
      <3>1. \A q \in Runners :
              \/ backup'[q] = backup[q]
              \/ q = r /\ backup[r] = Absent /\ backup'[r] = Empty
        BY <1>1, <1>t DEF Stays
      <3>2. \A w \in Writers : Full(w) # Empty /\ Full(w) # Absent
        BY FullIsFull
      <3>3. Kept' = Kept
        BY <3>1, <3>2 DEF Kept
      <3>4. output' = output
        BY <1>1 DEF Stays
      <3> QED BY <3>3, <3>4 DEF WhoseResult, Replaceable
    <2>2. CASE MayStill(pc[r]) /\ ~MayStill(pc'[r])
      <3>1. r \in MayPublish /\ MayPublish' = MayPublish \ {r}
        BY <2>2, MayPublishNext
      <3>2. Store!Abandon(r)
        BY <2>1, <3>1, <1>p DEF Store!Abandon
      <3> QED BY <3>1, <3>2 DEF Store!Next
    <2>3. CASE ~(MayStill(pc[r]) /\ ~MayStill(pc'[r]))
      <3>1. MayPublish' = MayPublish
        BY <1>1, <2>3, MayPublishNext DEF Stays
      <3> QED BY <2>1, <3>1, <1>0
    <2> QED BY <2>2, <2>3
  <1>2. CASE Shows(r)
    <2>1. r \in MayPublish /\ MayPublish' = MayPublish \ {r}
      BY <1>2, MayPublishNext DEF Shows
    <2>2. WhoseResult(output) = Nobody /\ WhoseResult(output)' = r
      <3>1. output' = Full(r)
        BY <1>2 DEF Shows
      <3>2. WhoseResult(output') = r
        BY <3>1, FullIsOwn DEF Writers
      <3> QED BY <1>2, <3>2, WhoseIs DEF Shows, WhoseResult, Replaceable
    <2>3. Kept' = Kept
      BY <1>2 DEF Shows, Kept
    <2>4. Store!Show(r)
      BY <2>1, <2>2, <2>3, <1>p DEF Store!Show
    <2> QED BY <2>1, <2>4 DEF Store!Next
  <1>3. CASE SetsAside(r)
    <2>1. MayPublish' = MayPublish /\ WhoseResult(output)' = Nobody
      BY <1>3, MayPublishNext, WhoseIs DEF SetsAside, WhoseResult, Replaceable
    <2>2. backup[r] = Absent /\ \A q \in Runners : backup'[q] = IF q = r THEN output ELSE backup[q]
      BY <1>3, <1>t DEF SetsAside
    <2>3. CASE Replaceable(output)
      <3>1. \A w \in Writers : output # Full(w) /\ backup[r] # Full(w)
        BY <2>2, <2>3, WhoseIs, FullIsFull
      <3>2. Kept' = Kept
        BY <2>2, <3>1 DEF Kept
      <3> QED BY <2>1, <2>3, <3>2, <1>0, WhoseIs
    <2>4. CASE ~Replaceable(output)
      <3>1. PICK w \in Writers : output = Full(w) /\ WhoseResult(output) = w
        BY <2>4, <1>i, WhoseIs
      <3>2. \A v \in Writers : backup[r] # Full(v) /\ (output = Full(v) => v = w)
        BY <2>2, <3>1, FullIsFull, FullIsOwn
      <3>3. Kept' = Kept \cup {w}
        BY <2>2, <3>1, <3>2 DEF Kept
      <3>4. Store!SetAside
        BY <2>1, <3>1, <3>3, <1>p, <1>t DEF Store!SetAside
      <3> QED BY <3>4 DEF Store!Next
    <2> QED BY <2>3, <2>4
  <1>4. CASE PutsBack(r)
    <2>1. MayPublish' = MayPublish /\ WhoseResult(output) = Nobody
      BY <1>4, MayPublishNext, WhoseIs DEF PutsBack, MayStill
    <2>2. /\ output' = backup[r]
          /\ \A q \in Runners : backup'[q] = IF q = r THEN Absent ELSE backup[q]
      BY <1>4, <1>t DEF PutsBack
    <2>3. backup[r] \in Whole
      BY <1>4 DEF PutsBack, RecomputeInv, PublicationInv
    <2>4. CASE Replaceable(backup[r])
      <3>1. \A w \in Writers : backup[r] # Full(w) /\ Absent # Full(w)
        BY <2>4, WhoseIs, FullIsFull
      <3>2. Kept' = Kept
        BY <2>2, <3>1 DEF Kept
      <3>3. WhoseResult(output)' = Nobody
        BY <2>2, <2>4, WhoseIs DEF WhoseResult, Replaceable
      <3> QED BY <2>1, <3>2, <3>3, <1>0
    <2>5. CASE ~Replaceable(backup[r])
      <3>1. PICK w \in Writers : backup[r] = Full(w) /\ WhoseResult(backup[r]) = w
        BY <2>3, <2>5, WhoseIs
      <3>2. \A q \in Runners \ {r} : backup[q] # Full(w)
        BY <3>1, <1>i DEF OnePlace
      <3>3. \A v \in Writers : Absent # Full(v) /\ (backup[r] = Full(v) => v = w)
        BY <3>1, FullIsFull, FullIsOwn
      <3>4. w \in Kept /\ Kept' = Kept \ {w}
        BY <2>2, <3>1, <3>2, <3>3 DEF Kept
      <3>5. WhoseResult(output)' = w
        BY <2>2, <3>1 DEF WhoseResult, Replaceable
      <3>6. Store!PutBack(w)
        BY <2>1, <3>4, <3>5, <1>p DEF Store!PutBack
      <3> QED BY <3>4, <3>6, <1>p DEF Store!Next
    <2> QED BY <2>4, <2>5
  <1>5. CASE Drops(r)
    <2>1. MayPublish' = MayPublish /\ WhoseResult(output)' = WhoseResult(output)
      BY <1>5, MayPublishNext DEF Drops, MayStill, WhoseResult, Replaceable
    <2>2. PICK d \in {Absent} \cup PartlyRemoved(backup[r]) :
            \A q \in Runners : backup'[q] = IF q = r THEN d ELSE backup[q]
      BY <1>5, <1>t DEF Drops
    <2>3. \A v \in Writers : d = Full(v) => backup[r] = Full(v)
      BY <1>5, <1>t, FullIsOwn, FullIsFull DEF Drops, TypeInv, BackupTaken, Directory
    <2>4. CASE \A v \in Writers : backup[r] = Full(v) => d = Full(v)
      <3>1. Kept' = Kept
        BY <2>2, <2>3, <2>4 DEF Kept
      <3> QED BY <2>1, <3>1, <1>0
    <2>5. CASE ~\A v \in Writers : backup[r] = Full(v) => d = Full(v)
      <3>1. PICK w \in Writers : backup[r] = Full(w) /\ d # Full(w)
        BY <2>5
      <3>2. \A v \in Writers : backup[r] = Full(v) => v = w
        BY <3>1, FullIsOwn
      <3>3. \A q \in Runners \ {r} : backup[q] # Full(w)
        BY <3>1, <1>i DEF OnePlace
      <3>4. w \in Kept /\ Kept' = Kept \ {w}
        BY <2>2, <2>3, <3>1, <3>2, <3>3 DEF Kept
      <3>5. WhoseResult(output) # Nobody \/ Kept # {w}
        <4>1. HasResult
          BY <1>5, <1>i DEF Drops, DropsOnlySpare
        <4>2. PICK v \in Writers : \/ output = Full(v)
                                   \/ \E q \in Runners : pc[q] # "dropBackup" /\ backup[q] = Full(v)
          BY <4>1 DEF HasResult
        <4>3. CASE output = Full(v)
          BY <4>3, <1>t, FullIsOwn
        <4>4. ASSUME NEW q \in Runners, pc[q] # "dropBackup", backup[q] = Full(v)
              PROVE  v \in Kept /\ v # w
          BY <4>4, <3>3, <1>5 DEF Drops, Kept
        <4> QED BY <4>2, <4>3, <4>4
      <3>6. Store!Discard(w)
        BY <2>1, <3>4, <3>5, <1>p DEF Store!Discard
      <3> QED BY <3>4, <3>6, <1>p DEF Store!Next
    <2> QED BY <2>4, <2>5
  <1> QED BY <1>1, <1>2, <1>3, <1>4, <1>5, RecomputeMoves

LEMMA StoreSteps ==
    TypeInv /\ RunsInv /\ RecomputeInv /\ TraceInv /\ StoreInv /\ [Next]_vars
        => [Store!Next]_(Store!vars)
  <1> SUFFICES ASSUME TypeInv, RunsInv, RecomputeInv, TraceInv, StoreInv, [Next]_vars
               PROVE  [Store!Next]_(Store!vars)
    OBVIOUS
  <1>u. CASE UNCHANGED vars
    BY <1>u DEF vars, Store!vars, AllRecompute, Recomputing, WhoseResult, Replaceable, Kept,
                MayPublish
  <1>s. ASSUME NEW r \in Runners, Run(r) \/ Cancel(r) \/ Crash(r)
        PROVE  [Store!Next]_(Store!vars)
    <2>1. AllRecompute' <=> AllRecompute
      BY <1>s, StepKeeps DEF AllRecompute, Recomputing
    <2>2. CASE AllRecompute
      BY <1>s, <2>2, StoreMove
    <2>3. CASE ~AllRecompute
      BY <2>1, <2>3 DEF Store!vars
    <2> QED BY <2>2, <2>3
  <1> QED BY <1>u, <1>s DEF Next

\* However many recomputes race for one output directory, and wherever they
\* fail or are killed: renames, backups and rollbacks amount to a store that
\* shows whole results, holds each in one place and never discards the last.
THEOREM StoreImplemented == Spec => StoreRefined
  <1>1. Init => Store!Init
    <2> SUFFICES ASSUME Init PROVE Store!Init
      OBVIOUS
    <2>1. output \in Whole /\ (Replaceable(output) \/ output = Full(User))
      BY DEF Init, Whole, Writers, Replaceable
    <2>2. WhoseResult(output) \in {User, Nobody}
      BY <2>1, WhoseIs, FullIsOwn DEF Writers
    <2>3. Kept = {}
      BY FullIsFull DEF Init, Kept
    <2>4. MayPublish \subseteq Runners /\ User \notin Runners /\ Nobody \notin Runners
      BY NamesAssumption DEF MayPublish
    <2> QED BY <2>2, <2>3, <2>4 DEF Store!Init, Writers
  <1> QED
    BY <1>1, StoreSteps, InvariantsHold, TraceInit, TraceStep, StoreInit, StoreStep, PTL
    DEF Spec, StoreRefined, Store!Spec

---------------------------------------------------------------------------
\* A recompute that has the directory to itself.

LoneInv(r) ==
    Recomputing(r) /\ Alone(r) =>
        /\ pc[r] \in {"idle", "staging", "enter", "engine", "publish", "fresh", "slot",
                      "aside", "cancelled"} => output = initial
        /\ pc[r] = "fresh" => output = Absent
        /\ pc[r] \in {"slot", "aside"} => output # Absent
        /\ pc[r] \in {"install", "rollback"} => output = Absent /\ backup[r] = initial
        /\ pc[r] = "rollback" => faults[r] >= 1
        /\ pc[r] = "discard" => \/ output = initial /\ backup[r] = Absent /\ faults[r] >= 1
                                \/ faults[r] >= 2
        /\ pc[r] \in {"dropBackup", "completed"} => staging[r] = Absent /\ output = Full(r)
        /\ pc[r] = "completed" => backup[r] = Absent
        /\ pc[r] = "failed" =>
            \/ staging[r] = Absent /\ output = initial /\ backup[r] \in {Absent, Empty}
            \/ staging[r] = Absent /\ output = Full(r) /\ faults[r] >= 1
            \/ faults[r] >= 2

\* Whoever is alone was alone before, and has taken every step.
LEMMA LoneStep ==
    ASSUME TypeInv, RunsInv, NEW p \in Runners, Run(p) \/ Cancel(p) \/ Crash(p),
           NEW r \in Runners, LoneInv(r)
    PROVE  LoneInv(r)'
  <1> SUFFICES ASSUME Recomputing(r)', Alone(r)' PROVE LoneInv(r)'
    BY DEF LoneInv
  <1>k. /\ policy' = policy /\ initial' = initial
        /\ \A q \in Runners \ {p} : pc'[q] = pc[q]
    BY StepKeeps
  <1>p. pc'[p] # "idle" \/ Cancel(p)
    BY PoliciesAssumption DEF TypeInv, TypeOK, Run, Publish, Reject, Start, EnsureEmptyOutput, EnsureDirectory,
       MakeStaging, EnterEngine, Stage, StageFails, Interrupt, EngineDone, ChoosePublication,
       PublishFresh, ReserveBackup, MoveAside, Install, Rollback, Discard, DropBackup, Crash
  <1>1. CASE Cancel(p)
    BY <1>1 DEF Cancel, LoneInv, Recomputing, Alone
  <1>2. CASE ~Cancel(p)
    <2>1. r = p
      BY <1>2, <1>p DEF Alone
    <2>2. /\ LoneInv(r) /\ Recomputing(r) /\ Alone(r) /\ policy[r] = "recompute"
          /\ PlacesInv(r) /\ StagingInv(r)
      BY <1>k, <2>1 DEF Alone, Recomputing, RunsInv
    <2>3. /\ output \in Directory /\ staging[r] \in Directory /\ backup[r] \in Directory
          /\ faults[r] \in Nat
          /\ DOMAIN staging = Runners /\ DOMAIN backup = Runners /\ DOMAIN pc = Runners
          /\ DOMAIN faults = Runners
      BY MaxFaultsAssumption DEF TypeInv, TypeOK
    <2> USE <2>1, <2>2, <2>3 DEF LoneInv
    <2>4. CASE Reject(p) \/ Start(p) \/ MakeStaging(p)
      BY <2>4, <1>k DEF Reject, Start, MakeStaging, PlacesInv
    <2>5. CASE EnsureEmptyOutput(p) \/ EnsureDirectory(p)
      BY <2>5 DEF EnsureEmptyOutput, EnsureDirectory, PlacesInv
    <2>6. CASE EnterEngine(p) \/ StageFails(p) \/ Interrupt(p) \/ EngineDone(p)
      <3>1. pc[r] \in {"enter", "engine"} /\ staging[r] # Absent
        BY <2>6 DEF EnterEngine, StageFails, Interrupt, EngineDone, StagingInv
      <3> QED BY <2>6, <3>1, <1>k DEF EnterEngine, StageFails, Interrupt, EngineDone, PlacesInv, Root
    <2>7. CASE Stage(p)
      BY <2>7, <1>k DEF Stage, SetRoot
    <2>8. CASE ChoosePublication(p) \/ ReserveBackup(p)
      BY <2>8, <1>k DEF ChoosePublication, ReserveBackup, PlacesInv
    <2>9. CASE PublishFresh(p)
      BY <2>9, <1>k DEF PublishFresh, PlacesInv, StagingInv, Replaceable
    <2>10. CASE MoveAside(p)
      <3>1. pc[r] = "aside" /\ output = initial /\ output # Absent /\ backup[r] = Absent
        BY <2>10 DEF MoveAside, PlacesInv
      <3> QED BY <2>10, <3>1, <1>k DEF MoveAside
    <2>11. CASE Install(p)
      BY <2>11, <1>k DEF Install, StagingInv, Replaceable
    <2>12. CASE Rollback(p)
      BY <2>12, <1>k DEF Rollback, Replaceable
    <2>13. CASE Discard(p)
      BY <2>13, <1>k DEF Discard
    <2>14. CASE DropBackup(p)
      BY <2>14, <1>k DEF DropBackup
    <2>15. CASE Crash(p)
      BY <2>15, <1>k DEF Crash
    <2> QED
      BY <1>2, <2>4, <2>5, <2>6, <2>7, <2>8, <2>9, <2>10, <2>11, <2>12, <2>13, <2>14, <2>15
      DEF Run, Publish
  <1> QED BY <1>1, <1>2

AloneInv == \A r \in Runners : LoneInv(r)

LEMMA AloneStep == TypeInv /\ RunsInv /\ AloneInv /\ [Next]_vars => AloneInv'
  <1> SUFFICES ASSUME TypeInv, RunsInv, AloneInv, [Next]_vars, NEW r \in Runners
               PROVE  LoneInv(r)'
    BY DEF AloneInv
  <1>u. CASE UNCHANGED vars
    BY <1>u DEF AloneInv, LoneInv, Recomputing, Alone, vars
  <1>s. ASSUME NEW p \in Runners, Run(p) \/ Cancel(p) \/ Crash(p) PROVE LoneInv(r)'
    BY <1>s, LoneStep DEF AloneInv
  <1> QED BY <1>u, <1>s DEF Next

\* A recompute that was alone and met at most one I/O error, of any number of
\* files, has left the previous output or its own tree, and no directory that
\* the error does not account for.
THEOREM LoneRunsAreAllOrNothing == Spec => []AllOrNothing
  <1>1. Init => AloneInv
    BY DEF Init, AloneInv, LoneInv
  <1>2. TypeInv /\ RunsInv /\ AloneInv => AllOrNothing
    <2> SUFFICES ASSUME TypeInv, RunsInv, AloneInv, NEW r \in Runners, Recomputing(r),
                        Alone(r), Ended(r), pc[r] # "crashed", faults[r] <= 1
                 PROVE  \/ /\ output = Full(r) /\ staging[r] = Absent
                           /\ \/ pc[r] = "completed" /\ backup[r] = Absent
                              \/ pc[r] = "failed" /\ faults[r] = 1
                        \/ /\ output = initial
                           /\ \/ /\ pc[r] = "failed" /\ staging[r] = Absent
                                 /\ backup[r] \in {Absent, Empty}
                              \/ /\ pc[r] = "cancelled" /\ backup[r] = Absent
                                 /\ faults[r] = 0 => staging[r] = Absent
      BY DEF AllOrNothing
    <2>1. LoneInv(r) /\ PlacesInv(r)
      BY DEF AloneInv, RunsInv
    <2>2. faults[r] \in Nat /\ ~(faults[r] >= 2) /\ (faults[r] >= 1 => faults[r] = 1)
      BY MaxFaultsAssumption DEF TypeInv, TypeOK
    <2>3. pc[r] \in {"completed", "failed", "cancelled"}
      BY DEF Ended
    <2> QED BY <2>1, <2>2, <2>3 DEF LoneInv, PlacesInv
  <1> QED BY <1>1, <1>2, InvariantsHold, AloneStep, PTL DEF Spec
=============================================================================
