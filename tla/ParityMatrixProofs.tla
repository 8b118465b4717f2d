------------------------ MODULE ParityMatrixProofs ------------------------
(***************************************************************************)
(* The types of the parity matrix, that it never certifies a subset, that  *)
(* a saved verdict stays in the summary, and that verdicts belong to the   *)
(* files the summary records, proved for any workflows, elements, number   *)
(* of starts and changes from outside.                                     *)
(*                                                                         *)
(* The summary in memory has a verdict for every workflow before the       *)
(* position of the loop, and none for the one it works on; the one on disk *)
(* is an earlier state of it.  Both hold again after a resume because what *)
(* was saved is taken over as it is.                                       *)
(*                                                                         *)
(* The recorded inputs need what is true of the files beside the summary:  *)
(* the report xtask has just written names the input it ran on, and the    *)
(* copy retained for an element is what the element was computed from, as  *)
(* long as all elements belong to the matrix that is going on.             *)
(***************************************************************************)
EXTENDS ParityMatrix, TLAPS

Proper(d) == d \notin {None, Torn}

\* The script is not in its loop.
Idle == {"off", "build", "commit", "hash"}

Settled(row) == row \notin {None, Running}

\* The verdicts of a summary are those of what they rest on.
Judged(m) ==
    \A x \in Workflows :
        Settled(m.rows[x]) =>
            /\ m.rows[x].status = "pass" => \A c \in m.rows[x].from : c.ok
            /\ x = HighZ => Numbers(m.rows[x].from) = Elements

\* The elements that are not done.
Missing == Elements \ Numbers(elements)

\* Where the loop is, and what it has done of the workflow it is at.
Progress ==
    /\ pc \in Idle \ {"off"} => at = 1
    /\ pc = "hash" => ~mem.complete /\ \A x \in Workflows : mem.rows[x] = None
    /\ pc \notin Idle \cup {"next"} => at \in DOMAIN Order
    /\ pc \in {"template", "element", "atomic", "report", "save"} => Workflow = HighZ
    /\ pc \in {"invoke", "compare", "retain"} => Workflow # HighZ
    /\ pc \in {"manifest", "invoke", "compare", "template", "element", "atomic", "report", "save"}
        => mem.rows[Workflow] = Running
    /\ pc \in {"retain", "verdict"} => Settled(mem.rows[Workflow])
    /\ pc = "atomic" => \A n \in Missing :
                            (\A k \in Missing : n <= k) => mem.inputs[n] \in Versions

\* The loop has left no workflow without a verdict.
Left ==
    pc \notin Idle =>
        /\ ~mem.complete
        /\ \A i \in DOMAIN Order : i < at => Settled(mem.rows[Order[i]])

\* What is saved is complete when it says so.
Saved ==
    Proper(disk) =>
        /\ Judged(disk)
        /\ disk.complete => \A x \in Workflows : Settled(disk.rows[x])

\* What is saved is an earlier state of what is in memory.
Behind ==
    Proper(disk) =>
        /\ pc \notin Idle \cup {"next"} => disk.rows[Workflow] = Running
        /\ pc \notin Idle /\ resume =>
            \A x \in Workflows : disk.rows[x] \in {None, Running, mem.rows[x]}

PInv ==
    /\ TypeOK
    /\ Progress
    /\ Left
    /\ mem # None => Judged(mem)
    /\ Saved
    /\ Behind

-----------------------------------------------------------------------------
(* Summaries. *)

\* The workflow of a position.
LEMMA OrderFacts ==
    /\ DOMAIN Order = 1 .. Len(Order)
    /\ Len(Order) \in Nat
    /\ \A i \in DOMAIN Order : Order[i] \in Workflows
    /\ \A x \in Workflows : \E i \in DOMAIN Order : Order[i] = x
    /\ \A i, j \in DOMAIN Order : Order[i] = Order[j] => i = j
    /\ HighZ \in Workflows
<1>1. Order \in Seq(Workflows)
    BY MatrixAssumption
<1>2. DOMAIN Order = 1 .. Len(Order) /\ Len(Order) \in Nat
    BY <1>1
<1>3. \A i \in DOMAIN Order : Order[i] \in Workflows
    BY DEF Workflows
<1>4. \A x \in Workflows : \E i \in DOMAIN Order : Order[i] = x
    BY DEF Workflows
<1> QED
    BY <1>2, <1>3, <1>4, MatrixAssumption

\* Recording a row leaves the rest of the summary.
LEMMA SetRow ==
    ASSUME NEW m \in Summaries, NEW w \in Workflows, NEW v \in Verdicts
    PROVE  LET n == [m EXCEPT !.rows[w] = v] IN
            /\ n \in Summaries
            /\ n.rows = [m.rows EXCEPT ![w] = v]
            /\ n.complete = m.complete
            /\ n.manifests = m.manifests /\ n.inputs = m.inputs
            /\ n.build = m.build /\ n.leftover = m.leftover
    BY DEF Summaries

\* So does recording a manifest.
LEMMA SetManifest ==
    ASSUME NEW m \in Summaries, NEW w \in Workflows, NEW v \in Versions
    PROVE  LET n == [m EXCEPT !.manifests[w] = v] IN
            /\ n \in Summaries
            /\ n.rows = m.rows
            /\ n.complete = m.complete
            /\ n.manifests = [m.manifests EXCEPT ![w] = v] /\ n.inputs = m.inputs
            /\ n.build = m.build /\ n.leftover = m.leftover
    BY DEF Summaries

\* So does recording an input.
LEMMA SetInput ==
    ASSUME NEW m \in Summaries, NEW w \in Workflows \cup Elements, NEW v \in Versions
    PROVE  LET n == [m EXCEPT !.inputs[w] = v] IN
            /\ n \in Summaries
            /\ n.rows = m.rows
            /\ n.complete = m.complete
            /\ n.inputs = [m.inputs EXCEPT ![w] = v] /\ n.manifests = m.manifests
            /\ n.build = m.build /\ n.leftover = m.leftover
    BY DEF Summaries

\* So does recording the template for HIGHZ and the elements that are done.
LEMMA SetInputs ==
    ASSUME NEW m \in Summaries, NEW done, NEW v \in Versions
    PROVE  LET n == [m EXCEPT !.inputs =
                        [x \in Workflows \cup Elements |->
                            IF x = HighZ \/ x \in Numbers(done) THEN v ELSE @[x]]] IN
            /\ n \in Summaries
            /\ n.rows = m.rows
            /\ n.complete = m.complete
            /\ \A x \in Workflows \cup Elements :
                /\ x # HighZ /\ x \notin Numbers(done) => n.inputs[x] = m.inputs[x]
                /\ x = HighZ \/ x \in Numbers(done) => n.inputs[x] = v
            /\ n.manifests = m.manifests /\ n.build = m.build /\ n.leftover = m.leftover
    BY DEF Summaries

\* The rows of a summary.
LEMMA RowType ==
    /\ \A m \in Summaries, w \in Workflows : m.rows[w] \in Verdicts \cup {None}
    /\ \A v \in Verdicts : v.status \in {"running", "pass", "fail", "timeout"}
    /\ Running \in Verdicts
    BY DEF Summaries, Verdicts, Running

-----------------------------------------------------------------------------
(* Every action preserves the invariant. *)

\* What a running script has in memory.
LEMMA MemoryFacts ==
    ASSUME PInv, pc \notin {"off", "build", "commit"}
    PROVE  /\ TypeOK /\ mem \in Summaries /\ mem # None /\ Judged(mem)
           /\ Progress /\ Left /\ Saved /\ Behind
           /\ DOMAIN Order = 1 .. Len(Order) /\ Len(Order) \in Nat /\ at \in 1 .. Len(Order) + 1
           /\ at \in DOMAIN Order => Workflow \in Workflows
<1>1. TypeOK /\ (mem # None => Judged(mem)) /\ Progress /\ Left /\ Saved /\ Behind
    BY DEF PInv
<1>2. mem \in Summaries /\ mem # None /\ at \in 1 .. Len(Order) + 1
    BY <1>1 DEF TypeOK
<1>3. at \in DOMAIN Order => Workflow \in Workflows
    BY OrderFacts DEF Workflow
<1> QED
    BY <1>1, <1>2, <1>3, OrderFacts

\* The script ends; the file it was writing may be torn.
LEMMA Ends ==
    ASSUME PInv, TypeOK', pc' = "off", mem' \in {mem, None}, disk' \in {disk, Torn}
    PROVE  PInv'
<1>1. (mem # None => Judged(mem)) /\ Saved
    BY DEF PInv
<1>2. Saved' /\ (mem # None => Judged(mem))'
    BY <1>1 DEF Saved, Judged, Proper
<1> QED
    BY <1>2 DEF PInv, Progress, Left, Behind, Idle

\* The loop begins, with no row or with those that are saved.
LEMMA Begins ==
    ASSUME PInv, TypeOK', Saved', Judged(mem)', pc = "hash", pc' = "next",
           UNCHANGED <<at, disk, resume>>, ~mem'.complete,
           ~resume \/ mem'.rows = disk.rows
    PROVE  PInv'
<1>1. at' = 1
    BY DEF PInv, Progress, Idle
<1>2. ~(\E i \in DOMAIN Order : i < 1)
    BY OrderFacts
<1>3. Left'
    BY <1>1, <1>2 DEF Left
<1>4. Behind'
    BY DEF Behind
<1> QED
    BY <1>3, <1>4 DEF PInv, Progress, Idle

\* A run begins, and builds the executable.
LEMMA StartStep == \A again \in BOOLEAN : PInv /\ Start(again) => PInv'
<1> SUFFICES ASSUME NEW again \in BOOLEAN, PInv, Start(again)
             PROVE  PInv'
    OBVIOUS
<1>1. /\ pc = "off" /\ pc' = "build" /\ runs < MaxRuns /\ runs' = runs + 1
      /\ resume' = again /\ at' = 1 /\ elements' = {} /\ mem' = None
      /\ UNCHANGED <<env, disk, report, results, retained>>
    BY DEF Start
<1>2. TypeOK /\ Saved
    BY DEF PInv
<1>3. runs' \in 0 .. MaxRuns /\ at' \in 1 .. Len(Order) + 1
    BY <1>1, <1>2, OrderFacts, MatrixAssumption DEF TypeOK
<1>4. TypeOK'
    BY <1>1, <1>2, <1>3 DEF TypeOK, env
<1>5. Saved'
    BY <1>1, <1>2 DEF Saved, Judged
<1> QED
    BY <1>1, <1>4, <1>5 DEF PInv, Progress, Left, Behind, Idle

\* The executable is built from the source.
LEMMA BuildStep == PInv /\ Build => PInv'
<1> SUFFICES ASSUME PInv, Build
             PROVE  PInv'
    OBVIOUS
<1>1. /\ pc = "build" /\ pc' = "commit" /\ binary' = tree
      /\ UNCHANGED <<golden, head, tree, edits, disk, report, results, retained, resume, at,
                     mem, elements, runs>>
    BY DEF Build
<1>2. TypeOK /\ Saved /\ (mem # None => Judged(mem))
    BY DEF PInv
<1>3. TypeOK'
    BY <1>1, <1>2 DEF TypeOK
<1>4. Saved' /\ (mem # None => Judged(mem))'
    BY <1>1, <1>2 DEF Saved, Judged
<1> QED
    BY <1>1, <1>3, <1>4 DEF PInv, Progress, Left, Behind, Idle

\* A summary without rows.
LEMMA FreshFacts ==
    ASSUME TypeOK
    PROVE  /\ Fresh \in Summaries /\ ~Fresh.complete
           /\ \A x \in Workflows : Fresh.rows[x] = None
           /\ Fresh.leftover = (results # None)
    BY DEF Fresh, Summaries, TypeOK

\* The commit is read, and a summary begun.
LEMMA ReadCommitStep == PInv /\ ReadCommit => PInv'
<1> SUFFICES ASSUME PInv, ReadCommit
             PROVE  PInv'
    OBVIOUS
<1>1. /\ pc = "commit" /\ pc' = "hash" /\ mem' = Fresh
      /\ UNCHANGED <<env, disk, report, results, retained, resume, at, elements, runs>>
    BY DEF ReadCommit
<1>2. TypeOK /\ Saved
    BY DEF PInv
<1>3. mem' \in Summaries /\ ~mem'.complete /\ \A x \in Workflows : mem'.rows[x] = None
    BY <1>1, <1>2, FreshFacts
<1>4. TypeOK'
    BY <1>1, <1>2, <1>3, NothingAssumption DEF TypeOK, env
<1>5. Saved' /\ Judged(mem)'
    BY <1>1, <1>2, <1>3 DEF Saved, Judged, Settled
<1> QED
    BY <1>1, <1>3, <1>4, <1>5 DEF PInv, Progress, Left, Behind, Idle

\* A new matrix, a resumed one, or one that refuses to resume.
LEMMA HashBinaryStep == PInv /\ HashBinary => PInv'
<1> SUFFICES ASSUME PInv, HashBinary
             PROVE  PInv'
    OBVIOUS
<1>1. /\ pc = "hash"
      /\ UNCHANGED <<env, disk, report, results, retained, resume, at, elements, runs>>
    BY DEF HashBinary
<1>2. TypeOK /\ mem \in Summaries /\ Judged(mem) /\ Saved /\ Progress
    BY <1>1, MemoryFacts
<1>3. \/ ~resume /\ mem' = [mem EXCEPT !.build = binary] /\ pc' = "next"
      \/ resume /\ Resumable /\ mem' = [disk EXCEPT !.complete = FALSE] /\ pc' = "next"
      \/ mem' = mem /\ pc' = "off"
    BY DEF HashBinary
<1>4. Saved'
    BY <1>1, <1>2 DEF Saved, Judged
<1>5. CASE ~resume /\ mem' = [mem EXCEPT !.build = binary] /\ pc' = "next"
    <2>1. mem' \in Summaries /\ mem'.rows = mem.rows /\ mem'.complete = mem.complete
        BY <1>2, <1>5 DEF Summaries, TypeOK
    <2>2. \A x \in Workflows : mem.rows[x] = None /\ ~mem.complete
        BY <1>1, <1>2 DEF Progress
    <2>3. TypeOK'
        BY <1>1, <1>2, <1>5, <2>1, NothingAssumption DEF TypeOK, env
    <2>4. Judged(mem)'
        BY <1>2, <2>1 DEF Judged
    <2>5. ~mem.complete
        BY <1>1, <1>2 DEF Progress
    <2> QED
        BY <1>1, <1>4, <1>5, <2>1, <2>3, <2>4, <2>5, Begins DEF PInv
<1>6. CASE resume /\ Resumable /\ mem' = [disk EXCEPT !.complete = FALSE] /\ pc' = "next"
    <2>1. disk \in Summaries /\ Proper(disk)
        BY <1>2, <1>6 DEF TypeOK, Resumable, Proper
    <2>2. mem' \in Summaries /\ mem'.rows = disk.rows /\ mem'.complete = FALSE
        BY <1>6, <2>1 DEF Summaries
    <2>3. Judged(mem)'
        BY <1>2, <2>1, <2>2 DEF Saved, Judged
    <2>4. TypeOK'
        BY <1>1, <1>2, <1>6, <2>2, NothingAssumption DEF TypeOK, env
    <2> QED
        BY <1>1, <1>4, <1>6, <2>2, <2>3, <2>4, Begins DEF PInv
<1>7. CASE mem' = mem /\ pc' = "off"
    <2>1. TypeOK'
        BY <1>1, <1>2, <1>7 DEF TypeOK, env
    <2> QED
        BY <1>1, <1>7, <2>1, Ends
<1> QED
    BY <1>3, <1>5, <1>6, <1>7

\* A workflow is passed over or begun.
LEMMA EnterStep == PInv /\ Enter => PInv'
<1> SUFFICES ASSUME PInv, Enter
             PROVE  PInv'
    OBVIOUS
<1>1. /\ pc = "next" /\ at \in DOMAIN Order
      /\ UNCHANGED <<env, report, results, retained, resume, elements, runs>>
    BY DEF Enter
<1>2. /\ TypeOK /\ mem \in Summaries /\ mem # None /\ Judged(mem)
      /\ Progress /\ Left /\ Saved /\ Behind
      /\ DOMAIN Order = 1 .. Len(Order) /\ Len(Order) \in Nat /\ at \in 1 .. Len(Order) + 1
      /\ Workflow \in Workflows
    BY <1>1, MemoryFacts
<1>3. CASE Kept
    <2>1. at' = at + 1 /\ UNCHANGED <<mem, disk, pc>>
        BY <1>3 DEF Enter
    <2>2. TypeOK'
        BY <1>1, <1>2, <2>1 DEF TypeOK, env
    <2>3. Left'
        <3> SUFFICES ASSUME NEW i \in DOMAIN Order, i < at + 1
                     PROVE  Settled(mem.rows[Order[i]])
            BY <1>1, <1>2, <2>1 DEF Left, Idle
        <3>1. CASE i < at
            BY <1>1, <1>2, <3>1 DEF Left, Idle
        <3>2. CASE i = at
            BY <1>3, <3>2 DEF Kept, Settled, Workflow
        <3> QED
            BY <1>2, <3>1, <3>2
    <2>4. Saved' /\ Judged(mem)'
        BY <1>2, <2>1 DEF Saved, Judged
    <2>5. Behind'
        BY <1>1, <1>2, <2>1 DEF Behind, Idle
    <2> QED
        BY <1>1, <2>1, <2>2, <2>3, <2>4, <2>5 DEF PInv, Progress, Idle
<1>4. CASE ~Kept
    <2>1. /\ mem' = [mem EXCEPT !.rows[Workflow] = Running]
          /\ disk' = mem' /\ pc' = "manifest" /\ at' = at
        BY <1>4 DEF Enter
    <2>2. /\ mem' \in Summaries
          /\ mem'.rows = [mem.rows EXCEPT ![Workflow] = Running]
          /\ mem'.complete = mem.complete
        BY <1>2, <2>1, SetRow, RowType
    <2>3. mem.rows \in [Workflows -> Verdicts \cup {None}]
        BY <1>2 DEF Summaries
    <2>4. /\ mem'.rows[Workflow] = Running
          /\ \A x \in Workflows : x # Workflow => mem'.rows[x] = mem.rows[x]
        BY <1>2, <2>2, <2>3
    <2>5. TypeOK'
        BY <1>1, <1>2, <2>1, <2>2, NothingAssumption DEF TypeOK, env
    <2>6. Workflow' = Workflow
        BY <2>1 DEF Workflow
    <2>7. Judged(mem)'
        BY <1>2, <2>4 DEF Judged, Settled
    <2>8. Left'
        <3> SUFFICES ASSUME NEW i \in DOMAIN Order, i < at
                     PROVE  Settled(mem'.rows[Order[i]])
            BY <1>1, <1>2, <2>1, <2>2 DEF Left, Idle
        <3>1. Order[i] # Workflow /\ Order[i] \in Workflows
            BY <1>1, <1>2, OrderFacts DEF Workflow
        <3> QED
            BY <1>1, <1>2, <2>4, <3>1 DEF Left, Idle
    <2>9. ~disk'.complete
        BY <1>1, <1>2, <2>1, <2>2 DEF Left, Idle
    <2>10. Saved'
        BY <2>1, <2>7, <2>9 DEF Saved, Judged
    <2>11. Behind'
        BY <2>1, <2>4, <2>6 DEF Behind, Idle
    <2>12. Progress'
        BY <1>1, <2>1, <2>4, <2>6 DEF Progress, Idle
    <2> QED
        BY <2>5, <2>7, <2>8, <2>10, <2>11, <2>12 DEF PInv
<1> QED
    BY <1>3, <1>4

\* A step inside a workflow that records no verdict.
LEMMA Inside ==
    ASSUME PInv, pc \notin Idle \cup {"next"}, pc' \notin Idle \cup {"next"},
           TypeOK', Progress', UNCHANGED <<at, resume>>,
           mem' \in Summaries, mem'.rows = mem.rows, mem'.complete = mem.complete,
           disk' = disk \/ (disk' = mem' /\ mem.rows[Workflow] = Running)
    PROVE  PInv'
<1>1. /\ mem \in Summaries /\ mem # None /\ Judged(mem) /\ Left /\ Saved /\ Behind
    BY MemoryFacts DEF Idle
<1>2. Workflow' = Workflow
    BY DEF Workflow
<1>3. Judged(mem)'
    BY <1>1 DEF Judged
<1>4. Left'
    BY <1>1 DEF Left, Idle
<1>5. ~mem'.complete
    BY <1>1 DEF Left, Idle
<1>6. Saved'
    BY <1>1, <1>3, <1>5 DEF Saved, Judged
<1>7. Behind'
    BY <1>1, <1>2 DEF Behind, Idle
<1> QED
    BY <1>3, <1>4, <1>6, <1>7 DEF PInv

\* The manifest is hashed.
LEMMA ReadManifestStep == PInv /\ ReadManifest => PInv'
<1> SUFFICES ASSUME PInv, ReadManifest
             PROVE  PInv'
    OBVIOUS
<1>1. /\ pc = "manifest" /\ pc' = IF Workflow = HighZ THEN "template" ELSE "invoke"
      /\ mem' = [mem EXCEPT !.manifests[Workflow] = golden.manifest[Workflow]]
      /\ UNCHANGED <<env, disk, report, results, retained, resume, at, elements, runs>>
    BY DEF ReadManifest
<1>2. TypeOK /\ mem \in Summaries /\ Progress /\ (at \in DOMAIN Order => Workflow \in Workflows)
    BY <1>1, MemoryFacts
<1>3. Workflow \in Workflows /\ at \in DOMAIN Order /\ mem.rows[Workflow] = Running
    BY <1>1, <1>2 DEF Progress, Idle
<1>4. golden.manifest[Workflow] \in Versions
    BY <1>2, <1>3 DEF TypeOK
<1>5. mem' \in Summaries /\ mem'.rows = mem.rows /\ mem'.complete = mem.complete
    BY <1>1, <1>2, <1>3, <1>4, SetManifest
<1>6. TypeOK'
    BY <1>1, <1>2, <1>5, NothingAssumption DEF TypeOK, env
<1>7. Progress'
    BY <1>1, <1>3, <1>5 DEF Progress, Workflow, Idle
<1> QED
    BY <1>1, <1>5, <1>6, <1>7, Inside DEF Idle

\* The reported inputs are retained, or the script ends.
LEMMA RetainInputsStep == PInv /\ RetainInputs => PInv'
<1> SUFFICES ASSUME PInv, RetainInputs
             PROVE  PInv'
    OBVIOUS
<1>1. /\ pc = "retain"
      /\ retained' \in {retained, [retained EXCEPT ![Workflow] = golden.input[Workflow]]}
      /\ UNCHANGED <<env, disk, report, results, resume, at, elements, runs>>
    BY DEF RetainInputs
<1>2. TypeOK /\ mem \in Summaries /\ Progress /\ (at \in DOMAIN Order => Workflow \in Workflows)
    BY <1>1, MemoryFacts
<1>3. Workflow \in Workflows /\ at \in DOMAIN Order /\ Settled(mem.rows[Workflow])
    BY <1>1, <1>2 DEF Progress, Idle
<1>4. \/ pc' = "off" /\ mem' = mem
      \/ pc' = "verdict" /\ mem' = mem
      \/ pc' = "verdict" /\ mem' = [mem EXCEPT !.inputs[Workflow] = golden.input[Workflow]]
    BY DEF RetainInputs
<1>5. golden.input[Workflow] \in Versions
    BY <1>2, <1>3 DEF TypeOK
<1>6. mem' \in Summaries /\ mem'.rows = mem.rows /\ mem'.complete = mem.complete
    <2>1. CASE mem' = mem
        BY <1>2, <2>1
    <2>2. CASE mem' = [mem EXCEPT !.inputs[Workflow] = golden.input[Workflow]]
        BY <1>2, <1>3, <1>5, <2>2, SetInput
    <2> QED
        BY <1>4, <2>1, <2>2
<1>7. TypeOK'
    <2>1. retained' \in [Workflows \cup Elements -> Versions \cup {None}]
        BY <1>1, <1>2, <1>3, <1>5 DEF TypeOK
    <2> QED
        BY <1>1, <1>2, <1>4, <1>6, <2>1, NothingAssumption DEF TypeOK, env
<1>8. CASE pc' = "off" /\ mem' = mem
    BY <1>1, <1>7, <1>8, Ends
<1>9. CASE pc' = "verdict"
    <2>1. Progress'
        BY <1>1, <1>3, <1>6, <1>9 DEF Progress, Workflow, Idle
    <2> QED
        BY <1>1, <1>6, <1>7, <1>9, <2>1, Inside DEF Idle
<1> QED
    BY <1>4, <1>8, <1>9

\* The elements of an earlier report are taken over, or the script ends.
LEMMA ReadTemplateStep == PInv /\ ReadTemplate => PInv'
<1> SUFFICES ASSUME PInv, ReadTemplate
             PROVE  PInv'
    OBVIOUS
<1> DEFINE done == IF resume /\ results # None THEN results ELSE {}
<1>1. /\ pc = "template"
      /\ retained' = [retained EXCEPT ![HighZ] = golden.input[HighZ]]
      /\ UNCHANGED <<env, disk, report, results, resume, at, runs>>
      /\ \/ pc' = "off" /\ UNCHANGED <<mem, elements>>
         \/ /\ pc' = "save" /\ done # Torn
            /\ elements' = done
            /\ mem' = [mem EXCEPT !.inputs =
                        [x \in Workflows \cup Elements |->
                            IF x = HighZ \/ x \in Numbers(done) THEN golden.input[HighZ]
                            ELSE @[x]]]
    BY DEF ReadTemplate
<1>2. TypeOK /\ mem \in Summaries /\ Progress /\ (at \in DOMAIN Order => Workflow \in Workflows)
    BY <1>1, MemoryFacts
<1>3. Workflow \in Workflows /\ at \in DOMAIN Order /\ mem.rows[Workflow] = Running
      /\ Workflow = HighZ
    BY <1>1, <1>2 DEF Progress, Idle
<1>4. golden.input[HighZ] \in Versions
    BY <1>2, OrderFacts DEF TypeOK
<1>7. retained' \in [Workflows \cup Elements -> Versions \cup {None}]
    BY <1>1, <1>2, <1>4 DEF TypeOK
<1>5. CASE pc' = "off" /\ UNCHANGED <<mem, elements>>
    <2>1. TypeOK'
        BY <1>1, <1>2, <1>5, <1>7 DEF TypeOK, env
    <2> QED
        BY <1>1, <1>5, <2>1, Ends
<1>6. CASE /\ pc' = "save" /\ done # Torn
           /\ elements' = done
           /\ mem' = [mem EXCEPT !.inputs =
                        [x \in Workflows \cup Elements |->
                            IF x = HighZ \/ x \in Numbers(done) THEN golden.input[HighZ]
                            ELSE @[x]]]
    <2>1. done \subseteq Computations
        BY <1>2, <1>6 DEF TypeOK
    <2> HIDE DEF done
    <2>2. mem' \in Summaries /\ mem'.rows = mem.rows /\ mem'.complete = mem.complete
        BY <1>2, <1>4, <1>6, SetInputs
    <2>3. TypeOK'
        BY <1>1, <1>2, <1>6, <1>7, <2>1, <2>2, NothingAssumption DEF TypeOK, env
    <2>4. Progress'
        BY <1>1, <1>3, <1>6, <2>2 DEF Progress, Workflow, Idle
    <2> QED
        BY <1>1, <1>3, <1>6, <2>2, <2>3, <2>4, Inside DEF Idle
<1> QED
    BY <1>1, <1>5, <1>6

\* The input of the next element.
LEMMA PrepareElementStep == PInv /\ PrepareElement => PInv'
<1> SUFFICES ASSUME PInv, PrepareElement
             PROVE  PInv'
    OBVIOUS
<1>1. /\ pc = "element" /\ pc' = "atomic"
      /\ UNCHANGED <<env, disk, report, results, resume, at, elements, runs>>
    BY DEF PrepareElement
<1>2. PICK n \in Missing :
        /\ \A k \in Missing : n <= k
        /\ retained' = [retained EXCEPT ![n] = golden.input[HighZ]]
        /\ mem' = [mem EXCEPT !.inputs[n] = golden.input[HighZ]]
    BY DEF PrepareElement, Missing
<1>3. TypeOK /\ mem \in Summaries /\ Progress /\ (at \in DOMAIN Order => Workflow \in Workflows)
    BY <1>1, MemoryFacts
<1>4. Workflow \in Workflows /\ at \in DOMAIN Order /\ mem.rows[Workflow] = Running
      /\ Workflow = HighZ
    BY <1>1, <1>3 DEF Progress, Idle
<1>5. golden.input[HighZ] \in Versions
    BY <1>3, OrderFacts DEF TypeOK
<1>6. n \in Elements
    BY DEF Missing
<1>7. mem' \in Summaries /\ mem'.rows = mem.rows /\ mem'.complete = mem.complete
    BY <1>2, <1>3, <1>5, <1>6, SetInput
<1>8. retained' \in [Workflows \cup Elements -> Versions \cup {None}]
    BY <1>2, <1>3, <1>5, <1>6 DEF TypeOK
<1>9. TypeOK'
    BY <1>1, <1>3, <1>7, <1>8, NothingAssumption DEF TypeOK, env
<1>10. \A m \in Missing : (\A k \in Missing : m <= k) => mem'.inputs[m] \in Versions
    <2> SUFFICES ASSUME NEW m \in Missing, \A k \in Missing : m <= k
                 PROVE  mem'.inputs[m] \in Versions
        OBVIOUS
    <2>1. m <= n /\ n <= m /\ m \in Nat /\ n \in Nat
        BY <1>2, MatrixAssumption DEF Missing
    <2>2. m = n
        BY <2>1
    <2>3. mem'.inputs[n] = golden.input[HighZ]
        BY <1>2, <1>3, <1>6 DEF Summaries
    <2> QED
        BY <1>5, <2>2, <2>3
<1>11. Missing' = Missing
    BY <1>1 DEF Missing, Numbers
<1>12. Progress'
    BY <1>1, <1>4, <1>7, <1>10, <1>11 DEF Progress, Workflow, Idle
<1> QED
    BY <1>1, <1>4, <1>7, <1>9, <1>12, Inside DEF Idle

\* The element is computed and compared.
LEMMA RunElementStep == \A ok \in BOOLEAN : PInv /\ RunElement(ok) => PInv'
<1> SUFFICES ASSUME NEW ok \in BOOLEAN, PInv, RunElement(ok)
             PROVE  PInv'
    OBVIOUS
<1>1. /\ pc = "atomic" /\ pc' = "report"
      /\ UNCHANGED <<env, disk, report, results, retained, resume, at, mem, runs>>
    BY DEF RunElement
<1>2. PICK n \in Missing :
        /\ \A k \in Missing : n <= k
        /\ elements' = elements \cup {[of |-> n, input |-> mem.inputs[n], binary |-> binary, ok |-> ok]}
    BY DEF RunElement, Missing
<1>3. TypeOK /\ mem \in Summaries /\ Progress /\ (at \in DOMAIN Order => Workflow \in Workflows)
    BY <1>1, MemoryFacts
<1>4. Workflow \in Workflows /\ at \in DOMAIN Order /\ mem.rows[Workflow] = Running
      /\ Workflow = HighZ /\ mem.inputs[n] \in Versions
    BY <1>1, <1>2, <1>3 DEF Progress, Idle
<1>5. n \in Elements
    BY DEF Missing
<1>6. [of |-> n, input |-> mem.inputs[n], binary |-> binary, ok |-> ok]
        \in Computations
    BY <1>3, <1>4, <1>5 DEF TypeOK, Computations
<1>7. elements' \subseteq Computations
    BY <1>2, <1>3, <1>6 DEF TypeOK
<1>8. TypeOK'
    BY <1>1, <1>3, <1>7, NothingAssumption DEF TypeOK, env
<1>9. Progress'
    BY <1>1, <1>4 DEF Progress, Workflow, Idle
<1> QED
    BY <1>1, <1>3, <1>8, <1>9, Inside DEF Idle

\* The report is written, then the summary.
LEMMA ReportSteps == PInv /\ (WriteReport \/ SaveProgress) => PInv'
<1> SUFFICES ASSUME PInv, WriteReport \/ SaveProgress
             PROVE  PInv'
    OBVIOUS
<1>1. /\ pc \in {"report", "save"} /\ pc' \in {"save", "element"}
      /\ disk' \in {disk, mem} /\ results' \in {results, elements}
      /\ UNCHANGED <<env, report, retained, resume, at, mem, elements, runs>>
    BY DEF WriteReport, SaveProgress
<1>2. TypeOK /\ mem \in Summaries /\ Progress
    BY <1>1, MemoryFacts
<1>3. mem.rows[Workflow] = Running
    BY <1>1, <1>2 DEF Progress, Idle
<1>4. TypeOK'
    BY <1>1, <1>2 DEF TypeOK, env
<1>5. Progress'
    BY <1>1, <1>2 DEF Progress, Workflow, Idle
<1> QED
    BY <1>1, <1>2, <1>3, <1>4, <1>5, Inside DEF Idle

\* A workflow gets a verdict that is what it rests on.
LEMMA Decides ==
    ASSUME PInv, pc \in {"invoke", "compare", "element"}, pc' \in {"retain", "verdict"},
           pc' = "retain" => Workflow # HighZ,
           UNCHANGED <<at, resume, disk>>, TypeOK',
           NEW v \in Verdicts, v # Running,
           mem' = [mem EXCEPT !.rows[Workflow] = v],
           v.status = "pass" => \A c \in v.from : c.ok,
           Workflow = HighZ => Numbers(v.from) = Elements
    PROVE  PInv'
<1>1. /\ TypeOK /\ mem \in Summaries /\ mem # None /\ Judged(mem)
      /\ Progress /\ Left /\ Saved /\ Behind
      /\ DOMAIN Order = 1 .. Len(Order) /\ Len(Order) \in Nat /\ at \in 1 .. Len(Order) + 1
    BY MemoryFacts
<1>2. at \in DOMAIN Order /\ Workflow \in Workflows
    BY <1>1, MemoryFacts DEF Progress, Idle
<1>3. /\ mem' \in Summaries
      /\ mem'.rows = [mem.rows EXCEPT ![Workflow] = v]
      /\ mem'.complete = mem.complete
    BY <1>1, <1>2, SetRow
<1>4. mem.rows \in [Workflows -> Verdicts \cup {None}]
    BY <1>1 DEF Summaries
<1>5. /\ mem'.rows[Workflow] = v
      /\ \A x \in Workflows : x # Workflow => mem'.rows[x] = mem.rows[x]
    BY <1>2, <1>3, <1>4
<1>6. Settled(v)
    BY NothingAssumption DEF Settled
<1>7. Workflow' = Workflow
    BY DEF Workflow
<1>8. Judged(mem)'
    <2> SUFFICES ASSUME NEW x \in Workflows, Settled(mem'.rows[x])
                 PROVE  /\ mem'.rows[x].status = "pass" => \A c \in mem'.rows[x].from : c.ok
                        /\ x = HighZ => Numbers(mem'.rows[x].from) = Elements
        BY DEF Judged
    <2>1. CASE x = Workflow
        BY <1>5, <2>1
    <2>2. CASE x # Workflow
        BY <1>1, <1>5, <2>2 DEF Judged
    <2> QED
        BY <2>1, <2>2
<1>9. Left'
    <2> SUFFICES ASSUME NEW i \in DOMAIN Order, i < at
                 PROVE  Settled(mem'.rows[Order[i]])
        BY <1>1, <1>3 DEF Left, Idle
    <2>1. Order[i] \in Workflows
        BY OrderFacts
    <2> QED
        BY <1>1, <1>5, <1>6, <2>1 DEF Left, Idle
<1>10. Saved'
    BY <1>1 DEF Saved, Judged
<1>11. Behind'
    <2> SUFFICES ASSUME Proper(disk)
                 PROVE  Behind'
        BY DEF Behind, Idle
    <2>1. disk.rows[Workflow] = Running
        BY <1>1 DEF Behind, Idle
    <2> QED
        BY <1>1, <1>5, <1>7, <2>1 DEF Behind, Idle
<1>12. Progress'
    BY <1>2, <1>5, <1>6, <1>7 DEF Progress, Idle
<1> QED
    BY <1>8, <1>9, <1>10, <1>11, <1>12 DEF PInv

\* The executable is built again.
LEMMA RebuildStep == PInv /\ Rebuild => PInv'
<1> SUFFICES ASSUME PInv, Rebuild
             PROVE  PInv'
    OBVIOUS
<1>1. /\ pc = "invoke" /\ pc' = "compare" /\ binary' = tree
      /\ UNCHANGED <<golden, head, tree, edits, disk, report, results, retained, resume, at,
                     mem, elements, runs>>
    BY DEF Rebuild
<1>2. TypeOK /\ mem \in Summaries /\ Progress
    BY <1>1, MemoryFacts
<1>3. TypeOK'
    BY <1>1, <1>2 DEF TypeOK
<1>4. Progress'
    BY <1>1, <1>2 DEF Progress, Workflow, Idle
<1> QED
    BY <1>1, <1>2, <1>3, <1>4, Inside DEF Idle

\* It is not built: the workflow failed, and was not computed.
LEMMA RebuildFailsStep ==
    \A status \in {"fail", "timeout"} : PInv /\ RebuildFails(status) => PInv'
<1> SUFFICES ASSUME NEW status \in {"fail", "timeout"}, PInv, RebuildFails(status)
             PROVE  PInv'
    OBVIOUS
<1> DEFINE v == [status |-> status, from |-> {}]
<1>1. /\ pc = "invoke" /\ pc' = "retain"
      /\ mem' = [mem EXCEPT !.rows[Workflow] = v]
      /\ UNCHANGED <<env, disk, report, results, retained, resume, at, elements, runs>>
    BY DEF RebuildFails
<1>2. TypeOK /\ mem \in Summaries /\ Progress /\ (at \in DOMAIN Order => Workflow \in Workflows)
    BY <1>1, MemoryFacts
<1>3. Workflow \in Workflows /\ Workflow # HighZ
    BY <1>1, <1>2 DEF Progress, Idle
<1>4. v \in Verdicts /\ v # Running /\ v.status # "pass"
    BY DEF Verdicts, Running
<1> HIDE DEF v
<1>5. mem' \in Summaries
    BY <1>1, <1>2, <1>3, <1>4, SetRow
<1>6. TypeOK'
    BY <1>1, <1>2, <1>5, NothingAssumption DEF TypeOK, env
<1> QED
    BY <1>1, <1>3, <1>4, <1>6, Decides

\* A workflow is compared as a whole.
LEMMA CompareStep ==
    \A status \in {"pass", "fail", "timeout"} : PInv /\ Compare(status) => PInv'
<1> SUFFICES ASSUME NEW status \in {"pass", "fail", "timeout"}, PInv, Compare(status)
             PROVE  PInv'
    OBVIOUS
<1> DEFINE c == [of |-> Workflow, input |-> golden.input[Workflow], binary |-> binary,
                 ok |-> status = "pass"]
<1> DEFINE v == [status |-> status, from |-> {c}]
<1>1. /\ pc = "compare" /\ pc' = "retain"
      /\ mem' = [mem EXCEPT !.rows[Workflow] = v]
      /\ \E named \in {golden.input[Workflow], report[Workflow], Torn} :
            report' = [report EXCEPT ![Workflow] = named]
      /\ UNCHANGED <<env, disk, results, retained, resume, at, elements, runs>>
    BY DEF Compare
<1>2. TypeOK /\ mem \in Summaries /\ Progress /\ (at \in DOMAIN Order => Workflow \in Workflows)
    BY <1>1, MemoryFacts
<1>3. Workflow \in Workflows /\ Workflow # HighZ
    BY <1>1, <1>2 DEF Progress, Idle
<1>4. golden.input[Workflow] \in Versions /\ binary \in Versions \cup {Other}
    BY <1>2, <1>3 DEF TypeOK
<1>5. c \in Computations
    BY <1>3, <1>4 DEF Computations
<1>6. c.ok <=> status = "pass"
    OBVIOUS
<1> HIDE DEF c
<1>7. v \in Verdicts /\ v # Running /\ (v.status = "pass" => \A d \in v.from : d.ok)
    BY <1>5, <1>6 DEF Verdicts, Running
<1> HIDE DEF v
<1>8. mem' \in Summaries
    BY <1>1, <1>2, <1>3, <1>7, SetRow
<1>9. report' \in [Workflows -> Versions \cup {None, Torn}]
    BY <1>1, <1>2, <1>3, <1>4 DEF TypeOK
<1>10. TypeOK'
    BY <1>1, <1>2, <1>8, <1>9, NothingAssumption DEF TypeOK, env
<1> QED
    BY <1>1, <1>3, <1>7, <1>10, Decides

\* The elements pass together or not at all.
LEMMA JudgeStep == PInv /\ Judge => PInv'
<1> SUFFICES ASSUME PInv, Judge
             PROVE  PInv'
    OBVIOUS
<1> DEFINE v == [status |-> IF \A c \in elements : c.ok THEN "pass" ELSE "fail",
                 from   |-> elements]
<1>1. /\ pc = "element" /\ pc' = "verdict" /\ Elements = Numbers(elements)
      /\ mem' = [mem EXCEPT !.rows[HighZ] = v]
      /\ UNCHANGED <<env, disk, report, results, retained, resume, at, elements, runs>>
    BY DEF Judge
<1>2. TypeOK /\ mem \in Summaries /\ Progress
    BY <1>1, MemoryFacts
<1>3. Workflow = HighZ /\ HighZ \in Workflows
    BY <1>1, <1>2, OrderFacts DEF Progress, Idle
<1>4. /\ v \in Verdicts /\ v # Running
      /\ v.status = "pass" => \A c \in v.from : c.ok
      /\ v.from = elements
    BY <1>2 DEF Verdicts, Running, TypeOK
<1> HIDE DEF v
<1>5. mem' \in Summaries
    BY <1>1, <1>2, <1>3, <1>4, SetRow
<1>6. TypeOK'
    BY <1>1, <1>2, <1>5, NothingAssumption DEF TypeOK, env
<1> QED
    BY <1>1, <1>3, <1>4, <1>6, Decides

\* The verdict is saved.
LEMMA SaveVerdictStep == PInv /\ SaveVerdict => PInv'
<1> SUFFICES ASSUME PInv, SaveVerdict
             PROVE  PInv'
    OBVIOUS
<1>1. /\ pc = "verdict" /\ pc' = "next" /\ disk' = mem /\ at' = at + 1
      /\ UNCHANGED <<env, report, results, retained, resume, mem, elements, runs>>
    BY DEF SaveVerdict
<1>2. /\ TypeOK /\ mem \in Summaries /\ mem # None /\ Judged(mem) /\ Progress /\ Left
      /\ DOMAIN Order = 1 .. Len(Order) /\ Len(Order) \in Nat /\ at \in 1 .. Len(Order) + 1
    BY <1>1, MemoryFacts
<1>3. at \in DOMAIN Order /\ Settled(mem.rows[Workflow])
    BY <1>1, <1>2 DEF Progress, Idle
<1>4. TypeOK'
    BY <1>1, <1>2, <1>3 DEF TypeOK, env
<1>5. Left'
    <2> SUFFICES ASSUME NEW i \in DOMAIN Order, i < at + 1
                 PROVE  Settled(mem.rows[Order[i]])
        BY <1>1, <1>2 DEF Left, Idle
    <2>1. CASE i < at
        BY <1>1, <1>2, <2>1 DEF Left, Idle
    <2>2. CASE i = at
        BY <1>3, <2>2 DEF Workflow
    <2> QED
        BY <1>2, <2>1, <2>2
<1>6. ~mem.complete
    BY <1>1, <1>2 DEF Left, Idle
<1>7. Saved' /\ Judged(mem)'
    BY <1>1, <1>2, <1>6 DEF Saved, Judged
<1>8. Behind'
    BY <1>1 DEF Behind, Idle
<1> QED
    BY <1>1, <1>4, <1>5, <1>7, <1>8 DEF PInv, Progress, Idle

\* The matrix is done, and says whether it is complete.
LEMMA FinishStep == PInv /\ Finish => PInv'
<1> SUFFICES ASSUME PInv, Finish
             PROVE  PInv'
    OBVIOUS
<1>1. /\ pc = "next" /\ pc' = "off" /\ at = Len(Order) + 1
      /\ UNCHANGED <<env, report, results, retained, resume, at, elements, runs>>
    BY DEF Finish
<1>2. /\ TypeOK /\ mem \in Summaries /\ mem # None /\ Judged(mem) /\ Left /\ Saved
      /\ DOMAIN Order = 1 .. Len(Order) /\ Len(Order) \in Nat
    BY <1>1, MemoryFacts
<1>3. \A x \in Workflows : Settled(mem.rows[x])
    <2>1. \A i \in DOMAIN Order : i < at
        BY <1>1, <1>2
    <2> QED
        BY <1>1, <1>2, <2>1, OrderFacts DEF Left, Idle
<1>4. CASE UNCHANGED <<mem, disk>>
    <2>1. TypeOK'
        BY <1>1, <1>2, <1>4 DEF TypeOK, env
    <2> QED
        BY <1>1, <1>4, <2>1, Ends
<1>5. CASE /\ mem' = [mem EXCEPT !.complete = \A x \in Workflows : mem.rows[x] # None,
                                 !.dirty = (tree # head),
                                 !.unchanged = (binary = mem.build)]
           /\ disk' = mem'
    <2>1. mem' \in Summaries /\ mem'.rows = mem.rows
        BY <1>2, <1>5 DEF Summaries, TypeOK
    <2>2. TypeOK'
        BY <1>1, <1>2, <1>5, <2>1, NothingAssumption DEF TypeOK, env
    <2>3. Judged(mem)'
        BY <1>2, <2>1 DEF Judged
    <2>4. Saved'
        BY <1>3, <1>5, <2>1, <2>3 DEF Saved, Judged
    <2> QED
        BY <1>1, <2>2, <2>3, <2>4 DEF PInv, Progress, Left, Behind, Idle
<1> QED
    BY <1>4, <1>5 DEF Finish

\* A kill, also inside a write.
LEMMA KillStep == PInv /\ Kill => PInv'
<1> SUFFICES ASSUME PInv, Kill
             PROVE  PInv'
    OBVIOUS
<1>1. /\ pc' = "off" /\ disk' \in {disk, Torn} /\ results' \in {results, Torn}
      /\ mem' = None /\ elements' = {}
      /\ UNCHANGED <<env, report, retained, resume, at, runs>>
    BY DEF Kill
<1>2. TypeOK
    BY DEF PInv
<1>3. TypeOK'
    BY <1>1, <1>2 DEF TypeOK, env
<1> QED
    BY <1>1, <1>3, Ends

\* What comes from outside changes nothing of the matrix.
LEMMA OutsideStep == PInv /\ Outside => PInv'
<1> SUFFICES ASSUME PInv, Outside
             PROVE  PInv'
    OBVIOUS
<1>1. /\ edits < MaxEdits /\ edits' = edits + 1
      /\ UNCHANGED <<disk, report, results, retained, pc, resume, at, mem, elements, runs>>
    BY DEF Outside
<1>2. TypeOK
    BY DEF PInv
<1>3. golden' \in [{"manifest", "input"} -> [Workflows -> Versions]]
    <2>1. CASE EditGolden
        <3>1. PICK kind \in {"manifest", "input"}, x \in Workflows, v \in Versions :
                golden' = [golden EXCEPT ![kind][x] = v]
            BY <2>1 DEF EditGolden
        <3> QED
            BY <1>2, <3>1 DEF TypeOK
    <2>2. CASE ~EditGolden
        BY <1>2, <2>2 DEF Outside, ChangeSource, ReplaceBinary, TypeOK
    <2> QED
        BY <2>1, <2>2
<1>4. head' \in Versions /\ tree' \in Versions /\ binary' \in Versions \cup {Other}
    BY <1>2 DEF TypeOK, Outside, EditGolden, ChangeSource, ReplaceBinary
<1>5. edits' \in 0 .. MaxEdits
    BY <1>1, <1>2, MatrixAssumption DEF TypeOK
<1>6. TypeOK'
    BY <1>1, <1>2, <1>3, <1>4, <1>5 DEF TypeOK
<1>7. Missing' = Missing /\ Workflow' = Workflow
    BY <1>1 DEF Missing, Numbers, Workflow
<1>8. Progress'
    BY <1>1, <1>7 DEF PInv, Progress, Idle
<1> QED
    BY <1>1, <1>6, <1>7, <1>8 DEF PInv, Left, Saved, Behind, Judged, Idle

\* Nothing is saved before the first start.
LEMMA InitInv == Init => PInv
<1> SUFFICES ASSUME Init
             PROVE  PInv
    OBVIOUS
<1>1. golden \in [{"manifest", "input"} -> [Workflows -> Versions]]
    BY MatrixAssumption DEF Init
<1>2. /\ head = 1 /\ tree = 1 /\ binary = 1 /\ edits = 0 /\ disk = None
      /\ results = None /\ pc = "off" /\ resume = FALSE /\ at = 1 /\ mem = None
      /\ elements = {} /\ runs = 0
    BY DEF Init
<1>3. /\ report \in [Workflows -> Versions \cup {None, Torn}]
      /\ retained \in [Workflows \cup Elements -> Versions \cup {None}]
    BY DEF Init
<1>4. edits \in 0 .. MaxEdits /\ runs \in 0 .. MaxRuns /\ at \in 1 .. Len(Order) + 1
    BY <1>2, OrderFacts, MatrixAssumption
<1>5. TypeOK
    BY <1>1, <1>2, <1>3, <1>4, MatrixAssumption DEF TypeOK
<1> QED
    BY <1>2, <1>5 DEF PInv, Progress, Left, Saved, Behind, Proper, Idle

-----------------------------------------------------------------------------
(* The theorems. *)

\* Where the loop is, and what is saved, at every moment of any number of runs.
THEOREM MatrixInvariant == Spec => []PInv
<1>1. PInv /\ UNCHANGED vars => PInv'
    <2> SUFFICES ASSUME PInv, UNCHANGED vars
                 PROVE  PInv'
        OBVIOUS
    <2>1. UNCHANGED <<golden, head, tree, binary, edits, disk, report, results, retained,
                      pc, resume, at, mem, elements, runs>>
        BY DEF vars
    <2>2. Missing' = Missing /\ Workflow' = Workflow
        BY <2>1 DEF Missing, Numbers, Workflow
    <2>3. TypeOK'
        BY <2>1 DEF PInv, TypeOK
    <2>4. Progress'
        BY <2>1, <2>2 DEF PInv, Progress, Idle
    <2> QED
        BY <2>1, <2>2, <2>3, <2>4 DEF PInv, Left, Saved, Behind, Judged, Idle
<1>2. PInv /\ [Next]_vars => PInv'
    BY <1>1, StartStep, BuildStep, ReadCommitStep, HashBinaryStep, EnterStep, ReadManifestStep,
        RebuildStep, RebuildFailsStep, CompareStep, RetainInputsStep,
        SaveVerdictStep, ReadTemplateStep, PrepareElementStep, RunElementStep, ReportSteps,
        JudgeStep, FinishStep, KillStep, OutsideStep DEF Next
<1> QED
    BY <1>2, InitInv, PTL DEF Spec

\* The summary in memory, the one on disk and the element report stay well typed.
THEOREM TypeCorrect == Spec => []TypeOK
<1>1. PInv => TypeOK
    BY DEF PInv
<1> QED
    BY <1>1, MatrixInvariant, PTL

\* run-parity-matrix.py: a complete summary covers every workflow and every
\* element, and pass means pass.
THEOREM SubsetsAreNotCertified == Spec => []NeverCertifiesSubset
<1>1. PInv => NeverCertifiesSubset
    <2> SUFFICES ASSUME PInv, Certified
                 PROVE  /\ \A x \in Workflows :
                            /\ disk.rows[x] \notin {None, Running}
                            /\ disk.rows[x].status = "pass" =>
                                \A c \in disk.rows[x].from : c.ok
                        /\ Numbers(disk.rows[HighZ].from) = Elements
        BY DEF NeverCertifiesSubset
    <2>1. Judged(disk) /\ \A x \in Workflows : Settled(disk.rows[x])
        BY DEF PInv, Saved, Certified, Proper
    <2> QED
        BY <2>1, OrderFacts DEF Judged, Settled
<1> QED
    BY <1>1, MatrixInvariant, PTL

\* save, --resume: a verdict that was saved is in every summary a resumed
\* matrix saves.
THEOREM VerdictsStay == Spec => VerdictsKept
<1>1. PInv /\ [Next]_vars =>
        [\A x \in Workflows :
            disk \notin {None, Torn} /\ disk' \notin {None, Torn} /\ resume' =>
                disk.rows[x] \in {None, Running, disk'.rows[x]}]_vars
    <2> SUFFICES ASSUME PInv, Next, NEW x \in Workflows,
                        Proper(disk), Proper(disk'), resume'
                 PROVE  disk.rows[x] \in {None, Running, disk'.rows[x]}
        BY DEF Proper
    <2>1. CASE disk' = disk
        BY <2>1
    <2>2. CASE Enter /\ ~Kept
        <3>1. pc = "next" /\ at \in DOMAIN Order /\ resume' = resume
              /\ mem' = [mem EXCEPT !.rows[Workflow] = Running] /\ disk' = mem'
            BY <2>2 DEF Enter
        <3>2. /\ mem \in Summaries /\ Workflow \in Workflows
              /\ disk.rows[x] \in {None, Running, mem.rows[x]}
            BY <3>1, MemoryFacts DEF Behind, Idle
        <3>3. mem'.rows = [mem.rows EXCEPT ![Workflow] = Running]
            BY <3>1, <3>2, SetRow, RowType
        <3>4. mem.rows \in [Workflows -> Verdicts \cup {None}]
            BY <3>2 DEF Summaries
        <3>5. CASE x = Workflow
            BY <2>2, <3>2, <3>5 DEF Kept
        <3>6. CASE x # Workflow
            BY <3>1, <3>2, <3>3, <3>4, <3>6
        <3> QED
            BY <3>5, <3>6
    <2>3. CASE SaveVerdict \/ SaveProgress \/ Finish
        <3>1. /\ pc \notin Idle /\ resume' = resume
              /\ disk' # disk => disk' = mem'
            BY <2>3 DEF SaveVerdict, SaveProgress, Finish, Idle
        <3>2. /\ mem \in Summaries /\ Progress
              /\ disk.rows[x] \in {None, Running, mem.rows[x]}
            BY <3>1, MemoryFacts DEF Behind, Idle
        <3>3. mem'.rows = mem.rows
            <4>1. CASE SaveVerdict \/ SaveProgress
                BY <4>1 DEF SaveVerdict, SaveProgress
            <4>2. CASE Finish
                BY <3>2, <4>2 DEF Finish, Summaries
            <4> QED
                BY <2>3, <4>1, <4>2
        <3> QED
            BY <3>1, <3>2, <3>3
    <2>4. CASE Kill
        BY <2>4 DEF Kill, Proper
    <2>5. CASE (Enter /\ Kept) \/ ReadManifest \/ RetainInputs \/ PrepareElement
                \/ WriteReport \/ Judge \/ Outside \/ Build \/ ReadCommit \/ HashBinary
                \/ Rebuild \/ ReadTemplate
        <3>1. disk' = disk
            BY <2>5 DEF Enter, ReadManifest, RetainInputs, PrepareElement, WriteReport, Judge,
                Outside, Build, ReadCommit, HashBinary, Rebuild, ReadTemplate
        <3> QED
            BY <3>1
    <2>6. CASE \/ \E again \in BOOLEAN : Start(again)
               \/ \E status \in {"fail", "timeout"} : RebuildFails(status)
               \/ \E status \in {"pass", "fail", "timeout"} : Compare(status)
               \/ \E ok \in BOOLEAN : RunElement(ok)
        <3>1. disk' = disk
            BY <2>6 DEF Start, RebuildFails, Compare, RunElement
        <3> QED
            BY <3>1
    <2> QED
        BY <2>2, <2>3, <2>4, <2>5, <2>6 DEF Next
<1> QED
    BY <1>1, MatrixInvariant, PTL DEF Spec, VerdictsKept

-----------------------------------------------------------------------------
(* What verdicts were obtained with.                                         *)

Ordinary == Workflows \ {HighZ}

\* There is a summary in memory.
Loaded == pc \notin {"off", "build", "commit"}

\* HIGHZ is under way.
OverElements == pc \in {"element", "atomic", "report", "save"}

\* A workflow that passed was run on the recorded input.
Passed(m, x) ==
    m.rows[x] # None /\ m.rows[x].status = "pass" =>
        \A c \in m.rows[x].from : m.inputs[x] = c.input

\* The elements that HIGHZ's verdict counts are those of the recorded inputs.
Counted(m) ==
    m.rows[HighZ] # None /\ ~m.leftover =>
        \A c \in m.rows[HighZ].from : m.inputs[c.of] = c.input

\* The saved summary records what its verdicts rest on.
DiskPart == Proper(disk) => Counted(disk) /\ \A x \in Ordinary : Passed(disk, x)

\* So does the one in memory, but for the inputs that are still to be retained.
MemPart ==
    Loaded =>
        /\ Counted(mem)
        /\ \A x \in Ordinary : (pc = "retain" /\ x = Workflow) \/ Passed(mem, x)

\* Those are in the report.
ReportPart ==
    pc = "retain" /\ mem.rows[Workflow].status = "pass" =>
        \A c \in mem.rows[Workflow].from : report[Workflow] = c.input

\* Once the loop has saved, the two are of the same matrix.
SamePart == pc \notin Idle \cup {"next"} /\ Proper(disk) => disk.leftover = mem.leftover

\* The retained copies of the reported elements are what these were computed from.
OwnPart ==
    /\ (Proper(disk) /\ ~disk.leftover) \/ (Loaded /\ ~mem.leftover)
    /\ Proper(results)
    => \A c \in results : retained[c.of] = c.input

\* The elements in memory include the reported ones, and are as they are recorded.
ElementPart ==
    OverElements /\ ~mem.leftover =>
        /\ Proper(results) => results \subseteq elements
        /\ \A c \in elements : mem.inputs[c.of] = c.input /\ retained[c.of] = c.input
        /\ pc = "atomic" =>
            \A n \in Missing : (\A k \in Missing : n <= k) => mem.inputs[n] = retained[n]

\* A new matrix comes to HIGHZ with no element reported.
FirstPart ==
    Loaded /\ ~OverElements /\ ~resume /\ ~mem.leftover /\ mem.rows[HighZ] \in {None, Running}
        => results = None

\* Only elements are reported.
NumberPart ==
    /\ \A c \in elements : c.of \in Elements
    /\ Proper(results) => \A c \in results : c.of \in Elements

RInv ==
    /\ PInv
    /\ DiskPart /\ MemPart /\ ReportPart /\ SamePart
    /\ OwnPart /\ ElementPart /\ FirstPart /\ NumberPart

\* A step after which there is no summary in memory.
LEMMA Retired ==
    ASSUME RInv, PInv', ~Loaded', disk' \in {disk, Torn}, results' \in {results, Torn},
           \A n \in Elements : retained'[n] = retained[n],
           elements' \in {elements, {}}
    PROVE  RInv'
<1>1. DiskPart /\ OwnPart /\ NumberPart
    BY DEF RInv
<1>2. DiskPart'
    BY <1>1 DEF DiskPart, Proper, Counted, Passed
<1>3. OwnPart'
    BY <1>1 DEF OwnPart, Proper, NumberPart
<1>4. NumberPart'
    BY <1>1 DEF NumberPart, Proper
<1> QED
    BY <1>2, <1>3, <1>4
        DEF RInv, Loaded, MemPart, ReportPart, SamePart, ElementPart, FirstPart, OverElements, Idle

\* A step that leaves what the summary says of rows and inputs.
LEMMA Quiet ==
    ASSUME RInv, PInv', Loaded, Loaded', pc # "retain", pc' # "retain",
           OverElements' <=> OverElements, pc' # "atomic",
           mem'.rows = mem.rows, mem'.inputs = mem.inputs, mem'.leftover = mem.leftover,
           disk' = mem' \/ (disk' = disk /\ (pc \notin Idle \cup {"next"} \/ pc' \in Idle \cup {"next"})),
           results' = results \/ (results' = elements /\ OverElements),
           UNCHANGED <<retained, elements, resume>>
    PROVE  RInv'
<1>1. DiskPart /\ MemPart /\ SamePart /\ OwnPart /\ ElementPart /\ FirstPart /\ NumberPart
    BY DEF RInv
<1>2. Counted(mem)' /\ \A x \in Ordinary : Passed(mem, x)'
    BY <1>1 DEF MemPart, Counted, Passed
<1>3. DiskPart'
    <2>1. CASE disk' = mem'
        BY <1>2, <2>1 DEF DiskPart, Counted, Passed
    <2>2. CASE disk' = disk
        BY <1>1, <2>2 DEF DiskPart, Counted, Passed
    <2> QED
        BY <2>1, <2>2
<1>4. MemPart'
    BY <1>2 DEF MemPart
<1>5. SamePart'
    BY <1>1 DEF SamePart, Proper
<1>6. OwnPart'
    <2>1. CASE results' = results
        BY <1>1, <2>1 DEF OwnPart, Proper
    <2>2. CASE results' = elements /\ OverElements
        <3>1. (Proper(disk) /\ ~disk.leftover) \/ ~mem.leftover => ~mem.leftover
            BY <1>1, <2>2 DEF SamePart, OverElements, Idle
        <3> QED
            BY <1>1, <2>2, <3>1 DEF OwnPart, ElementPart
    <2> QED
        BY <2>1, <2>2
<1>7. ElementPart'
    BY <1>1 DEF ElementPart
<1>8. FirstPart'
    BY <1>1 DEF FirstPart
<1>9. NumberPart'
    BY <1>1 DEF NumberPart
<1> QED
    BY <1>3, <1>4, <1>5, <1>6, <1>7, <1>8, <1>9 DEF RInv, ReportPart

\* What is known inside the loop.
LEMMA LoopFacts ==
    ASSUME RInv, pc \notin {"off", "build", "commit"}
    PROVE  /\ PInv /\ TypeOK /\ mem \in Summaries /\ Judged(mem) /\ Progress /\ Loaded
           /\ DiskPart /\ MemPart /\ ReportPart /\ SamePart
           /\ OwnPart /\ ElementPart /\ FirstPart /\ NumberPart
           /\ pc \notin {"hash", "next"} => at \in DOMAIN Order /\ Workflow \in Workflows
<1>1. PInv
    BY DEF RInv
<1> QED
    BY <1>1, MemoryFacts DEF RInv, Loaded, Progress, Idle

\* Starting: no summary is in memory until the commit is read.
LEMMA StartRecords ==
    ASSUME RInv, PInv', Build \/ \E again \in BOOLEAN : Start(again)
    PROVE  RInv'
<1>1. /\ pc' \in {"build", "commit"} /\ elements' \in {elements, {}}
      /\ UNCHANGED <<disk, results, retained>>
    BY DEF Build, Start
<1> QED
    BY <1>1, Retired DEF Loaded

\* A new summary: no verdict, and leftover elements are noted.
LEMMA ReadCommitRecords ==
    ASSUME RInv, PInv', ReadCommit
    PROVE  RInv'
<1>1. /\ pc = "commit" /\ pc' = "hash" /\ mem' = Fresh
      /\ UNCHANGED <<env, disk, report, results, retained, resume, at, elements, runs>>
    BY DEF ReadCommit
<1>2. TypeOK /\ DiskPart /\ OwnPart /\ NumberPart
    BY DEF RInv, PInv
<1>3. (\A x \in Workflows : mem'.rows[x] = None) /\ mem'.leftover = (results # None)
    BY <1>1, <1>2, FreshFacts
<1>4. DiskPart' /\ NumberPart'
    BY <1>1, <1>2 DEF DiskPart, NumberPart, Counted, Passed
<1>5. MemPart'
    BY <1>3, OrderFacts DEF MemPart, Counted, Passed, Ordinary
<1>6. OwnPart'
    BY <1>1, <1>2, <1>3 DEF OwnPart, Proper
<1>7. FirstPart'
    BY <1>1, <1>3 DEF FirstPart
<1> QED
    BY <1>1, <1>4, <1>5, <1>6, <1>7 DEF RInv, ReportPart, SamePart, ElementPart, OverElements, Idle

\* The loop begins with that summary, or with the saved one.
LEMMA HashBinaryRecords ==
    ASSUME RInv, PInv', HashBinary
    PROVE  RInv'
<1>1. /\ pc = "hash"
      /\ UNCHANGED <<env, disk, report, results, retained, resume, at, elements, runs>>
    BY DEF HashBinary
<1>2. /\ TypeOK /\ mem \in Summaries /\ Loaded
      /\ DiskPart /\ MemPart /\ SamePart /\ OwnPart /\ FirstPart /\ NumberPart
    BY <1>1, LoopFacts
<1>3. \/ ~resume /\ mem' = [mem EXCEPT !.build = binary] /\ pc' = "next"
      \/ resume /\ Resumable /\ mem' = [disk EXCEPT !.complete = FALSE] /\ pc' = "next"
      \/ mem' = mem /\ pc' = "off"
    BY DEF HashBinary
<1>4. CASE ~resume /\ mem' = [mem EXCEPT !.build = binary] /\ pc' = "next"
    <2>1. mem'.rows = mem.rows /\ mem'.inputs = mem.inputs /\ mem'.leftover = mem.leftover
        BY <1>2, <1>4 DEF Summaries
    <2> QED
        BY <1>1, <1>2, <1>4, <2>1, Quiet DEF Loaded, OverElements, Idle
<1>5. CASE resume /\ Resumable /\ mem' = [disk EXCEPT !.complete = FALSE] /\ pc' = "next"
    <2>1. disk \in Summaries /\ Proper(disk)
        BY <1>2, <1>5 DEF TypeOK, Resumable, Proper
    <2>2. mem'.rows = disk.rows /\ mem'.inputs = disk.inputs /\ mem'.leftover = disk.leftover
        BY <1>5, <2>1 DEF Summaries
    <2>3. DiskPart' /\ NumberPart'
        BY <1>1, <1>2 DEF DiskPart, NumberPart, Counted, Passed
    <2>4. MemPart'
        BY <1>2, <2>1, <2>2 DEF MemPart, DiskPart, Counted, Passed
    <2>5. OwnPart'
        BY <1>1, <1>2, <2>1, <2>2 DEF OwnPart
    <2>6. FirstPart'
        BY <1>1, <1>5 DEF FirstPart
    <2> QED
        BY <1>5, <2>3, <2>4, <2>5, <2>6 DEF RInv, ReportPart, SamePart, ElementPart, OverElements, Idle
<1>6. CASE mem' = mem /\ pc' = "off"
    BY <1>1, <1>6, Retired DEF Loaded
<1> QED
    BY <1>3, <1>4, <1>5, <1>6

\* A workflow is passed over, or marked as running and saved.
LEMMA EnterRecords ==
    ASSUME RInv, PInv', Enter
    PROVE  RInv'
<1>1. /\ pc = "next" /\ at \in DOMAIN Order
      /\ UNCHANGED <<env, report, results, retained, resume, elements, runs>>
    BY DEF Enter
<1>2. /\ TypeOK /\ mem \in Summaries /\ Loaded
      /\ DiskPart /\ MemPart /\ OwnPart /\ FirstPart /\ NumberPart
    BY <1>1, LoopFacts
<1>3. CASE Kept
    <2>1. UNCHANGED <<mem, disk, pc>>
        BY <1>3 DEF Enter
    <2> QED
        BY <1>1, <1>2, <2>1, Quiet DEF Loaded, OverElements, Idle
<1>4. CASE ~Kept
    <2>1. /\ mem' = [mem EXCEPT !.rows[Workflow] = Running]
          /\ disk' = mem' /\ pc' = "manifest" /\ at' = at
        BY <1>4 DEF Enter
    <2>2. Workflow \in Workflows /\ HighZ \in Workflows /\ Workflow' = Workflow
        BY <1>1, <2>1, OrderFacts DEF Workflow
    <2>3. /\ mem'.rows = [mem.rows EXCEPT ![Workflow] = Running]
          /\ mem'.inputs = mem.inputs /\ mem'.leftover = mem.leftover
        BY <1>2, <2>1, <2>2, SetRow, RowType
    <2>4. mem.rows \in [Workflows -> Verdicts \cup {None}]
        BY <1>2 DEF Summaries
    <2>5. /\ mem'.rows[Workflow] = Running
          /\ \A x \in Workflows : x # Workflow => mem'.rows[x] = mem.rows[x]
        BY <2>2, <2>3, <2>4
    <2>6. mem.rows[Workflow] \in {None, Running}
        BY <1>4 DEF Kept
    <2>7. Counted(mem)'
        BY <1>2, <2>2, <2>3, <2>5 DEF MemPart, Counted, Running
    <2>8. \A x \in Ordinary : Passed(mem, x)'
        <3> SUFFICES ASSUME NEW x \in Ordinary
                     PROVE  Passed(mem, x)'
            OBVIOUS
        <3>1. CASE x = Workflow
            BY <2>5, <3>1 DEF Passed, Running
        <3>2. CASE x # Workflow
            BY <1>1, <1>2, <2>3, <2>5, <3>2 DEF MemPart, Passed, Ordinary
        <3> QED
            BY <3>1, <3>2
    <2>9. DiskPart' /\ MemPart'
        BY <2>1, <2>7, <2>8 DEF DiskPart, MemPart, Counted, Passed
    <2>10. OwnPart'
        BY <1>1, <1>2, <2>1, <2>3 DEF OwnPart
    <2>11. FirstPart'
        <3>1. mem'.rows[HighZ] \in {None, Running} => mem.rows[HighZ] \in {None, Running}
            BY <2>2, <2>5, <2>6
        <3> QED
            BY <1>1, <1>2, <2>3, <3>1 DEF FirstPart, OverElements
    <2>12. NumberPart'
        BY <1>1, <1>2 DEF NumberPart
    <2> QED
        BY <2>1, <2>9, <2>10, <2>11, <2>12
            DEF RInv, ReportPart, SamePart, ElementPart, OverElements, Idle
<1> QED
    BY <1>3, <1>4

\* The manifest and the build.
LEMMA QuietRecords ==
    ASSUME RInv, PInv', ReadManifest \/ Rebuild
    PROVE  RInv'
<1>1. /\ pc \in {"manifest", "invoke"} /\ pc' \in {"template", "invoke", "compare"}
      /\ UNCHANGED <<disk, results, retained, resume, elements>>
    BY DEF ReadManifest, Rebuild
<1>2. mem \in Summaries /\ Loaded
    BY <1>1, LoopFacts
<1>3. mem'.rows = mem.rows /\ mem'.inputs = mem.inputs /\ mem'.leftover = mem.leftover
    BY <1>2 DEF ReadManifest, Rebuild, Summaries
<1> QED
    BY <1>1, <1>2, <1>3, Quiet DEF Loaded, OverElements, Idle

\* Nothing of the matrix changes.
LEMMA StillRecords ==
    ASSUME RInv, PInv',
           UNCHANGED <<disk, report, results, retained, pc, resume, at, mem, elements>>
    PROVE  RInv'
<1>1. Workflow' = Workflow /\ Missing' = Missing
    BY DEF Workflow, Missing, Numbers
<1> QED
    BY <1>1 DEF RInv, DiskPart, MemPart, ReportPart, SamePart, OwnPart, ElementPart, FirstPart,
        NumberPart, Loaded, OverElements, Counted, Passed

\* The build failed, or the comparison is over: the report that passed names the
\* input it was run on.
LEMMA CompareRecords ==
    ASSUME RInv, PInv',
           \/ \E status \in {"fail", "timeout"} : RebuildFails(status)
           \/ \E status \in {"pass", "fail", "timeout"} : Compare(status)
    PROVE  RInv'
<1>1. PICK v :
        /\ mem' = [mem EXCEPT !.rows[Workflow] = v]
        /\ v \in Verdicts
        /\ v.status = "pass" =>
            /\ \A c \in v.from : c.input = golden.input[Workflow]
            /\ report' = [report EXCEPT ![Workflow] = golden.input[Workflow]]
        /\ pc \in {"invoke", "compare"} /\ pc' = "retain"
        /\ UNCHANGED <<env, disk, results, retained, resume, at, elements, runs>>
    <2>1. pc \in {"invoke", "compare"}
        BY DEF RebuildFails, Compare
    <2>2. TypeOK /\ Workflow \in Workflows
        BY <2>1, LoopFacts
    <2>3. CASE \E status \in {"fail", "timeout"} : RebuildFails(status)
        <3>1. PICK status \in {"fail", "timeout"} : RebuildFails(status)
            BY <2>3
        <3> DEFINE v == [status |-> status, from |-> {}]
        <3>2. v \in Verdicts /\ v.status # "pass"
            BY DEF Verdicts
        <3>3. /\ mem' = [mem EXCEPT !.rows[Workflow] = v]
              /\ pc' = "retain"
              /\ UNCHANGED <<env, disk, results, retained, resume, at, elements, runs>>
            BY <3>1 DEF RebuildFails
        <3> QED
            BY <2>1, <3>2, <3>3
    <2>4. CASE \E status \in {"pass", "fail", "timeout"} : Compare(status)
        <3>1. PICK status \in {"pass", "fail", "timeout"} : Compare(status)
            BY <2>4
        <3> DEFINE c == [of |-> Workflow, input |-> golden.input[Workflow], binary |-> binary,
                         ok |-> status = "pass"]
        <3> DEFINE v == [status |-> status, from |-> {c}]
        <3>2. c \in Computations
            BY <2>2 DEF Computations, TypeOK
        <3>3. v \in Verdicts /\ \A d \in v.from : d.input = golden.input[Workflow]
            BY <3>2 DEF Verdicts
        <3>4. /\ mem' = [mem EXCEPT !.rows[Workflow] = v]
              /\ pc' = "retain"
              /\ UNCHANGED <<env, disk, results, retained, resume, at, elements, runs>>
            BY <3>1 DEF Compare
        <3>5. v.status = "pass" =>
                report' = [report EXCEPT ![Workflow] = golden.input[Workflow]]
            BY <3>1 DEF Compare
        <3> QED
            BY <2>1, <3>3, <3>4, <3>5
    <2> QED
        BY <2>3, <2>4
<1>2. /\ TypeOK /\ mem \in Summaries /\ Progress /\ Workflow \in Workflows
      /\ DiskPart /\ MemPart /\ SamePart /\ OwnPart /\ FirstPart /\ NumberPart /\ Loaded
    BY <1>1, LoopFacts
<1>3. Workflow # HighZ /\ HighZ \in Workflows /\ Workflow' = Workflow
    BY <1>1, <1>2, OrderFacts DEF Progress, Workflow
<1>4. /\ mem'.rows = [mem.rows EXCEPT ![Workflow] = v]
      /\ mem'.inputs = mem.inputs /\ mem'.leftover = mem.leftover
    BY <1>1, <1>2, SetRow
<1>5. mem.rows \in [Workflows -> Verdicts \cup {None}]
    BY <1>2 DEF Summaries
<1>6. /\ mem'.rows[Workflow] = v
      /\ \A x \in Workflows : x # Workflow => mem'.rows[x] = mem.rows[x]
    BY <1>2, <1>4, <1>5
<1>7. DiskPart' /\ NumberPart'
    BY <1>1, <1>2 DEF DiskPart, NumberPart, Counted, Passed
<1>8. MemPart'
    <2>1. Counted(mem)'
        BY <1>2, <1>3, <1>4, <1>6 DEF MemPart, Counted
    <2>2. ASSUME NEW x \in Ordinary, x # Workflow
          PROVE  Passed(mem, x)'
        BY <1>1, <1>2, <1>4, <1>6, <2>2 DEF MemPart, Passed, Ordinary
    <2> QED
        BY <1>1, <1>3, <2>1, <2>2 DEF MemPart
<1>9. ReportPart'
    <2>1. v.status = "pass" => report'[Workflow] = golden.input[Workflow]
        BY <1>1, <1>2 DEF TypeOK
    <2> QED
        BY <1>1, <1>3, <1>6, <2>1 DEF ReportPart
<1>10. SamePart'
    BY <1>1, <1>2, <1>4 DEF SamePart, Proper, Idle
<1>11. OwnPart'
    BY <1>1, <1>2, <1>4 DEF OwnPart
<1>12. FirstPart'
    BY <1>1, <1>2, <1>3, <1>4, <1>6 DEF FirstPart, OverElements
<1> QED
    BY <1>1, <1>7, <1>8, <1>9, <1>10, <1>11, <1>12 DEF RInv, ElementPart, OverElements

\* What the report names is retained only if it is what the golden file is now.
LEMMA RetainRecords ==
    ASSUME RInv, PInv', RetainInputs
    PROVE  RInv'
<1>1. /\ pc = "retain"
      /\ UNCHANGED <<env, disk, report, results, resume, at, elements, runs>>
    BY DEF RetainInputs
<1>2. /\ TypeOK /\ mem \in Summaries /\ Progress /\ Judged(mem) /\ Workflow \in Workflows
      /\ DiskPart /\ MemPart /\ ReportPart /\ SamePart /\ OwnPart /\ FirstPart /\ NumberPart
      /\ Loaded
    BY <1>1, LoopFacts
<1>3. /\ Workflow # HighZ /\ HighZ \in Workflows /\ Workflow \notin Elements
      /\ Workflow' = Workflow /\ Settled(mem.rows[Workflow])
    BY <1>1, <1>2, OrderFacts, MatrixAssumption DEF Progress, Workflow
<1>4. golden.input[Workflow] \in Versions
    BY <1>2 DEF TypeOK
<1>5. \/ pc' = "off" /\ UNCHANGED retained
      \/ pc' = "verdict" /\ report[Workflow] = None /\ UNCHANGED <<mem, retained>>
      \/ /\ pc' = "verdict" /\ report[Workflow] = golden.input[Workflow]
         /\ retained' = [retained EXCEPT ![Workflow] = golden.input[Workflow]]
         /\ mem' = [mem EXCEPT !.inputs[Workflow] = golden.input[Workflow]]
    BY DEF RetainInputs, Stale
<1>6. CASE pc' = "off" /\ UNCHANGED retained
    BY <1>1, <1>6, Retired DEF Loaded
<1>7. ASSUME pc' = "verdict",
             mem'.rows = mem.rows, mem'.leftover = mem.leftover,
             \A x \in Workflows \cup Elements : x # Workflow => mem'.inputs[x] = mem.inputs[x],
             \A n \in Elements : retained'[n] = retained[n],
             Passed(mem, Workflow)'
      PROVE  RInv'
    <2>1. DiskPart' /\ NumberPart'
        BY <1>1, <1>2 DEF DiskPart, NumberPart, Counted, Passed
    <2>2. Counted(mem)'
        <3>1. mem.rows[HighZ] # None => \A c \in mem.rows[HighZ].from : c.of \in Elements
            <4>1. CASE Settled(mem.rows[HighZ])
                BY <1>2, <1>3, <4>1 DEF Judged, Numbers
            <4>2. CASE mem.rows[HighZ] = Running
                BY <4>2 DEF Running
            <4> QED
                BY <4>1, <4>2 DEF Settled
        <3> QED
            BY <1>2, <1>3, <1>7, <3>1 DEF MemPart, Counted
    <2>3. \A x \in Ordinary : Passed(mem, x)'
        <3> SUFFICES ASSUME NEW x \in Ordinary
                     PROVE  Passed(mem, x)'
            OBVIOUS
        <3>1. CASE x = Workflow
            BY <1>3, <1>7, <3>1 DEF Passed
        <3>2. CASE x # Workflow
            BY <1>2, <1>7, <3>2 DEF MemPart, Passed, Ordinary
        <3> QED
            BY <3>1, <3>2
    <2>4. MemPart'
        BY <2>2, <2>3 DEF MemPart
    <2>5. SamePart'
        BY <1>1, <1>2, <1>7 DEF SamePart, Idle
    <2>6. OwnPart'
        BY <1>1, <1>2, <1>7 DEF OwnPart, NumberPart
    <2>7. FirstPart'
        BY <1>1, <1>2, <1>7 DEF FirstPart, OverElements
    <2> QED
        BY <1>7, <2>1, <2>4, <2>5, <2>6, <2>7 DEF RInv, ReportPart, ElementPart, OverElements
<1>8. CASE pc' = "verdict" /\ report[Workflow] = None /\ UNCHANGED <<mem, retained>>
    <2>1. \A c \in mem.rows[Workflow].from : c.input # None
        <3>1. mem.rows[Workflow] \in Verdicts
            BY <1>2, <1>3, RowType DEF Settled
        <3>2. \A c \in mem.rows[Workflow].from : c.input \in Versions
            BY <3>1 DEF Verdicts, Computations
        <3> QED
            BY <3>2, NothingAssumption, MatrixAssumption
    <2>2. Passed(mem, Workflow)
        BY <1>1, <1>2, <1>8, <2>1 DEF ReportPart, Passed
    <2>3. Passed(mem, Workflow)'
        BY <1>3, <1>8, <2>2 DEF Passed
    <2> QED
        BY <1>7, <1>8, <2>3
<1>9. CASE /\ pc' = "verdict" /\ report[Workflow] = golden.input[Workflow]
           /\ retained' = [retained EXCEPT ![Workflow] = golden.input[Workflow]]
           /\ mem' = [mem EXCEPT !.inputs[Workflow] = golden.input[Workflow]]
    <2>1. /\ mem'.rows = mem.rows /\ mem'.leftover = mem.leftover
          /\ mem'.inputs = [mem.inputs EXCEPT ![Workflow] = golden.input[Workflow]]
        BY <1>2, <1>4, <1>9, SetInput
    <2>2. mem.inputs \in [Workflows \cup Elements -> Versions \cup {None}]
        BY <1>2 DEF Summaries
    <2>3. /\ mem'.inputs[Workflow] = golden.input[Workflow]
          /\ \A x \in Workflows \cup Elements : x # Workflow => mem'.inputs[x] = mem.inputs[x]
        BY <1>2, <2>1, <2>2
    <2>4. \A n \in Elements : retained'[n] = retained[n]
        BY <1>2, <1>3, <1>9 DEF TypeOK
    <2>5. Passed(mem, Workflow)'
        BY <1>1, <1>2, <1>3, <1>9, <2>1, <2>3 DEF ReportPart, Passed
    <2> QED
        BY <1>7, <1>9, <2>1, <2>3, <2>4, <2>5
<1> QED
    BY <1>5, <1>6, <1>8, <1>9

\* What is in memory is saved.
LEMMA SaveRecords ==
    ASSUME RInv, PInv', SaveVerdict \/ SaveProgress \/ WriteReport
    PROVE  RInv'
<1>1. /\ pc \in {"verdict", "save", "report"}
      /\ pc = "verdict" => pc' = "next"
      /\ pc \in {"save", "report"} => pc' \in {"element", "save"}
      /\ disk' \in {disk, mem} /\ (pc = "verdict" => disk' = mem)
      /\ results' = results \/ (results' = elements /\ pc = "report")
      /\ UNCHANGED <<retained, resume, mem, elements>>
    BY DEF SaveVerdict, SaveProgress, WriteReport
<1> QED
    BY <1>1, Quiet DEF Loaded, OverElements, Idle

\* The elements taken over were computed from what is retained, and that is what
\* the template gives.
LEMMA ReadTemplateRecords ==
    ASSUME RInv, PInv', ReadTemplate
    PROVE  RInv'
<1> DEFINE done == IF resume /\ results # None THEN results ELSE {}
<1> DEFINE v == golden.input[HighZ]
<1>1. /\ pc = "template"
      /\ retained' = [retained EXCEPT ![HighZ] = v]
      /\ UNCHANGED <<env, disk, report, results, resume, at, runs>>
      /\ \/ pc' = "off" /\ UNCHANGED elements
         \/ /\ pc' = "save" /\ done # Torn
            /\ \A n \in Numbers(done) : retained[n] = v
            /\ elements' = done
            /\ mem' = [mem EXCEPT !.inputs =
                        [x \in Workflows \cup Elements |->
                            IF x = HighZ \/ x \in Numbers(done) THEN v ELSE @[x]]]
    BY DEF ReadTemplate
<1>2. /\ TypeOK /\ mem \in Summaries /\ Progress /\ Workflow \in Workflows
      /\ DiskPart /\ MemPart /\ SamePart /\ OwnPart /\ FirstPart /\ NumberPart /\ Loaded
    BY <1>1, LoopFacts
<1>3. Workflow = HighZ /\ HighZ \in Workflows /\ mem.rows[HighZ] = Running
    BY <1>1, <1>2, OrderFacts DEF Progress
<1>4. HighZ \notin Elements
    BY <1>3, MatrixAssumption
<1>5. \A n \in Elements : retained'[n] = retained[n]
    BY <1>1, <1>2, <1>4 DEF TypeOK
<1>6. CASE pc' = "off" /\ UNCHANGED elements
    BY <1>1, <1>5, <1>6, Retired DEF Loaded
<1>7. CASE /\ pc' = "save" /\ done # Torn
           /\ \A n \in Numbers(done) : retained[n] = v
           /\ elements' = done
           /\ mem' = [mem EXCEPT !.inputs =
                        [x \in Workflows \cup Elements |->
                            IF x = HighZ \/ x \in Numbers(done) THEN v ELSE @[x]]]
    <2>1. v \in Versions
        BY <1>2, <1>3 DEF TypeOK
    <2>2. done \subseteq Computations /\ \A c \in done : c.of \in Elements /\ c.of \in Numbers(done)
        BY <1>2, <1>7 DEF TypeOK, NumberPart, Proper, Numbers
    <2>3. ~mem.leftover => \A c \in done : retained[c.of] = c.input
        BY <1>2, <1>7 DEF OwnPart, Proper
    <2>4. ~mem.leftover /\ Proper(results) => results \subseteq done
        BY <1>1, <1>2, <1>3 DEF FirstPart, OverElements, Proper
    <2> HIDE DEF done, v
    <2>5. /\ mem'.rows = mem.rows /\ mem'.leftover = mem.leftover
          /\ \A x \in Workflows \cup Elements :
                /\ x # HighZ /\ x \notin Numbers(done) => mem'.inputs[x] = mem.inputs[x]
                /\ x = HighZ \/ x \in Numbers(done) => mem'.inputs[x] = v
        BY <1>2, <1>7, <2>1, SetInputs
    <2>6. \A x \in Ordinary : x \notin Numbers(done) /\ x # HighZ
        BY <2>2, MatrixAssumption DEF Ordinary, Numbers
    <2>7. Counted(mem)'
        BY <1>3, <2>5 DEF Counted, Running
    <2>8. \A x \in Ordinary : Passed(mem, x)'
        BY <1>1, <1>2, <2>5, <2>6 DEF MemPart, Passed, Ordinary
    <2>9. MemPart'
        BY <2>7, <2>8 DEF MemPart
    <2>10. DiskPart' /\ NumberPart'
        BY <1>1, <1>2, <1>7, <2>2 DEF DiskPart, NumberPart, Counted, Passed
    <2>11. SamePart'
        BY <1>1, <1>2, <1>7, <2>5 DEF SamePart, Idle
    <2>12. OwnPart'
        BY <1>1, <1>2, <1>5, <2>5 DEF OwnPart, NumberPart
    <2>13. ElementPart'
        <3>1. ~mem.leftover =>
                \A c \in done : mem'.inputs[c.of] = c.input /\ retained'[c.of] = c.input
            BY <1>5, <1>7, <2>2, <2>3, <2>5
        <3> QED
            BY <1>1, <1>7, <2>4, <2>5, <3>1 DEF ElementPart
    <2> QED
        BY <1>7, <2>9, <2>10, <2>11, <2>12, <2>13 DEF RInv, ReportPart, FirstPart, OverElements
<1> QED
    BY <1>1, <1>6, <1>7

\* The input of the next element is retained and recorded.
LEMMA PrepareRecords ==
    ASSUME RInv, PInv', PrepareElement
    PROVE  RInv'
<1> DEFINE v == golden.input[HighZ]
<1>1. /\ pc = "element" /\ pc' = "atomic"
      /\ UNCHANGED <<env, disk, report, results, resume, at, elements, runs>>
    BY DEF PrepareElement
<1>2. PICK n \in Missing :
        /\ \A k \in Missing : n <= k
        /\ retained' = [retained EXCEPT ![n] = v]
        /\ mem' = [mem EXCEPT !.inputs[n] = v]
    BY DEF PrepareElement, Missing
<1>3. /\ TypeOK /\ mem \in Summaries /\ Progress /\ Workflow \in Workflows
      /\ DiskPart /\ MemPart /\ SamePart /\ OwnPart /\ ElementPart /\ NumberPart /\ Loaded
    BY <1>1, LoopFacts
<1>4. /\ Workflow = HighZ /\ HighZ \in Workflows /\ mem.rows[HighZ] = Running
      /\ n \in Elements /\ n \notin Workflows /\ n \notin Numbers(elements)
    BY <1>1, <1>3, OrderFacts, MatrixAssumption DEF Progress, Missing
<1>5. v \in Versions
    BY <1>3, <1>4 DEF TypeOK
<1> HIDE DEF v
<1>6. /\ mem'.rows = mem.rows /\ mem'.leftover = mem.leftover
      /\ mem'.inputs = [mem.inputs EXCEPT ![n] = v]
    BY <1>2, <1>3, <1>4, <1>5, SetInput
<1>7. /\ mem.inputs \in [Workflows \cup Elements -> Versions \cup {None}]
      /\ retained \in [Workflows \cup Elements -> Versions \cup {None}]
    BY <1>3 DEF Summaries, TypeOK
<1>8. /\ mem'.inputs[n] = v /\ retained'[n] = v
      /\ \A x \in Workflows \cup Elements : x # n =>
            mem'.inputs[x] = mem.inputs[x] /\ retained'[x] = retained[x]
    BY <1>2, <1>4, <1>6, <1>7
<1>9. \A c \in elements : c.of \in Elements /\ c.of # n
    BY <1>3, <1>4 DEF NumberPart, Numbers
<1>10. Counted(mem)'
    BY <1>4, <1>6 DEF Counted, Running
<1>11. \A x \in Ordinary : Passed(mem, x)'
    <2> SUFFICES ASSUME NEW x \in Ordinary
                 PROVE  Passed(mem, x)'
        OBVIOUS
    <2>1. x # n /\ x \in Workflows \cup Elements
        BY <1>4 DEF Ordinary
    <2>2. Passed(mem, x)
        BY <1>1, <1>3 DEF MemPart
    <2> QED
        BY <1>6, <1>8, <2>1, <2>2 DEF Passed
<1>12. MemPart'
    BY <1>10, <1>11 DEF MemPart
<1>13. DiskPart' /\ NumberPart'
    BY <1>1, <1>3 DEF DiskPart, NumberPart, Counted, Passed
<1>14. SamePart'
    BY <1>1, <1>3, <1>6 DEF SamePart, Idle
<1>15. ~mem.leftover /\ Proper(results) => results \subseteq elements
    BY <1>1, <1>3 DEF ElementPart, OverElements
<1>16. OwnPart'
    <2> SUFFICES ASSUME (Proper(disk) /\ ~disk.leftover) \/ ~mem.leftover, Proper(results),
                        NEW c \in results
                 PROVE  retained'[c.of] = c.input
        BY <1>1, <1>6 DEF OwnPart
    <2>1. ~mem.leftover
        BY <1>1, <1>3 DEF SamePart, Idle
    <2>2. retained[c.of] = c.input
        BY <1>3, <2>1 DEF OwnPart
    <2> QED
        BY <1>8, <1>9, <1>15, <2>1, <2>2
<1>17. Missing' = Missing
    BY <1>1 DEF Missing, Numbers
<1>18. \A m \in Missing : (\A k \in Missing : m <= k) => m = n
    <2> SUFFICES ASSUME NEW m \in Missing, \A k \in Missing : m <= k
                 PROVE  m = n
        OBVIOUS
    <2>1. m <= n /\ n <= m /\ m \in Nat /\ n \in Nat
        BY <1>2, MatrixAssumption DEF Missing
    <2> QED
        BY <2>1
<1>19. ElementPart'
    <2>1. ~mem.leftover => \A c \in elements : mem.inputs[c.of] = c.input /\ retained[c.of] = c.input
        BY <1>1, <1>3 DEF ElementPart, OverElements
    <2>2. ~mem.leftover =>
            \A c \in elements : mem'.inputs[c.of] = c.input /\ retained'[c.of] = c.input
        BY <1>8, <1>9, <2>1
    <2>3. \A m \in Missing : (\A k \in Missing : m <= k) => mem'.inputs[m] = retained'[m]
        BY <1>8, <1>18
    <2> QED
        BY <1>1, <1>6, <1>15, <1>17, <2>2, <2>3 DEF ElementPart
<1> QED
    BY <1>1, <1>12, <1>13, <1>14, <1>16, <1>19 DEF RInv, ReportPart, FirstPart, OverElements

\* The element is computed from it.
LEMMA RunElementRecords ==
    ASSUME RInv, PInv', NEW ok \in BOOLEAN, RunElement(ok)
    PROVE  RInv'
<1>1. /\ pc = "atomic" /\ pc' = "report"
      /\ UNCHANGED <<env, disk, report, results, retained, resume, at, mem, runs>>
    BY DEF RunElement
<1>2. PICK n \in Missing :
        /\ \A k \in Missing : n <= k
        /\ elements' = elements \cup {[of |-> n, input |-> mem.inputs[n], binary |-> binary,
                                       ok |-> ok]}
    BY DEF RunElement, Missing
<1>3. /\ TypeOK /\ DiskPart /\ MemPart /\ SamePart /\ OwnPart /\ ElementPart /\ NumberPart /\ Loaded
    BY <1>1, LoopFacts
<1> DEFINE new == [of |-> n, input |-> mem.inputs[n], binary |-> binary, ok |-> ok]
<1>4. new.of = n /\ new.input = mem.inputs[n] /\ n \in Elements
    BY DEF Missing
<1>5. elements' = elements \cup {new}
    BY <1>2
<1> HIDE DEF new
<1>6. DiskPart' /\ MemPart' /\ SamePart' /\ OwnPart'
    BY <1>1, <1>3 DEF DiskPart, MemPart, SamePart, OwnPart, Counted, Passed, Loaded, Idle
<1>7. NumberPart'
    BY <1>1, <1>3, <1>4, <1>5 DEF NumberPart
<1>8. ElementPart'
    <2> SUFFICES ASSUME ~mem.leftover
                 PROVE  /\ Proper(results) => results \subseteq elements'
                        /\ \A c \in elements' : mem.inputs[c.of] = c.input /\ retained[c.of] = c.input
        BY <1>1 DEF ElementPart
    <2>1. /\ Proper(results) => results \subseteq elements
          /\ \A c \in elements : mem.inputs[c.of] = c.input /\ retained[c.of] = c.input
          /\ mem.inputs[n] = retained[n]
        BY <1>1, <1>2, <1>3 DEF ElementPart, OverElements
    <2> QED
        BY <1>4, <1>5, <2>1
<1> QED
    BY <1>1, <1>6, <1>7, <1>8 DEF RInv, ReportPart, FirstPart, OverElements

\* HIGHZ's verdict counts the elements in memory.
LEMMA JudgeRecords ==
    ASSUME RInv, PInv', Judge
    PROVE  RInv'
<1> DEFINE v == [status |-> IF \A c \in elements : c.ok THEN "pass" ELSE "fail",
                 from   |-> elements]
<1>1. /\ pc = "element" /\ pc' = "verdict"
      /\ mem' = [mem EXCEPT !.rows[HighZ] = v]
      /\ UNCHANGED <<env, disk, report, results, retained, resume, at, elements, runs>>
    BY DEF Judge
<1>2. /\ TypeOK /\ mem \in Summaries /\ HighZ \in Workflows
      /\ DiskPart /\ MemPart /\ SamePart /\ OwnPart /\ ElementPart /\ NumberPart /\ Loaded
    BY <1>1, LoopFacts, OrderFacts
<1>3. v \in Verdicts /\ v.from = elements /\ v.status \in {"pass", "fail"}
    BY <1>2 DEF Verdicts, TypeOK
<1> HIDE DEF v
<1>4. /\ mem'.rows = [mem.rows EXCEPT ![HighZ] = v]
      /\ mem'.inputs = mem.inputs /\ mem'.leftover = mem.leftover
    BY <1>1, <1>2, <1>3, SetRow
<1>5. mem.rows \in [Workflows -> Verdicts \cup {None}]
    BY <1>2 DEF Summaries
<1>6. mem'.rows[HighZ] = v /\ \A x \in Ordinary : mem'.rows[x] = mem.rows[x]
    BY <1>2, <1>4, <1>5 DEF Ordinary
<1>7. Counted(mem)'
    BY <1>1, <1>2, <1>3, <1>4, <1>6 DEF ElementPart, OverElements, Counted
<1>8. MemPart'
    BY <1>1, <1>2, <1>4, <1>6, <1>7 DEF MemPart, Passed
<1>9. DiskPart' /\ SamePart' /\ OwnPart' /\ NumberPart'
    BY <1>1, <1>2, <1>4 DEF DiskPart, SamePart, OwnPart, NumberPart, Counted, Passed, Loaded, Idle
<1>10. FirstPart'
    BY <1>3, <1>6, NothingAssumption DEF FirstPart, Running
<1> QED
    BY <1>1, <1>8, <1>9, <1>10 DEF RInv, ReportPart, ElementPart, OverElements

\* The end saves what is in memory, or nothing.
LEMMA EndRecords ==
    ASSUME RInv, PInv', Finish \/ Kill
    PROVE  RInv'
<1>1. CASE Finish /\ disk' = mem'
    <2>1. /\ pc = "next" /\ pc' = "off"
          /\ UNCHANGED <<env, report, results, retained, resume, at, elements, runs>>
        BY <1>1 DEF Finish
    <2>2. /\ mem \in Summaries /\ MemPart /\ OwnPart /\ NumberPart /\ Loaded
        BY <2>1, LoopFacts
    <2>3. mem'.rows = mem.rows /\ mem'.inputs = mem.inputs /\ mem'.leftover = mem.leftover
        BY <1>1, <2>2 DEF Finish, Summaries
    <2>4. DiskPart'
        BY <1>1, <2>1, <2>2, <2>3 DEF DiskPart, MemPart, Counted, Passed
    <2>5. OwnPart' /\ NumberPart'
        BY <1>1, <2>1, <2>2, <2>3 DEF OwnPart, NumberPart, Loaded
    <2> QED
        BY <2>1, <2>4, <2>5
            DEF RInv, Loaded, MemPart, ReportPart, SamePart, ElementPart, FirstPart, OverElements, Idle
<1>2. CASE (Finish /\ disk' = disk) \/ Kill
    <2>1. /\ pc' = "off" /\ disk' \in {disk, Torn} /\ results' \in {results, Torn}
          /\ retained' = retained /\ elements' \in {elements, {}}
        BY <1>2 DEF Finish, Kill
    <2> QED
        BY <2>1, Retired DEF Loaded
<1> QED
    BY <1>1, <1>2 DEF Finish

\* The invariant with what the summaries record.
THEOREM RecordInvariant == Spec => []RInv
<1>1. Init => RInv
    <2> SUFFICES ASSUME Init
                 PROVE  RInv
        OBVIOUS
    <2>1. PInv
        BY InitInv
    <2>2. pc = "off" /\ disk = None /\ results = None /\ elements = {}
        BY DEF Init
    <2> QED
        BY <2>1, <2>2 DEF RInv, DiskPart, MemPart, ReportPart, SamePart, OwnPart, ElementPart,
            FirstPart, NumberPart, Proper, Loaded, OverElements, Idle
<1>2. RInv /\ PInv' /\ [Next]_vars => RInv'
    <2> SUFFICES ASSUME RInv, PInv', [Next]_vars
                 PROVE  RInv'
        OBVIOUS
    <2>1. CASE UNCHANGED vars
        BY <2>1, StillRecords DEF vars
    <2>2. CASE Outside
        BY <2>2, StillRecords DEF Outside
    <2>3. CASE \/ Build \/ ReadCommit \/ HashBinary \/ Enter \/ ReadManifest \/ Rebuild
               \/ \E again \in BOOLEAN : Start(again)
               \/ \E status \in {"fail", "timeout"} : RebuildFails(status)
               \/ \E status \in {"pass", "fail", "timeout"} : Compare(status)
        BY <2>3, StartRecords, ReadCommitRecords, HashBinaryRecords, EnterRecords, QuietRecords,
            CompareRecords
    <2>4. CASE \/ RetainInputs \/ SaveVerdict \/ ReadTemplate \/ PrepareElement
               \/ \E ok \in BOOLEAN : RunElement(ok)
               \/ WriteReport \/ SaveProgress \/ Judge \/ Finish \/ Kill
        BY <2>4, RetainRecords, SaveRecords, ReadTemplateRecords, PrepareRecords,
            RunElementRecords, JudgeRecords, EndRecords
    <2> QED
        BY <2>1, <2>2, <2>3, <2>4 DEF Next
<1> QED
    BY <1>1, <1>2, MatrixInvariant, PTL DEF Spec

\* run-parity-matrix.py, retain_input: the inputs a summary records are those its
\* verdicts rest on, over edits, kills and resumes; for HIGHZ as long as the matrix
\* did not find elements of an earlier one.
THEOREM VerdictsAreRecorded == Spec => []VerdictsMatchRecord
<1>1. RInv => VerdictsMatchRecord
    BY DEF RInv, DiskPart, Counted, Passed, VerdictsMatchRecord, Proper, Ordinary
<1> QED
    BY <1>1, RecordInvariant, PTL
=============================================================================
