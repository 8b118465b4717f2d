---------------------------- MODULE RixsEdgesProofs ----------------------------
(***************************************************************************)
(* Theorems about RDINP and the RIXS workflow, for any versions of the     *)
(* input and any published files.                                          *)
(*                                                                         *)
(* RdinpInv says how far the hand-offs are those of the parsed version; it *)
(* gives the refinement of HandoffDirectory.  EdgesInv says where the      *)
(* results of a preparation are at each of its steps: in the               *)
(* subdirectories, under temporary names, or published.                    *)
(***************************************************************************)
EXTENDS RixsEdges, SequenceTheorems, TLAPS

\* The hand-offs are those of the parsed version, but for what is to be done.
RdinpInv ==
    /\ input \in Versions
    /\ files \in [Files -> Versions \cup {None, Torn}]
    /\ sentinel \in BOOLEAN
    /\ rd \in {"idle", "parse", "write", "unlink"}
    /\ todo \subseteq Files
    /\ open \in Files \cup {None}
    /\ rd # "idle" => sentinel
    /\ parsed \in Accepted \cup {None}
    /\ rd \in {"write", "unlink"} => parsed \in Accepted
    /\ rd = "write" => \A f \in Outputs[parsed] \ todo : files[f] = parsed
    /\ rd = "unlink" => \A f \in Outputs[parsed] : files[f] = parsed
    /\ rd # "write" => open = None

-----------------------------------------------------------------------------
(* RDINP. *)

\* What the assumption says of the hand-offs.
LEMMA HandoffFacts ==
    /\ \A v \in Accepted : v \in Versions /\ v # None /\ Outputs[v] \subseteq Files
    /\ \A v \in Accepted : Common \in Outputs[v]
BY RdinpAssumption

\* RDINP keeps its invariant, whoever edits the input.
LEMMA RdinpStepInv ==
    ASSUME RdinpInv, [RdinpNext]_rdinpVars
    PROVE  RdinpInv'
<1> USE DEF RdinpInv
<1>1. CASE Begin
    BY <1>1 DEF Begin
<1>2. CASE Parse
    BY <1>2, HandoffFacts DEF Parse
<1>3. ASSUME NEW f \in Files, Open(f)
      PROVE  RdinpInv'
    BY <1>3, HandoffFacts DEF Open
<1>4. CASE Fill
    <2>1. files' \in [Files -> Versions \cup {None, Torn}]
        BY <1>4, HandoffFacts DEF Fill
    <2>2. \A f \in Outputs[parsed] \ todo' : files'[f] = parsed
        BY <1>4, HandoffFacts DEF Fill
    <2> QED
        BY <1>4, <2>1, <2>2 DEF Fill
<1>5. CASE Written
    BY <1>5 DEF Written, LastWrite
<1>6. CASE Unlink
    BY <1>6 DEF Unlink
<1>7. CASE StopRdinp
    BY <1>7 DEF StopRdinp
<1>8. CASE Edit
    BY <1>8 DEF Edit
<1>9. CASE UNCHANGED rdinpVars
    BY <1>9 DEF rdinpVars
<1> QED
    BY <1>1, <1>2, <1>3, <1>4, <1>5, <1>6, <1>7, <1>8, <1>9 DEF RdinpNext, RdinpStep

\* Nothing of the hand-offs changes without the sentinel.
LEMMA HandoffStep ==
    ASSUME RdinpInv, [RdinpNext]_rdinpVars
    PROVE  [Directory!Next]_(IF sentinel THEN Dirty ELSE Whole)
<1> USE DEF RdinpInv
<1> DEFINE content == IF sentinel THEN Dirty ELSE Whole
<1>1. CASE Begin
    <2>1. sentinel'
        BY <1>1 DEF Begin
    <2> QED
        BY <2>1 DEF Directory!Next, Directory!Soil
<1>2. CASE Unlink
    <2>1. ~sentinel' /\ files' = files /\ sentinel /\ parsed \in Accepted
          /\ \A f \in Outputs[parsed] : files[f] = parsed
        BY <1>2 DEF Unlink
    <2>2. Whole' = {parsed}
        BY <2>1, HandoffFacts DEF Whole
    <2> QED
        BY <2>1, <2>2 DEF Directory!Next, Directory!Settle
<1>3. CASE rd # "idle" /\ ~Unlink /\ ~Begin /\ RdinpNext
    <2>1. sentinel' = sentinel
        <3>1. Parse \/ (\E f \in Files : Open(f)) \/ Fill \/ Written \/ StopRdinp \/ Edit
            BY <1>3, Zenon DEF RdinpNext, RdinpStep
        <3> QED
            BY <3>1 DEF Parse, Open, Fill, Written, StopRdinp, Edit
    <2>2. sentinel
        BY <1>3
    <2> QED
        BY <2>1, <2>2
<1>4. CASE rd = "idle" /\ ~Begin /\ RdinpNext
    <2>1. files' = files /\ sentinel' = sentinel
        BY <1>4 DEF RdinpNext, RdinpStep, Parse, Open, Fill, Written, Unlink, StopRdinp, Edit
    <2> QED
        BY <2>1 DEF Whole
<1>5. CASE UNCHANGED rdinpVars
    BY <1>5 DEF rdinpVars, Whole
<1> QED
    BY <1>1, <1>2, <1>3, <1>4, <1>5

-----------------------------------------------------------------------------
(* The order of publication. *)

Last == 2 * Len(Kinds) + 1

\* Every file is published once, both edges have every kind but the last.
LEMMA PublishedFacts ==
    /\ Last \in Nat /\ Last >= 3
    /\ DOMAIN Published = 1 .. Last /\ Len(Published) = Last
    /\ \A i, j \in 1 .. Last : Published[i] = Published[j] => i = j
    /\ \A i \in 1 .. Last : Published[i].edge \in 1 .. 2
<1> DEFINE file(i) ==
        IF i > 2 * Len(Kinds) THEN [kind |-> Xsect, edge |-> 2]
        ELSE [kind |-> Kinds[(i + 1) \div 2], edge |-> IF i % 2 = 1 THEN 1 ELSE 2]
<1>1. Len(Kinds) \in Nat \ {0} /\ Last \in Nat /\ Last >= 3
    BY KindsAssumption DEF Last
<1>2. Published = [i \in 1 .. Last |-> file(i)]
    BY DEF Published, Last
<1>3. DOMAIN Published = 1 .. Last /\ \A i \in 1 .. Last : Published[i] = file(i)
    BY <1>2
<1>4. Len(Published) = Last
    <2> DEFINE S == {file(i) : i \in 1 .. Last}
    <2>1. Published \in [1 .. Last -> S]
        BY <1>2
    <2> HIDE DEF S
    <2>2. Published \in Seq(S)
        BY <1>1, <2>1, SeqDef
    <2>3. DOMAIN Published = 1 .. Len(Published) /\ Len(Published) \in Nat
        BY <2>2, LenProperties
    <2> QED
        BY <1>1, <1>3, <2>3
<1>5. ASSUME NEW i \in 1 .. Last, NEW j \in 1 .. Last, file(i) = file(j)
      PROVE  i = j
    <2>1. file(i).kind = file(j).kind /\ file(i).edge = file(j).edge
        BY <1>5
    <2>2. \A n \in 1 .. Last : n <= 2 * Len(Kinds) => (n + 1) \div 2 \in 1 .. Len(Kinds)
        BY <1>1 DEF Last
    <2>3. CASE i > 2 * Len(Kinds) \/ j > 2 * Len(Kinds)
        <3>1. i > 2 * Len(Kinds) /\ j > 2 * Len(Kinds)
            BY <1>1, <2>1, <2>2, <2>3, KindsAssumption
        <3> QED
            BY <1>1, <3>1 DEF Last
    <2>4. CASE i <= 2 * Len(Kinds) /\ j <= 2 * Len(Kinds)
        <3>1. (i + 1) \div 2 = (j + 1) \div 2
            <4>1. Kinds[(i + 1) \div 2] = Kinds[(j + 1) \div 2]
                BY <1>1, <2>1, <2>4
            <4> QED
                BY <2>2, <2>4, <4>1, KindsAssumption
        <3>2. i % 2 = 1 <=> j % 2 = 1
            BY <1>1, <2>1, <2>4
        <3> QED
            BY <1>1, <3>1, <3>2
    <2> QED
        BY <1>1, <2>3, <2>4
<1>6. \A i \in 1 .. Last : file(i).edge \in 1 .. 2
    BY <1>1
<1> HIDE DEF file
<1> QED
    BY <1>1, <1>3, <1>4, <1>5, <1>6

\* Names and kinds of the published files.
LEMMA NameFacts ==
    /\ \A n \in Names : n.kind \in AllKinds /\ n.edge \in 1 .. 2
    /\ \A n \in Names : \E i \in 1 .. Last : n = Published[i]
    /\ \A i \in 1 .. Last : Published[i] \in Names
    /\ \A k \in AllKinds : \E n \in Names : n.kind = k
    /\ Xsect \in AllKinds
<1>1. /\ \A n \in Names : \E i \in 1 .. Last : n = Published[i]
      /\ \A i \in 1 .. Last : Published[i] \in Names
    BY PublishedFacts DEF Names
<1>2. \A n \in Names : n.kind \in AllKinds /\ n.edge \in 1 .. 2
    BY <1>1, PublishedFacts DEF AllKinds
<1>3. Published[Last].kind = Xsect /\ Last \in 1 .. Last
    BY PublishedFacts, KindsAssumption DEF Published, Last
<1> QED
    BY <1>1, <1>2, <1>3 DEF AllKinds

-----------------------------------------------------------------------------
(* The invariant of the workflow. *)

Steps == {"idle", "rdinp", "prepare", "edge", "poles", "copy", "publish", "stages", "solve",
          "write"}

Spectra ==
    [pair : SUBSET [kind : AllKinds, of : Accepted], shared : BOOLEAN, checked : BOOLEAN]

\* The types of the workflow's own variables.
EdgeTypes ==
    /\ pc \in Steps
    /\ full \in BOOLEAN
    /\ checked \in BOOLEAN
    /\ source \in Versions \cup {None}
    /\ at \in 1 .. Last
    /\ dirs \in [1 .. 2 -> [AllKinds -> Accepted \cup {None}]]
    /\ staged \in [Names -> Accepted \cup {None}]
    /\ pair \in [Names -> Accepted \cup {None}]
    /\ poles \in Accepted \cup {None}
    /\ shared \in Accepted \cup {None}
    /\ out \in 1 .. SpectrumFiles
    /\ spectrum \in [1 .. SpectrumFiles -> {None, Torn} \cup Spectra]

\* Behind RDINP a full run has the hand-offs of an accepted version.
BehindRdinp ==
    /\ pc = "rdinp" <=> rd # "idle"
    /\ pc = "idle" => ~full
    /\ pc \in {"prepare", "edge", "poles", "copy", "publish", "stages"} => full
    /\ pc \in Steps \ {"idle", "rdinp"} /\ full => files[RixsInp] \in Accepted

\* A result of a pipeline over the present source, if it writes that file.
FromSource(n, v) == v # None /\ (n.kind \in Makes[source] => v = source)

EdgeDone(e) == \A k \in Makes[source] : dirs[e][k] = source

\* Where the results of the preparation are.
Progress ==
    /\ pc \in {"poles", "copy", "publish"} => source \in Accepted
    /\ pc \in {"edge", "poles", "copy"} => Present = {}
    /\ pc = "edge" => at \in 1 .. 2
    /\ pc = "edge" /\ at = 2 => source \in Accepted /\ EdgeDone(1)
    /\ pc = "poles" => at = 1
    /\ pc \in {"poles", "copy"} =>
        /\ EdgeDone(1) /\ EdgeDone(2)
        /\ \A n \in Names : dirs[n.edge][n.kind] # None
    /\ pc = "copy" => \A i \in 1 .. at - 1 : FromSource(Published[i], staged[Published[i]])
    /\ pc = "publish" =>
        /\ \A i \in 1 .. at - 1 : FromSource(Published[i], pair[Published[i]])
        /\ \A i \in at .. Last :
            pair[Published[i]] = None /\ FromSource(Published[i], staged[Published[i]])

\* The published files are of one preparation.
OfOne(v) == \A n \in Present : n.kind \in Makes[v] => pair[n] = v
OnePair == Present = {} \/ \E v \in Accepted : OfOne(v)

\* What a run that made the checks comes to the solver with; what the solver
\* has read stays there while it writes.
ReadyToSolve ==
    /\ pc \in {"stages", "solve", "write"} /\ checked =>
        files[RixsInp] \notin Enabled \/ Present = Names \/ Present = {}
    /\ pc \in {"idle", "rdinp", "prepare"} => ~checked
    /\ pc = "write" => Solvable

\* What a spectrum was computed from, by a run that made the checks.
Single(s) ==
    s.checked =>
        \/ s.pair = {}
        \/ /\ ~s.shared
           /\ \E v \in Accepted : \A r \in s.pair : r.kind \in Makes[v] => r.of = v

EdgesInv ==
    RdinpInv /\ EdgeTypes /\ BehindRdinp /\ Progress /\ OnePair /\ ReadyToSolve
    /\ SolvedFromOnePair

-----------------------------------------------------------------------------
(* The steps. *)

\* Every step of the workflow is a step of RDINP or leaves its files alone.
LEMMA RdinpPart == [Next]_vars => [RdinpNext]_rdinpVars
BY DEF Next, vars, rdinpVars, RdinpNext, StartRun, StartSolver, TranslateInput, Prepare,
    RunEdge, StopEdge, WritePoles, Copy, Publish, RunStages, Solve, WriteSpectrum, Derive, Keep,
    Stop, StopWriting, Clear, EditInput

\* The assumption on the versions.
LEMMA VersionFacts ==
    /\ Enabled \subseteq Accepted /\ ReadPoles \subseteq Accepted
    /\ \A v \in Accepted : RixsInp \in Outputs[v] /\ Makes[v] \subseteq AllKinds
    /\ RixsInp \in Files
    /\ None \notin Accepted
    /\ SpectrumFiles \in Nat \ {0}
BY RixsAssumption, MakesAssumption, RdinpAssumption

\* Steps that change neither the published files nor the spectrum.
LEMMA PairsKept ==
    ASSUME EdgesInv, pair' = pair, spectrum' = spectrum
    PROVE  Present' = Present /\ OnePair' /\ SolvedFromOnePair'
BY DEF EdgesInv, Present, OnePair, OfOne, SolvedFromOnePair, Missing

\* A run is started, or the input edited.
LEMMA OutsideStep ==
    ASSUME EdgesInv, StartRun \/ StartSolver \/ EditInput
    PROVE  EdgesInv'
<1> USE DEF EdgesInv
<1>1. RdinpInv'
    BY RdinpStepInv DEF StartRun, StartSolver, EditInput, RdinpNext
<1>2. Present' = Present /\ OnePair' /\ SolvedFromOnePair'
    BY PairsKept DEF StartRun, StartSolver, EditInput, rixsVars, runVars
<1>3. CASE StartRun
    <2>1. EdgeTypes' /\ BehindRdinp'
        BY <1>3 DEF StartRun, Begin, EdgeTypes, BehindRdinp, Steps
    <2>2. Progress' /\ ReadyToSolve'
        BY <1>3 DEF StartRun, Progress, ReadyToSolve
    <2> QED
        BY <1>1, <1>2, <2>1, <2>2
<1>4. CASE StartSolver
    <2>1. EdgeTypes' /\ BehindRdinp'
        BY <1>4 DEF StartSolver, rdinpVars, runVars, EdgeTypes, BehindRdinp, Steps
    <2>2. Progress' /\ ReadyToSolve'
        BY <1>4 DEF StartSolver, runVars, Progress, ReadyToSolve
    <2> QED
        BY <1>1, <1>2, <2>1, <2>2
<1>5. CASE EditInput
    <2>1. EdgeTypes' /\ BehindRdinp'
        BY <1>5 DEF EditInput, Edit, rixsVars, EdgeTypes, BehindRdinp
    <2>2. Progress' /\ ReadyToSolve'
        BY <1>2, <1>5 DEF EditInput, Edit, rixsVars, Progress, ReadyToSolve, EdgeDone,
            FromSource, Solvable, Resolved, Explicit, Requested
    <2> QED
        BY <1>1, <1>2, <2>1, <2>2
<1> QED
    BY <1>3, <1>4, <1>5

\* RDINP goes on, and with its end a full run goes on to the preparation.
LEMMA TranslateStep ==
    ASSUME EdgesInv, TranslateInput
    PROVE  EdgesInv'
<1> USE DEF EdgesInv
<1>1. RdinpInv'
    BY RdinpStepInv DEF TranslateInput, RdinpNext
<1>2. Present' = Present /\ OnePair' /\ SolvedFromOnePair'
    BY PairsKept DEF TranslateInput
<1>3. /\ pc' \in {"rdinp", "prepare", "idle"} /\ (pc' # "idle" => full' = full)
      /\ pc' = "idle" => ~full'
      /\ ~checked'
    BY DEF TranslateInput, Ended, runVars, ReadyToSolve
<1>4. pc' = "rdinp" <=> rd' # "idle"
    BY <1>1 DEF TranslateInput, RdinpInv, Ended, runVars, BehindRdinp
<1>5. ASSUME pc' = "prepare"
      PROVE  full' /\ files'[RixsInp] \in Accepted
    <2>1. rd = "unlink" /\ ~sentinel' /\ full /\ rd' = "idle" /\ sentinel
        BY <1>5 DEF TranslateInput, RdinpInv, Ended, runVars
    <2>2. files' = files
        BY <2>1 DEF TranslateInput, RdinpStep, Parse, Open, Fill, Written, Unlink, StopRdinp
    <2> QED
        BY <1>3, <1>5, <2>1, <2>2, VersionFacts DEF RdinpInv
<1>6. EdgeTypes'
    <2>1. 1 \in 1 .. Last /\ 1 \in 1 .. SpectrumFiles
        BY PublishedFacts, VersionFacts
    <2>2. /\ dirs' = dirs /\ staged' = staged /\ pair' = pair /\ poles' = poles
          /\ shared' = shared /\ spectrum' = spectrum
          /\ Ended \/ UNCHANGED runVars
        BY DEF TranslateInput
    <2>3. CASE Ended
        BY <1>3, <2>1, <2>2, <2>3 DEF Ended, EdgeTypes, Steps
    <2>4. CASE UNCHANGED runVars
        BY <1>3, <2>2, <2>4 DEF runVars, EdgeTypes, Steps
    <2> QED
        BY <2>2, <2>3, <2>4
<1>7. BehindRdinp'
    BY <1>3, <1>4, <1>5 DEF BehindRdinp, Steps
<1>8. Progress' /\ ReadyToSolve'
    BY <1>3 DEF Progress, ReadyToSolve
<1> QED
    BY <1>1, <1>2, <1>6, <1>7, <1>8

\* What an ended run leaves behind.
LEMMA EndedStep ==
    ASSUME EdgesInv, Ended, UNCHANGED rdinpVars, OnePair', SolvedFromOnePair',
           dirs' \in [1 .. 2 -> [AllKinds -> Accepted \cup {None}]],
           staged' = staged, pair' = pair, poles' = poles, shared' = shared,
           spectrum' \in [1 .. SpectrumFiles -> {None, Torn} \cup Spectra],
           pc # "rdinp"
    PROVE  EdgesInv'
<1> USE DEF EdgesInv, Ended
<1>1. RdinpInv' /\ files' = files /\ rd' = rd
    BY RdinpStepInv DEF EdgesInv, rdinpVars
<1>2. EdgeTypes'
    <2>1. 1 \in 1 .. Last /\ 1 \in 1 .. SpectrumFiles
        BY PublishedFacts, VersionFacts
    <2> QED
        BY <2>1 DEF EdgeTypes, Steps
<1>3. BehindRdinp' /\ Progress' /\ ReadyToSolve'
    BY <1>1 DEF BehindRdinp, Progress, ReadyToSolve, Steps
<1> QED
    BY <1>1, <1>2, <1>3

\* Any step after RDINP leaves the hand-offs and the input alone.
LEMMA BehindStep ==
    ASSUME EdgesInv, UNCHANGED rdinpVars
    PROVE  RdinpInv' /\ files' = files /\ rd' = rd
BY RdinpStepInv DEF EdgesInv, rdinpVars

\* The checks of the preparation.
LEMMA PrepareStep ==
    ASSUME EdgesInv, Prepare
    PROVE  EdgesInv'
<1> USE DEF EdgesInv
<1>1. RdinpInv' /\ files' = files /\ rd' = rd
    BY BehindStep DEF Prepare
<1>2. Present' = Present /\ OnePair' /\ SolvedFromOnePair'
    BY PairsKept DEF Prepare
<1>3. pc = "prepare" /\ full /\ dirs' = dirs /\ staged' = staged /\ spectrum' = spectrum
    BY DEF Prepare, BehindRdinp
<1>4. CASE Ended
    BY <1>2, <1>3, <1>4, EndedStep DEF Prepare, EdgeTypes
<1>5. CASE ~Ended
    <2>1. full' = full /\ out' = out /\ pc' \in {"stages", "edge"} /\ checked' \in BOOLEAN
        BY <1>5 DEF Prepare
    <2>2. at' \in 1 .. Last /\ source' \in Versions \cup {None}
        BY <1>5, PublishedFacts DEF Prepare, EdgeTypes, RdinpInv
    <2>3. EdgeTypes' /\ BehindRdinp'
        BY <1>1, <1>3, <2>1, <2>2 DEF Prepare, EdgeTypes, BehindRdinp, Steps
    <2>4. Progress'
        <3>1. pc' = "edge" => Present = {} /\ at' = 1
            BY <1>5, <2>1 DEF Prepare, NothingToPrepare, Refused
        <3> QED
            BY <1>2, <2>1, <3>1 DEF Progress
    <2>5. ReadyToSolve'
        <3>1. pc' = "stages" => NothingToPrepare /\ (checked' <=> spectrum[1] = None)
            BY <1>5, <2>1 DEF Prepare
        <3> QED
            BY <1>1, <1>2, <2>1, <3>1 DEF ReadyToSolve, NothingToPrepare, Requested
    <2> QED
        BY <1>1, <1>2, <2>3, <2>4, <2>5
<1> QED
    BY <1>4, <1>5

\* The pipeline of an edge is done.
LEMMA RunEdgeStep ==
    ASSUME EdgesInv, RunEdge
    PROVE  EdgesInv'
<1> USE DEF EdgesInv
<1>1. RdinpInv' /\ files' = files /\ rd' = rd
    BY BehindStep DEF RunEdge
<1>2. Present' = Present /\ OnePair' /\ SolvedFromOnePair'
    BY PairsKept DEF RunEdge
<1>3. /\ pc = "edge" /\ full' = full /\ full /\ checked' = checked /\ pc' \in {"edge", "poles"}
      /\ source \in Accepted /\ source' = source /\ at \in 1 .. 2
    BY DEF RunEdge, BehindRdinp, Progress
<1>4. /\ EdgeResult(at) \in [AllKinds -> Accepted \cup {None}]
      /\ \A k \in Makes[source] : EdgeResult(at)[k] = source
    BY <1>3, VersionFacts DEF EdgeResult, EdgeTypes
<1>5. /\ dirs' \in [1 .. 2 -> [AllKinds -> Accepted \cup {None}]]
      /\ dirs'[at] = EdgeResult(at)
      /\ \A e \in 1 .. 2 : e # at => dirs'[e] = dirs[e]
    BY <1>3, <1>4 DEF RunEdge, EdgeTypes
<1>6. at' \in 1 .. 2 /\ at' \in 1 .. Last
    BY <1>3, PublishedFacts DEF RunEdge
<1>7. EdgeTypes' /\ BehindRdinp'
    BY <1>1, <1>3, <1>5, <1>6 DEF RunEdge, EdgeTypes, BehindRdinp, Steps
<1>8. Progress'
    <2>1. CASE at = 1
        <3>1. pc' = "edge" /\ at' = 2
            BY <1>3, <2>1 DEF RunEdge
        <3>2. EdgeDone(1)'
            BY <1>3, <1>4, <1>5, <2>1 DEF EdgeDone
        <3> QED
            BY <1>2, <1>3, <3>1, <3>2 DEF Progress
    <2>2. CASE at = 2
        <3>1. pc' = "poles" /\ at' = 1 /\ \A n \in Names : dirs'[n.edge][n.kind] # None
            BY <1>3, <2>2 DEF RunEdge
        <3>2. EdgeDone(1) /\ Present = {}
            BY <1>3, <2>2 DEF Progress
        <3>3. EdgeDone(1)' /\ EdgeDone(2)'
            BY <1>3, <1>4, <1>5, <2>2, <3>2 DEF EdgeDone
        <3> QED
            BY <1>2, <1>3, <3>1, <3>2, <3>3 DEF Progress
    <2> QED
        BY <1>3, <2>1, <2>2
<1>9. ReadyToSolve'
    BY <1>3 DEF ReadyToSolve
<1> QED
    BY <1>1, <1>2, <1>7, <1>8, <1>9

\* A run ends, in the pipeline of an edge or elsewhere.
LEMMA StopStep ==
    ASSUME EdgesInv, StopEdge \/ Stop \/ Keep
    PROVE  EdgesInv'
<1> USE DEF EdgesInv
<1>1. OnePair' /\ SolvedFromOnePair'
    BY PairsKept DEF StopEdge, Stop, Keep
<1>2. dirs' \in [1 .. 2 -> [AllKinds -> Accepted \cup {None}]]
    <2>1. CASE Stop \/ Keep
        BY <2>1 DEF Stop, Keep, EdgeTypes
    <2>2. CASE StopEdge
        <3>1. PICK done \in IF source \in Accepted THEN SUBSET Makes[source] ELSE {{}} :
                dirs' = [dirs EXCEPT ![at] =
                            [k \in AllKinds |-> IF k \in done THEN source ELSE dirs[at][k]]]
            BY <2>2 DEF StopEdge
        <3>2. at \in 1 .. 2
            BY <2>2 DEF StopEdge, Progress
        <3>3. \A k \in AllKinds : k \in done => source \in Accepted
            BY <3>1
        <3>4. [k \in AllKinds |-> IF k \in done THEN source ELSE dirs[at][k]]
                \in [AllKinds -> Accepted \cup {None}]
            BY <3>2, <3>3 DEF EdgeTypes
        <3> QED
            BY <3>1, <3>2, <3>4 DEF EdgeTypes
    <2> QED
        BY <2>1, <2>2
<1>3. Ended /\ UNCHANGED rdinpVars /\ pc # "rdinp" /\ staged' = staged /\ pair' = pair
      /\ poles' = poles /\ shared' = shared /\ spectrum' = spectrum
    BY DEF StopEdge, Stop, Keep
<1> QED
    BY <1>1, <1>2, <1>3, EndedStep DEF EdgeTypes

\* edges.dat.
LEMMA PolesStep ==
    ASSUME EdgesInv, WritePoles
    PROVE  EdgesInv'
<1> USE DEF EdgesInv
<1>1. RdinpInv' /\ files' = files /\ rd' = rd
    BY BehindStep DEF WritePoles
<1>2. Present' = Present /\ OnePair' /\ SolvedFromOnePair'
    BY PairsKept DEF WritePoles
<1>3. pc = "poles" /\ pc' = "copy" /\ full' = full /\ at' = at
      /\ source' = source /\ dirs' = dirs
      /\ checked' = checked /\ out' = out /\ staged' = staged /\ pair' = pair
      /\ shared' = shared /\ spectrum' = spectrum
    BY DEF WritePoles, runVars
<1>4. dirs[1][Xsect] \in Accepted \cup {None}
    BY NameFacts DEF EdgeTypes
<1>5. EdgeTypes' /\ BehindRdinp'
    BY <1>1, <1>3, <1>4 DEF WritePoles, EdgeTypes, BehindRdinp, Steps
<1>6. at = 1
    BY <1>3 DEF Progress
<1>7. \A i \in 1 .. at' - 1 : FALSE
    BY <1>3, <1>6
<1>8. Progress'
    BY <1>2, <1>3, <1>6, <1>7 DEF Progress, EdgeDone
<1>9. ReadyToSolve'
    BY <1>3 DEF ReadyToSolve
<1> QED
    BY <1>1, <1>2, <1>5, <1>8, <1>9

\* How the loop over the published files goes on.
LEMMA AdvanceFacts ==
    ASSUME NEW next, Advance(next), at \in 1 .. Last
    PROVE  \/ at = Last /\ at' = 1 /\ pc' = next
           \/ at < Last /\ at' = at + 1 /\ pc' = pc
BY PublishedFacts DEF Advance

\* One result is copied to its temporary name.
LEMMA CopyStep ==
    ASSUME EdgesInv, Copy
    PROVE  EdgesInv'
<1> USE DEF EdgesInv
<1>1. RdinpInv' /\ files' = files /\ rd' = rd
    BY BehindStep DEF Copy
<1>2. Present' = Present /\ OnePair' /\ SolvedFromOnePair'
    BY PairsKept DEF Copy
<1>3. pc = "copy" /\ full' = full /\ source' = source /\ dirs' = dirs /\ pair' = pair
    BY DEF Copy
<1>4. \/ at = Last /\ at' = 1 /\ pc' = "publish"
      \/ at < Last /\ at' = at + 1 /\ pc' = "copy"
    BY <1>3, AdvanceFacts DEF Copy, EdgeTypes
<1> DEFINE n == Published[at]
<1>5. n \in Names /\ n.kind \in AllKinds /\ n.edge \in 1 .. 2
    BY NameFacts DEF EdgeTypes
<1>6. staged' = [staged EXCEPT ![n] = dirs[n.edge][n.kind]]
    BY DEF Copy
<1>7. /\ staged' \in [Names -> Accepted \cup {None}]
      /\ staged'[n] = dirs[n.edge][n.kind]
      /\ \A m \in Names : m # n => staged'[m] = staged[m]
    BY <1>5, <1>6 DEF EdgeTypes
<1>8. EdgeTypes' /\ BehindRdinp'
    <2>1. at' \in 1 .. Last
        BY <1>4, PublishedFacts DEF EdgeTypes
    <2> QED
        BY <1>1, <1>3, <1>4, <1>7, <2>1 DEF Copy, EdgeTypes, BehindRdinp, Steps
<1>9. FromSource(n, staged'[n])
    <2>1. dirs[n.edge][n.kind] # None /\ EdgeDone(n.edge)
        BY <1>3, <1>5 DEF Progress
    <2> QED
        BY <1>7, <2>1 DEF FromSource, EdgeDone
<1>10. ASSUME NEW i \in 1 .. at
       PROVE  FromSource(Published[i], staged'[Published[i]])
    <2>1. CASE i = at
        BY <1>9, <2>1
    <2>2. CASE i # at
        <3>1. i \in 1 .. Last /\ at \in 1 .. Last /\ i \in 1 .. at - 1
            BY <2>2, PublishedFacts DEF EdgeTypes
        <3>2. Published[i] # n /\ Published[i] \in Names
            BY <2>2, <3>1, PublishedFacts, NameFacts
        <3> QED
            BY <1>3, <1>7, <3>1, <3>2 DEF Progress
    <2> QED
        BY <2>1, <2>2
<1> HIDE DEF n
<1>11. Progress'
    <2>1. source \in Accepted /\ Present = {} /\ EdgeDone(1) /\ EdgeDone(2)
          /\ \A m \in Names : dirs[m.edge][m.kind] # None
        BY <1>3 DEF Progress
    <2>2. CASE at = Last
        <3>1. pc' = "publish" /\ at' = 1
            BY <1>4, <2>2, PublishedFacts
        <3>2. \A i \in 1 .. at' - 1 : FALSE
            BY <3>1
        <3>3. \A i \in 1 .. Last : pair[Published[i]] = None
            BY <2>1, NameFacts DEF Present
        <3>4. \A i \in 1 .. Last : FromSource(Published[i], staged'[Published[i]])
            BY <1>10, <2>2
        <3> QED
            BY <1>3, <2>1, <3>1, <3>2, <3>3, <3>4 DEF Progress, FromSource
    <2>3. CASE at # Last
        <3>1. pc' = "copy" /\ at' = at + 1
            BY <1>4, <2>3
        <3>2. \A i \in 1 .. at' - 1 : FromSource(Published[i], staged'[Published[i]])
            BY <1>10, <3>1 DEF EdgeTypes
        <3> QED
            BY <1>2, <1>3, <2>1, <3>1, <3>2 DEF Progress, FromSource, EdgeDone
    <2> QED
        BY <2>2, <2>3
<1>12. ReadyToSolve'
    BY <1>4 DEF ReadyToSolve
<1> QED
    BY <1>1, <1>2, <1>8, <1>11, <1>12

\* The rename of one copy.
LEMMA PublishStep ==
    ASSUME EdgesInv, Publish
    PROVE  EdgesInv'
<1> USE DEF EdgesInv
<1>1. RdinpInv' /\ files' = files /\ rd' = rd
    BY BehindStep DEF Publish
<1>2. pc = "publish" /\ full' = full /\ source' = source /\ dirs' = dirs
      /\ spectrum' = spectrum
      /\ source \in Accepted
    BY DEF Publish, Progress
<1>3. \/ at = Last /\ at' = 1 /\ pc' = "stages"
      \/ at < Last /\ at' = at + 1 /\ pc' = "publish"
    BY <1>2, AdvanceFacts DEF Publish, EdgeTypes
<1> DEFINE n == Published[at]
<1>4. n \in Names /\ at \in 1 .. Last
    BY NameFacts DEF EdgeTypes
<1>5. pair' = [pair EXCEPT ![n] = staged[n]] /\ staged' = [staged EXCEPT ![n] = None]
    BY DEF Publish
<1>6. /\ pair' \in [Names -> Accepted \cup {None}]
      /\ staged' \in [Names -> Accepted \cup {None}]
      /\ pair'[n] = staged[n]
      /\ \A m \in Names : m # n => pair'[m] = pair[m] /\ staged'[m] = staged[m]
    BY <1>4, <1>5 DEF EdgeTypes
<1>7. EdgeTypes' /\ BehindRdinp'
    <2>1. at' \in 1 .. Last
        BY <1>3, PublishedFacts DEF EdgeTypes
    <2> QED
        BY <1>1, <1>2, <1>3, <1>6, <2>1 DEF Publish, EdgeTypes, BehindRdinp, Steps
<1>8. FromSource(n, staged[n])
    BY <1>2, <1>4, PublishedFacts DEF Progress
<1>9. ASSUME NEW i \in 1 .. at
      PROVE  FromSource(Published[i], pair'[Published[i]])
    <2>1. CASE i = at
        BY <1>6, <1>8, <2>1
    <2>2. CASE i # at
        <3>1. i \in 1 .. Last /\ i \in 1 .. at - 1
            BY <1>4, <2>2, PublishedFacts
        <3>2. Published[i] # n /\ Published[i] \in Names
            BY <1>4, <2>2, <3>1, PublishedFacts, NameFacts
        <3> QED
            BY <1>2, <1>6, <3>1, <3>2 DEF Progress
    <2> QED
        BY <2>1, <2>2
<1>10. ASSUME NEW i \in at + 1 .. Last
       PROVE  pair'[Published[i]] = None /\ FromSource(Published[i], staged'[Published[i]])
    <2>1. i \in 1 .. Last /\ i \in at .. Last /\ i # at
        BY <1>4, PublishedFacts
    <2>2. Published[i] # n /\ Published[i] \in Names
        BY <1>4, <2>1, PublishedFacts, NameFacts
    <2> QED
        BY <1>2, <1>6, <2>1, <2>2 DEF Progress
<1>11. \A m \in Present' : m.kind \in Makes[source] => pair'[m] = source
    <2> SUFFICES ASSUME NEW m \in Names, pair'[m] # None, m.kind \in Makes[source]
                 PROVE  pair'[m] = source
        BY DEF Present
    <2>1. PICK i \in 1 .. Last : m = Published[i]
        BY NameFacts
    <2>2. i \in 1 .. at
        BY <1>4, <1>10, <2>1, PublishedFacts
    <2> QED
        BY <1>9, <2>1, <2>2 DEF FromSource
<1> HIDE DEF n
<1>12. OnePair' /\ SolvedFromOnePair'
    BY <1>2, <1>11 DEF OnePair, OfOne, SolvedFromOnePair, Missing
<1>13. CASE at = Last
    <2>1. pc' = "stages"
        BY <1>3, <1>13, PublishedFacts
    <2>2. \A m \in Names : pair'[m] # None
        BY <1>9, <1>13, NameFacts DEF FromSource
    <2>3. Present' = Names
        BY <2>2 DEF Present
    <2>4. Progress' /\ ReadyToSolve'
        BY <2>1, <2>3 DEF Progress, ReadyToSolve
    <2> QED
        BY <1>1, <1>7, <1>12, <2>4
<1>14. CASE at # Last
    <2>1. pc' = "publish" /\ at' = at + 1
        BY <1>3, <1>14
    <2>2. at' - 1 = at
        BY <1>4, <2>1
    <2>3. Progress'
        BY <1>2, <1>9, <1>10, <2>1, <2>2 DEF Progress, FromSource
    <2>4. ReadyToSolve'
        BY <2>1 DEF ReadyToSolve
    <2> QED
        BY <1>1, <1>7, <1>12, <2>3, <2>4
<1> QED
    BY <1>13, <1>14

\* The stages of the work directory.
LEMMA StagesStep ==
    ASSUME EdgesInv, RunStages
    PROVE  EdgesInv'
<1> USE DEF EdgesInv
<1>1. RdinpInv' /\ files' = files /\ rd' = rd
    BY BehindStep DEF RunStages
<1>2. Present' = Present /\ OnePair' /\ SolvedFromOnePair'
    BY PairsKept DEF RunStages
<1>3. /\ pc = "stages" /\ pc' = "solve" /\ full' = full /\ full
      /\ checked' = checked /\ source' = source /\ at' = at /\ out' = out
    BY DEF RunStages, BehindRdinp, runVars
<1>4. shared' \in Accepted \cup {None} /\ files[RixsInp] \in Accepted
    BY <1>3 DEF RunStages, EdgeTypes, BehindRdinp, Requested, Steps
<1>5. EdgeTypes' /\ BehindRdinp'
    BY <1>1, <1>3, <1>4 DEF RunStages, EdgeTypes, BehindRdinp, Steps
<1>6. Progress'
    BY <1>3 DEF Progress
<1>7. ReadyToSolve'
    BY <1>1, <1>2, <1>3 DEF RunStages, ReadyToSolve
<1> QED
    BY <1>1, <1>2, <1>5, <1>6, <1>7

\* What the solver computes from is well typed and of one pair if the run made
\* the checks.
LEMMA SolutionFacts ==
    ASSUME EdgesInv, pc \in {"solve", "write"}, Solvable
    PROVE  Solution \in Spectra /\ Single(Solution)
<1> DEFINE pairs == {[kind |-> n.kind, of |-> pair[n]] : n \in Present}
<1>1. \A n \in Present : n.kind \in AllKinds /\ pair[n] \in Accepted /\ n \in Names
    BY NameFacts DEF Present, EdgesInv, EdgeTypes
<1>2. pairs \in SUBSET [kind : AllKinds, of : Accepted]
    BY <1>1
<1>3. Solution = [pair |-> pairs, shared |-> \E k \in AllKinds : Explicit(k) = {},
                  checked |-> checked]
    BY DEF Solution
<1>4. Solution \in Spectra
    <2>1. checked \in BOOLEAN
        BY DEF EdgesInv, EdgeTypes
    <2> HIDE DEF pairs
    <2> QED
        BY <1>2, <1>3, <2>1 DEF Spectra
<1>5. ASSUME checked
      PROVE  \/ Solution.pair = {}
             \/ /\ ~Solution.shared
                /\ \E v \in Accepted :
                    \A r \in Solution.pair : r.kind \in Makes[v] => r.of = v
    <2>1. Solution.pair = pairs /\ (Solution.shared <=> \E k \in AllKinds : Explicit(k) = {})
        BY <1>3
    <2>2. Present = Names \/ Present = {}
        BY <1>5 DEF EdgesInv, ReadyToSolve, Solvable, Resolved, Requested
    <2>3. CASE Present = {}
        BY <2>1, <2>3
    <2>4. CASE Present # {}
        <3>1. PICK v \in Accepted : OfOne(v)
            BY <2>4 DEF EdgesInv, OnePair
        <3>2. \A r \in pairs : r.kind \in Makes[v] => r.of = v
            BY <3>1 DEF OfOne
        <3>3. \A k \in AllKinds : Explicit(k) # {}
            BY <2>2, <2>4, NameFacts DEF Explicit
        <3> HIDE DEF pairs
        <3> QED
            BY <2>1, <3>2, <3>3
    <2> QED
        BY <2>3, <2>4
<1>6. Solution.checked = checked
    BY <1>3
<1> QED
    BY <1>4, <1>5, <1>6 DEF Single

\* One spectrum is replaced by nothing, a torn one, or one of one pair.
LEMMA SpectrumFacts ==
    ASSUME EdgesInv, NEW o \in 1 .. SpectrumFiles, NEW s \in {None, Torn} \cup Spectra,
           s \in {None, Torn} \/ Single(s), spectrum' = [spectrum EXCEPT ![o] = s]
    PROVE  /\ spectrum' \in [1 .. SpectrumFiles -> {None, Torn} \cup Spectra]
           /\ SolvedFromOnePair'
<1>1. spectrum \in [1 .. SpectrumFiles -> {None, Torn} \cup Spectra]
    BY DEF EdgesInv, EdgeTypes
<1>2. spectrum'[o] = s /\ \A q \in 1 .. SpectrumFiles : q # o => spectrum'[q] = spectrum[q]
    BY <1>1
<1>3. \A q \in 1 .. SpectrumFiles : ~(spectrum'[q] \in {None, Torn}) => Single(spectrum'[q])
    BY <1>2 DEF EdgesInv, SolvedFromOnePair, Missing, Single
<1> QED
    BY <1>1, <1>3 DEF SolvedFromOnePair, Missing, Single

\* The same pair.
LEMMA PairKept ==
    ASSUME EdgesInv, pair' = pair
    PROVE  Present' = Present /\ OnePair'
BY DEF EdgesInv, Present, OnePair, OfOne

\* The solver has what it needs and begins to write.
LEMMA SolveStep ==
    ASSUME EdgesInv, Solve
    PROVE  EdgesInv'
<1> USE DEF EdgesInv
<1>1. RdinpInv' /\ files' = files /\ rd' = rd
    BY BehindStep DEF Solve
<1>2. Present' = Present /\ OnePair' /\ SolvedFromOnePair'
    BY PairsKept DEF Solve
<1>3. /\ pc = "solve" /\ pc' = "write" /\ full' = full /\ checked' = checked /\ Solvable
      /\ 1 \in 1 .. SpectrumFiles
    BY VersionFacts DEF Solve, ToWrite
<1>4. EdgeTypes' /\ BehindRdinp'
    BY <1>1, <1>3 DEF Solve, EdgeTypes, BehindRdinp, Steps
<1>5. Solvable'
    BY <1>1, <1>2, <1>3 DEF Solve, Solvable, Resolved, Explicit, Requested
<1>6. Progress' /\ ReadyToSolve'
    BY <1>1, <1>2, <1>3, <1>5 DEF Progress, ReadyToSolve
<1> QED
    BY <1>1, <1>2, <1>4, <1>6

\* One spectrum is written.
LEMMA WriteStep ==
    ASSUME EdgesInv, WriteSpectrum
    PROVE  EdgesInv'
<1> USE DEF EdgesInv
<1>1. RdinpInv' /\ files' = files /\ rd' = rd
    BY BehindStep DEF WriteSpectrum
<1>2. pc = "write" /\ Solvable /\ pair' = pair /\ out \in 1 .. SpectrumFiles
    BY DEF WriteSpectrum, ReadyToSolve, EdgeTypes
<1>3. Present' = Present /\ OnePair'
    BY <1>2, PairKept
<1>4. /\ spectrum' \in [1 .. SpectrumFiles -> {None, Torn} \cup Spectra]
      /\ SolvedFromOnePair'
    BY <1>2, SolutionFacts, SpectrumFacts DEF WriteSpectrum
<1>5. CASE Ended
    BY <1>2, <1>3, <1>4, <1>5, EndedStep DEF WriteSpectrum, EdgeTypes
<1>6. CASE ~Ended
    <2>1. /\ out # SpectrumFiles /\ out' = out + 1 /\ pc' = "write" /\ full' = full
          /\ checked' = checked /\ source' = source /\ at' = at
        BY <1>2, <1>6 DEF WriteSpectrum
    <2>2. out' \in 1 .. SpectrumFiles
        BY <1>2, <2>1, VersionFacts
    <2>3. EdgeTypes' /\ BehindRdinp'
        BY <1>1, <1>2, <1>4, <2>1, <2>2 DEF WriteSpectrum, EdgeTypes, BehindRdinp, Steps
    <2>4. Solvable'
        BY <1>1, <1>2, <1>3 DEF WriteSpectrum, Solvable, Resolved, Explicit, Requested
    <2>5. Progress' /\ ReadyToSolve'
        BY <1>1, <1>2, <1>3, <2>1, <2>4 DEF Progress, ReadyToSolve
    <2> QED
        BY <1>1, <1>3, <1>4, <2>3, <2>5
<1> QED
    BY <1>5, <1>6

\* One spectrum is derived from rixsET.dat.
LEMMA DeriveStep ==
    ASSUME EdgesInv, Derive
    PROVE  EdgesInv'
<1> USE DEF EdgesInv
<1>1. RdinpInv' /\ files' = files /\ rd' = rd
    BY BehindStep DEF Derive
<1>2. /\ pc = "solve" /\ pc' = pc /\ pair' = pair /\ full' = full /\ checked' = checked
      /\ source' = source /\ at' = at /\ out' = out
    BY DEF Derive, runVars
<1>3. Present' = Present /\ OnePair'
    BY <1>2, PairKept
<1>4. PICK o \in 1 .. SpectrumFiles : ~Missing(1) /\ spectrum' = [spectrum EXCEPT ![o] = spectrum[1]]
    BY DEF Derive, Derivable
<1>5. 1 \in 1 .. SpectrumFiles /\ spectrum[1] \in {None, Torn} \cup Spectra
    BY VersionFacts DEF EdgeTypes
<1>6. Single(spectrum[1])
    BY <1>4, <1>5 DEF SolvedFromOnePair, Single
<1>7. /\ spectrum' \in [1 .. SpectrumFiles -> {None, Torn} \cup Spectra]
      /\ SolvedFromOnePair'
    BY <1>4, <1>5, <1>6, SpectrumFacts
<1>8. EdgeTypes' /\ BehindRdinp'
    BY <1>1, <1>2, <1>7 DEF Derive, EdgeTypes, BehindRdinp, Steps
<1>9. Progress' /\ ReadyToSolve'
    BY <1>1, <1>2, <1>3 DEF Progress, ReadyToSolve
<1> QED
    BY <1>1, <1>3, <1>7, <1>8, <1>9

\* A spectrum is torn.
LEMMA StopWritingStep ==
    ASSUME EdgesInv, StopWriting
    PROVE  EdgesInv'
<1> USE DEF EdgesInv
<1>1. Ended /\ UNCHANGED rdinpVars /\ pc # "rdinp" /\ dirs' = dirs /\ staged' = staged
      /\ pair' = pair /\ poles' = poles /\ shared' = shared
    BY DEF StopWriting
<1>2. PICK o \in 1 .. SpectrumFiles : spectrum' = [spectrum EXCEPT ![o] = Torn]
    BY DEF StopWriting
<1>3. /\ spectrum' \in [1 .. SpectrumFiles -> {None, Torn} \cup Spectra]
      /\ SolvedFromOnePair'
    BY <1>2, SpectrumFacts
<1> QED
    BY <1>1, <1>3, PairKept, EndedStep DEF EdgeTypes

\* The user deletes spectra, or the published files too.
LEMMA ClearStep ==
    ASSUME EdgesInv, Clear
    PROVE  EdgesInv'
<1> USE DEF EdgesInv
<1>1. RdinpInv' /\ files' = files /\ rd' = rd
    BY BehindStep DEF Clear
<1>2. pc = "idle" /\ pc' = "idle" /\ full' = full /\ checked' = checked
    BY DEF Clear
<1>3. PICK gone \in SUBSET (1 .. SpectrumFiles) :
        spectrum' = [o \in 1 .. SpectrumFiles |-> IF o \in gone THEN None ELSE spectrum[o]]
    BY DEF Clear
<1>4. spectrum' \in [1 .. SpectrumFiles -> {None, Torn} \cup Spectra]
    BY <1>3 DEF EdgeTypes
<1>5. SolvedFromOnePair'
    BY <1>3 DEF SolvedFromOnePair, Missing
<1>6. EdgeTypes' /\ BehindRdinp'
    <2>1. pair' \in [Names -> Accepted \cup {None}]
        BY DEF Clear, EdgeTypes
    <2> QED
        BY <1>1, <1>2, <1>4, <2>1 DEF Clear, EdgeTypes, BehindRdinp, Steps
<1>7. Progress' /\ ReadyToSolve'
    BY <1>2 DEF Progress, ReadyToSolve
<1>8. OnePair'
    BY DEF Clear, OnePair, OfOne, Present
<1> QED
    BY <1>1, <1>5, <1>6, <1>7, <1>8

-----------------------------------------------------------------------------
(* The theorems. *)

\* In the beginning there is nothing but the input.
LEMMA InitInv == Init => EdgesInv
<1> SUFFICES ASSUME Init
             PROVE  EdgesInv
    OBVIOUS
<1> USE DEF Init
<1>1. RdinpInv
    BY HandoffFacts DEF RdinpInit, RdinpInv
<1>2. EdgeTypes
    <2>1. 1 \in 1 .. Last /\ 1 \in 1 .. SpectrumFiles
        BY PublishedFacts, VersionFacts
    <2> QED
        BY <2>1 DEF EdgeTypes, Steps
<1>3. BehindRdinp
    BY DEF BehindRdinp, RdinpInit, Steps
<1>4. Present = {}
    BY DEF Present
<1>5. Progress /\ OnePair /\ ReadyToSolve /\ SolvedFromOnePair
    BY <1>4 DEF Progress, OnePair, ReadyToSolve, SolvedFromOnePair, Missing
<1> QED
    BY <1>1, <1>2, <1>3, <1>5 DEF EdgesInv

\* The invariant holds for any versions, published files and interruptions.
THEOREM EdgesInvariant == Spec => []EdgesInv
<1>1. EdgesInv /\ [Next]_vars => EdgesInv'
    <2> SUFFICES ASSUME EdgesInv, [Next]_vars
                 PROVE  EdgesInv'
        OBVIOUS
    <2>1. CASE UNCHANGED vars
        <3>1. UNCHANGED rdinpVars
            BY <2>1 DEF vars, rdinpVars
        <3>2. Present' = Present /\ OnePair' /\ SolvedFromOnePair'
            BY <2>1, PairsKept DEF vars
        <3>3. EdgeTypes' /\ BehindRdinp' /\ Progress' /\ ReadyToSolve'
            BY <2>1, <3>2 DEF vars, EdgesInv, EdgeTypes, BehindRdinp, Progress, ReadyToSolve,
                EdgeDone, FromSource, Solvable, Resolved, Explicit, Requested
        <3> QED
            BY <3>1, <3>2, <3>3, BehindStep DEF EdgesInv
    <2> QED
        BY <2>1, OutsideStep, TranslateStep, PrepareStep, RunEdgeStep, StopStep, PolesStep,
            CopyStep, PublishStep, StagesStep, SolveStep, WriteStep, DeriveStep, StopWritingStep,
            ClearStep DEF Next
<1> QED
    BY <1>1, InitInv, PTL DEF Spec

\* Type correctness.
THEOREM TypeCorrect == Spec => []TypeOK
<1>1. EdgesInv => TypeOK
    BY PublishedFacts DEF EdgesInv, RdinpInv, EdgeTypes, BehindRdinp, TypeOK, Steps, Spectra
<1> QED
    BY <1>1, EdgesInvariant, PTL

\* prepare_two_edge_handoffs and run_in_dir: what a run computes that found no
\* rixsET.dat is never made of the files of two preparations, and neither is
\* what is derived from it later.
THEOREM SolutionsOfOnePair == Spec => []SolvedFromOnePair
<1>1. EdgesInv => SolvedFromOnePair
    BY DEF EdgesInv
<1> QED
    BY <1>1, EdgesInvariant, PTL

\* prepare_two_edge_handoffs: what is published was computed from the input the
\* preparation read.
THEOREM PublicationsFromSource == Spec => []PreparedFromSource
<1>1. EdgesInv => PreparedFromSource
    <2> SUFFICES ASSUME EdgesInv, pc = "publish", NEW i \in DOMAIN Published,
                        Published[i].kind \in Makes[source]
                 PROVE  source = IF i < at THEN pair[Published[i]] ELSE staged[Published[i]]
        BY DEF PreparedFromSource
    <2>1. at \in 1 .. Last /\ i \in 1 .. Last /\ Last \in Nat
        BY PublishedFacts DEF EdgesInv, EdgeTypes
    <2>2. CASE i < at
        <3>1. i \in 1 .. at - 1
            BY <2>1, <2>2
        <3> QED
            BY <2>2, <3>1 DEF EdgesInv, Progress, FromSource
    <2>3. CASE ~(i < at)
        <3>1. i \in at .. Last
            BY <2>1, <2>3
        <3> QED
            BY <2>3, <3>1 DEF EdgesInv, Progress, FromSource
    <2> QED
        BY <2>2, <2>3
<1> QED
    BY <1>1, EdgesInvariant, PTL

\* prepare_two_edge_handoffs: no run replaces a published file.
THEOREM PublicationsKept == Spec => PublishedKept
<1>1. EdgesInv /\ [Next]_vars =>
        [\A n \in Names : pair[n] # None /\ pair'[n] # pair[n] => pc = "idle"]_vars
    <2> SUFFICES ASSUME EdgesInv, Next, pc # "idle",
                        NEW n \in Names, pair[n] # None, pair'[n] # pair[n]
                 PROVE  FALSE
        OBVIOUS
    <2>1. pair' # pair
        OBVIOUS
    <2>2. Publish
        BY <2>1 DEF Next, StartRun, StartSolver, TranslateInput, Prepare, RunEdge, StopEdge,
            WritePoles, Copy, RunStages, Solve, WriteSpectrum, Derive, Keep, Stop, StopWriting,
            Clear, EditInput, rixsVars
    <2>3. pair' = [pair EXCEPT ![Published[at]] = staged[Published[at]]] /\ at \in at .. Last
        BY <2>2, PublishedFacts DEF Publish, EdgesInv, EdgeTypes
    <2>4. pair[Published[at]] = None
        BY <2>2, <2>3 DEF EdgesInv, Progress, Publish
    <2>5. n = Published[at]
        BY <2>3 DEF EdgesInv, EdgeTypes
    <2> QED
        BY <2>4, <2>5
<1> QED
    BY <1>1, EdgesInvariant, PTL DEF Spec, PublishedKept

\* execute_rdinp implements the abstract hand-off directory: under its sentinel
\* only, and whole without it, in a workflow that goes on behind it.
THEOREM SentinelImplemented == Spec => SentinelProtects
<1>1. Init => Directory!Init
    <2> SUFFICES ASSUME Init
                 PROVE  Directory!Init
        OBVIOUS
    <2>1. \A f \in Files : files[f] = None
        BY DEF Init, RdinpInit
    <2>2. Whole = {}
        BY <2>1, HandoffFacts DEF Whole
    <2>3. ~sentinel
        BY DEF Init, RdinpInit
    <2> QED
        BY <2>2, <2>3 DEF Directory!Init
<1>2. EdgesInv /\ [Next]_vars => [Directory!Next]_(IF sentinel THEN Dirty ELSE Whole)
    BY RdinpPart, HandoffStep DEF EdgesInv
<1> QED
    BY <1>1, <1>2, EdgesInvariant, PTL DEF Spec, SentinelProtects, Directory!Spec
=============================================================================
