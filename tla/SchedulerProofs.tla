--------------------------- MODULE SchedulerProofs ---------------------------
(***************************************************************************)
(* The types of the stage scheduler, that spectra are convolved at most    *)
(* once, that a run which returns success is complete, and that two in a   *)
(* row on one input deliver everything, proved for every set of requests   *)
(* and any number of runs over one directory.                              *)
(*                                                                         *)
(* The argument follows the position of the run.  A stage the first pass   *)
(* has left is either done, or nothing of it was reported and it cannot be *)
(* run on the files that are there, or it is the BAND stage of a cancelled *)
(* run.  The second pass changes none of the files other stages read, for  *)
(* what it may run of a requested stage it cannot run; so it does not get  *)
(* past a stage that is not done, and a cancelled run not past COMPTON.    *)
(* After such a run the files other stages read match their own sources,   *)
(* so they stay as they are in the next one, and the stages tried before   *)
(* their sources find in it what they need.                                *)
(***************************************************************************)
EXTENDS Scheduler, SequenceTheorems, TLAPS

\* The position of a stage in the first pass.
DPos == [rhorrp |-> 1, pot |-> 2, xsph |-> 3, fms |-> 4, mkgtr |-> 5,
         band |-> 6, compton |-> 7, eels |-> 8, eelsmdff |-> 9, path |-> 10,
         genfmt |-> 11, ff2x |-> 12, sfconv |-> 13]

\* The position of a stage in the second pass.
CPos == [pot |-> 14, xsph |-> 15, fms |-> 16, mkgtr |-> 17, band |-> 18,
         rhorrp |-> 19, compton |-> 20, path |-> 21, genfmt |-> 22,
         ff2x |-> 23, eels |-> 24, eelsmdff |-> 25, sfconv |-> 26]

\* The requested stages that are tried after their sources and have files.
Kept == (requested \cap InOrder) \ {"sfconv"}

Done(s) == reports[s] = 1 /\ Delivered(s)

\* Nothing was reported, and nothing can be on the files that are there.
Pending(s) ==
    /\ reports[s] = 0
    /\ ~Satisfiable(s) \/ (s \in gaveUp /\ ~Completed(s))

\* BAND was skipped by a cancelled run, which ends at COMPTON at the latest.
Missed(s) ==
    /\ s = "band"
    /\ cancelled
    /\ running = "none"
    /\ pos <= CPos["compton"]
    /\ pos > DPos["compton"] => ~Satisfiable("compton")

Going ==
    running # "none" =>
        /\ outcome = "running"
        /\ pos \in 1 .. 26
        /\ running = Schedule[pos]
        /\ Invoked(running)

Untried == \A s \in requested : pos <= DPos[s] => reports[s] = 0 /\ s \notin gaveUp

Tried == \A s \in Kept : pos > DPos[s] => Done(s) \/ Pending(s) \/ Missed(s)

Passed == \A s \in Kept : pos > CPos[s] => ~Pending(s)

Convolved ==
    "sfconv" \in requested =>
        /\ reports["sfconv"] \in 0 .. 1
        /\ reports["sfconv"] = 1 => Present("ff2x") /\ applied = 1
        /\ pos > 26 /\ Present("ff2x") => reports["sfconv"] = 1

Live == outcome \in {"running", "ok"}

SInv ==
    /\ TypeOK
    /\ applied \in 0 .. 1
    /\ work["sfconv"] = "none"
    /\ gaveUp \subseteq {"pot", "band"}
    /\ outcome = "ok" => pos = 27
    /\ Going
    /\ Live => Untried /\ Tried /\ Passed /\ Convolved

-----------------------------------------------------------------------------
(* The tables. *)

\* The names of the stages.
LEMMA StagesFacts ==
    Stages = {"rhorrp", "pot", "xsph", "fms", "mkgtr", "band", "compton",
              "eels", "eelsmdff", "path", "genfmt", "ff2x", "sfconv"}
<1>1. DOMAIN Discovery = 1 .. 13
    BY DEF Discovery
<1>2. 1 .. 13 = {1, 2, 3, 4, 5, 6, 7, 8, 9, 10, 11, 12, 13}
    OBVIOUS
<1> QED
    BY <1>1, <1>2 DEF Stages, Discovery

\* Two sequences, one after the other.
LEMMA TwoPasses ==
    ASSUME NEW S, NEW d \in Seq(S), NEW c \in Seq(S)
    PROVE  /\ Len(d \o c) = Len(d) + Len(c)
           /\ DOMAIN (d \o c) = 1 .. Len(d) + Len(c)
           /\ \A p \in 1 .. Len(d) + Len(c) :
                (d \o c)[p] = IF p <= Len(d) THEN d[p] ELSE c[p - Len(d)]
<1>1. Len(d \o c) = Len(d) + Len(c)
    BY ConcatProperties
<1>2. DOMAIN (d \o c) = 1 .. Len(d \o c)
    BY ConcatProperties
<1>3. \A p \in 1 .. Len(d) + Len(c) :
        (d \o c)[p] = IF p <= Len(d) THEN d[p] ELSE c[p - Len(d)]
    BY ConcatProperties
<1> QED
    BY <1>1, <1>2, <1>3, Zenon

\* The two passes one after the other.
LEMMA ScheduleFacts ==
    /\ Len(Discovery) = 13
    /\ Len(Schedule) = 26
    /\ DOMAIN Schedule = 1 .. 26
    /\ \A p \in 1 .. 13 : Schedule[p] = Discovery[p]
    /\ \A p \in 14 .. 26 : Schedule[p] = Completion[p - 13]
<1>1. Len(Discovery) = 13 /\ Len(Completion) = 13
    BY DEF Discovery, Completion
<1>2. Discovery \in Seq(Stages) /\ Completion \in Seq(Stages)
    <2>0. 1 .. 13 = {1, 2, 3, 4, 5, 6, 7, 8, 9, 10, 11, 12, 13}
        OBVIOUS
    <2>1. \A i \in 1 .. 13 : Discovery[i] \in Stages
        BY <2>0, StagesFacts DEF Discovery
    <2>2. \A i \in 1 .. 13 : Completion[i] \in Stages
        BY <2>0, StagesFacts DEF Completion
    <2>3. Discovery = [i \in 1 .. 13 |-> Discovery[i]]
        BY <2>0 DEF Discovery
    <2>4. Completion = [i \in 1 .. 13 |-> Completion[i]]
        BY <2>0 DEF Completion
    <2> HIDE DEF Discovery, Completion
    <2>5. Discovery \in [1 .. 13 -> Stages] /\ Completion \in [1 .. 13 -> Stages]
        BY <2>1, <2>2, <2>3, <2>4
    <2>6. \A S : [1 .. 13 -> S] \subseteq Seq(S)
        BY SeqDef
    <2> QED
        BY <2>5, <2>6
<1> HIDE DEF Discovery, Completion
<1>3. Schedule = Discovery \o Completion
    BY DEF Schedule
<1>4. Len(Schedule) = Len(Discovery) + Len(Completion)
    BY <1>2, <1>3, TwoPasses, Zenon
<1>5. DOMAIN Schedule = 1 .. Len(Discovery) + Len(Completion)
    BY <1>2, <1>3, TwoPasses, Zenon
<1>6. \A p \in 1 .. Len(Discovery) + Len(Completion) :
        Schedule[p] = IF p <= Len(Discovery) THEN Discovery[p]
                      ELSE Completion[p - Len(Discovery)]
    BY <1>2, <1>3, TwoPasses, Zenon
<1>7. 13 + 13 = 26
    OBVIOUS
<1>8. /\ \A p \in 1 .. 13 : p \in 1 .. 26 /\ p <= 13
      /\ \A p \in 14 .. 26 : p \in 1 .. 26 /\ ~(p <= 13)
    OBVIOUS
<1>9. \A p \in 1 .. 26 : Schedule[p] = IF p <= 13 THEN Discovery[p] ELSE Completion[p - 13]
    BY <1>1, <1>6, <1>7, Zenon
<1>10. \A p \in 1 .. 13 : Schedule[p] = Discovery[p]
    BY <1>8, <1>9, Zenon
<1>11. \A p \in 14 .. 26 : Schedule[p] = Completion[p - 13]
    BY <1>8, <1>9, Zenon
<1> QED
    BY <1>1, <1>4, <1>5, <1>7, <1>10, <1>11, Zenon

\* The stage at a position, pass by pass.
LEMMA PositionFacts ==
    /\ \A p \in 1 .. 13 : Schedule[p] \in Stages /\ DPos[Schedule[p]] = p
    /\ \A p \in 14 .. 26 : Schedule[p] \in Stages /\ CPos[Schedule[p]] = p
    /\ \A s \in Stages : DPos[s] \in 1 .. 13 /\ Schedule[DPos[s]] = s
    /\ \A s \in Stages : CPos[s] \in 14 .. 26 /\ Schedule[CPos[s]] = s
<1>1. 1 .. 13 = {1, 2, 3, 4, 5, 6, 7, 8, 9, 10, 11, 12, 13}
    OBVIOUS
<1>2. \A p \in 1 .. 13 : Discovery[p] \in Stages /\ DPos[Discovery[p]] = p
    BY <1>1, StagesFacts DEF Discovery, DPos
<1>3. \A p \in 1 .. 13 : Completion[p] \in Stages /\ CPos[Completion[p]] = p + 13
    BY <1>1, StagesFacts DEF Completion, CPos
<1>4. \A s \in Stages : DPos[s] \in 1 .. 13 /\ Discovery[DPos[s]] = s
    BY StagesFacts DEF Discovery, DPos
<1>5. \A s \in Stages : CPos[s] \in 14 .. 26 /\ Completion[CPos[s] - 13] = s
    BY StagesFacts DEF Completion, CPos
<1> QED
    BY <1>2, <1>3, <1>4, <1>5, ScheduleFacts

\* What a stage reads, and which stages come after what they read.
LEMMA SourceFacts ==
    /\ InOrder = Stages \ {"rhorrp", "eels", "eelsmdff"}
    /\ \A s \in Stages : Sources[s] \subseteq InOrder \ {"sfconv"}
    /\ \A s \in InOrder : \A t \in Sources[s] : DPos[t] < DPos[s]
    /\ \A s \in Stages : s \notin Sources[s]
    /\ Sources["pot"] = {}
    /\ Sources["mkgtr"] = {"fms"}
    /\ Sources["band"] = {"xsph"}
    /\ Sources["sfconv"] = {"ff2x"}
<1>1. \A s, t \in Stages : Before(s, t) <=> DPos[s] < DPos[t]
    <2>1. DOMAIN Discovery = 1 .. 13
        BY DEF Discovery
    <2>2. \A p \in 1 .. 13 : DPos[Discovery[p]] = p
        BY PositionFacts, ScheduleFacts
    <2>3. \A s \in Stages : DPos[s] \in 1 .. 13 /\ Discovery[DPos[s]] = s
        BY PositionFacts, ScheduleFacts
    <2> QED
        BY <2>1, <2>2, <2>3 DEF Before
<1>2. \A s \in Stages : Sources[s] \subseteq Stages
    BY StagesFacts DEF Sources
<1>3. \A s \in Stages : Sources[s] \subseteq Stages \ {"rhorrp", "eels", "eelsmdff", "sfconv"}
    BY StagesFacts DEF Sources
<1>4. \A s \in Stages \ {"rhorrp", "eels", "eelsmdff"} :
        \A t \in Sources[s] : DPos[t] < DPos[s]
    BY StagesFacts DEF Sources, DPos
<1>5. \A s \in {"rhorrp", "eels", "eelsmdff"} :
        \E t \in Sources[s] : ~(DPos[t] < DPos[s])
    BY DEF Sources, DPos
<1>6. InOrder = Stages \ {"rhorrp", "eels", "eelsmdff"}
    BY <1>1, <1>2, <1>4, <1>5 DEF InOrder
<1>7. \A s \in Stages : s \notin Sources[s]
    BY StagesFacts DEF Sources
<1> QED
    BY <1>3, <1>4, <1>6, <1>7 DEF Sources

\* The stages of the invariant are requested, have files and have a position
\* in each pass.
LEMMA KeptFacts ==
    ASSUME TypeOK
    PROVE  /\ requested \subseteq Stages
           /\ "mkgtr" \in requested => "fms" \in requested
           /\ \A s \in Kept : /\ s \in requested
                              /\ s \in Stages
                              /\ s \in InOrder
                              /\ s \notin {"sfconv", "rhorrp", "eels", "eelsmdff"}
           /\ \A s \in requested :
                \/ s \in Kept
                \/ s \in {"sfconv", "rhorrp", "eels", "eelsmdff"}
<1>1. requested \in Requests
    BY DEF TypeOK
<1>2. requested \subseteq Stages /\ ("mkgtr" \in requested => "fms" \in requested)
    BY <1>1, RequestsAssumption
<1> QED
    BY <1>2, SourceFacts DEF Kept

\* A step that leaves the files of a stage and of its sources, its report and
\* whether it gave up leaves where it stands.
LEMMA Frame ==
    ASSUME TypeOK, requested' = requested, NEW x \in Kept,
           work'[x] = work[x], \A t \in Sources[x] : work'[t] = work[t],
           reports'[x] = reports[x], x \in gaveUp' <=> x \in gaveUp
    PROVE  /\ Done(x)' <=> Done(x)
           /\ Pending(x)' <=> Pending(x)
<1>1. x # "sfconv"
    BY KeptFacts
<1>2. HasSources(x)' <=> HasSources(x)
    BY DEF HasSources, Present
<1>3. Present(x)' <=> Present(x)
    BY DEF Present
<1>4. Satisfiable(x)' <=> Satisfiable(x)
    BY <1>1, <1>2, <1>3 DEF Satisfiable
<1>5. Completed(x)' <=> Completed(x)
    <2>1. x = "band" => work'["xsph"] = work["xsph"]
        BY SourceFacts
    <2> QED
        BY <1>2, <1>3, <2>1 DEF Completed
<1>6. UpToDate(x)' <=> UpToDate(x)
    BY <1>2 DEF UpToDate
<1>7. Delivered(x)' <=> Delivered(x)
    BY <1>1, <1>3, <1>6 DEF Delivered
<1> QED
    BY <1>4, <1>5, <1>7 DEF Done, Pending

\* So does one that leaves all files, reports and attempts.
LEMMA Stay ==
    ASSUME TypeOK, UNCHANGED <<requested, work, reports, gaveUp>>
    PROVE  /\ Kept' = Kept
           /\ \A x \in Kept : (Done(x)' <=> Done(x)) /\ (Pending(x)' <=> Pending(x))
<1>1. Kept' = Kept
    BY DEF Kept
<1> QED
    BY <1>1, Frame

\* Outside their own positions the stages of the schedule are other stages.
LEMMA PassFacts ==
    ASSUME NEW p \in 1 .. 26, NEW s \in Stages
    PROVE  /\ Schedule[p] \in Stages
           /\ DPos[s] \in 1 .. 13
           /\ CPos[s] \in 14 .. 26
           /\ p <= 13 => (p = DPos[s] <=> Schedule[p] = s)
           /\ p > 13 => (p = CPos[s] <=> Schedule[p] = s)
<1>1. p \in 1 .. 13 \/ p \in 14 .. 26
    OBVIOUS
<1>2. DPos[s] \in 1 .. 13 /\ CPos[s] \in 14 .. 26
    BY PositionFacts
<1>3. Schedule[p] \in Stages
    BY <1>1, PositionFacts
<1>4. CASE p \in 1 .. 13
    BY <1>2, <1>3, <1>4, PositionFacts
<1>5. CASE p \in 14 .. 26
    BY <1>2, <1>3, <1>5, PositionFacts
<1> QED
    BY <1>1, <1>4, <1>5

\* Which stage is at which position, for the positions the argument names.
LEMMA NamedPositions ==
    /\ DPos["band"] = 6 /\ DPos["compton"] = 7 /\ DPos["sfconv"] = 13
    /\ CPos["fms"] = 16 /\ CPos["mkgtr"] = 17 /\ CPos["band"] = 18
    /\ CPos["compton"] = 20 /\ CPos["sfconv"] = 26
    /\ Schedule[7] = "compton" /\ Schedule[20] = "compton" /\ Schedule[26] = "sfconv"
<1>1. /\ DPos["band"] = 6 /\ DPos["compton"] = 7 /\ DPos["sfconv"] = 13
      /\ CPos["fms"] = 16 /\ CPos["mkgtr"] = 17 /\ CPos["band"] = 18
      /\ CPos["compton"] = 20 /\ CPos["sfconv"] = 26
    BY DEF DPos, CPos
<1>2. Discovery[7] = "compton" /\ Completion[7] = "compton" /\ Completion[13] = "sfconv"
    BY DEF Discovery, Completion
<1>3. 7 \in 1 .. 13 /\ 20 \in 14 .. 26 /\ 26 \in 14 .. 26 /\ 20 - 13 = 7 /\ 26 - 13 = 13
    OBVIOUS
<1>4. Schedule[7] = Discovery[7]
    <2>1. \A p \in 1 .. 13 : Schedule[p] = Discovery[p]
        BY ScheduleFacts
    <2> QED
        BY <1>3, <2>1, Zenon
<1>5. Schedule[20] = Completion[7] /\ Schedule[26] = Completion[13]
    <2>1. \A p \in 14 .. 26 : Schedule[p] = Completion[p - 13]
        BY ScheduleFacts
    <2> QED
        BY <1>3, <2>1, Zenon
<1> QED
    BY <1>1, <1>2, <1>4, <1>5, Zenon

-----------------------------------------------------------------------------
(* Stages that cannot be run are not passed by the second pass. *)

\* run_remaining_required_modules: a stage it passes without running it, or
\* runs to its end, is not one that is pending.
LEMMA SecondPass ==
    ASSUME SInv, Live, pos \in 14 .. 26, NEW s \in Kept, Schedule[pos] = s
    PROVE  /\ ~Required(s) => ~Pending(s)
           /\ running = s => ~CanRun(s)
<1>1. TypeOK /\ gaveUp \subseteq {"pot", "band"} /\ Tried /\ Passed /\ Going
    BY DEF SInv
<1>2. s \in Stages /\ s \in requested /\ s \notin {"sfconv", "rhorrp", "eels", "eelsmdff"}
    BY <1>1, KeptFacts
<1>3. pos > DPos[s] /\ pos = CPos[s] /\ pos \in 1 .. 26
    BY <1>2, PassFacts
<1>4. Done(s) \/ Pending(s) \/ Missed(s)
    BY <1>1, <1>3 DEF Tried
<1>5. s = "pot" => Satisfiable(s)
    BY <1>2, SourceFacts DEF Satisfiable, HasSources
<1>6. ~Satisfiable(s) => ~Present(s) \/ s = "mkgtr"
    BY <1>2 DEF Satisfiable
<1>7. s = "mkgtr" => Satisfiable(s)
    <2> SUFFICES ASSUME s = "mkgtr"
                 PROVE  Satisfiable(s)
        OBVIOUS
    <2>1. "fms" \in Kept
        BY <1>1, <1>2, KeptFacts
    <2>2. pos > DPos["fms"] /\ pos > CPos["fms"]
        BY <1>3, <2>1, KeptFacts, <1>1, PassFacts, NamedPositions
    <2>3. Done("fms")
        BY <1>1, <2>1, <2>2 DEF Tried, Passed, Missed
    <2>4. Present("fms")
        BY <2>3 DEF Done, Delivered
    <2> QED
        BY <1>2, <2>4, SourceFacts DEF Satisfiable, HasSources
<1>8. ~Present(s) /\ s # "pot" => ~Completed(s)
    BY DEF Completed
<1>9. Done(s) => s = "pot" \/ Completed(s)
    <2> SUFFICES ASSUME Done(s), s # "pot"
                 PROVE  Completed(s)
        OBVIOUS
    <2>1. Present(s) /\ UpToDate(s)
        BY <1>2 DEF Done, Delivered
    <2>2. CASE s # "band"
        BY <1>2, <2>1, <2>2 DEF Completed
    <2>3. CASE s = "band"
        <3>1. Sources[s] = {"xsph"} /\ "xsph" \in Stages
            BY <2>3, SourceFacts, StagesFacts
        <3>2. HasSources(s) => (work[s] = "new" <=> work["xsph"] = "new")
            BY <2>1, <3>1 DEF UpToDate
        <3>3. HasSources(s) => work["xsph"] # "none"
            BY <3>1 DEF HasSources, Present
        <3>4. work[s] \in {"none", "old", "new"} /\ work["xsph"] \in {"none", "old", "new"}
            BY <1>1, <1>2, <3>1 DEF TypeOK
        <3>5. HasSources(s) => work[s] = work["xsph"]
            BY <2>1, <3>2, <3>3, <3>4 DEF Present
        <3> QED
            BY <1>2, <2>1, <2>3, <3>5 DEF Completed
    <2> QED
        BY <2>2, <2>3
<1>10. s \notin {"pot", "fms", "xsph", "mkgtr", "band"} => (Required(s) <=> ~Satisfiable(s))
    BY <1>2 DEF Required
<1>11. /\ s = "pot" \/ s = "fms" => (Required(s) <=> reports[s] = 0 /\ ~Completed(s))
       /\ s = "xsph" => (Required(s) <=> reports[s] = 0 /\ ~Satisfiable(s))
       /\ s = "band" => (Required(s) <=> ~Completed(s))
    BY DEF Required
<1>12. ~Required(s) => ~Pending(s)
    <2> SUFFICES ASSUME Pending(s)
                 PROVE  Required(s)
        OBVIOUS
    <2>1. reports[s] = 0 /\ (~Satisfiable(s) \/ (s \in {"pot", "band"} /\ s \in gaveUp /\ ~Completed(s)))
        BY <1>1 DEF Pending
    <2>2. CASE ~Satisfiable(s)
        <3>1. ~Present(s) /\ s # "pot" /\ s # "mkgtr"
            BY <1>5, <1>6, <1>7, <2>2
        <3>2. ~Completed(s)
            BY <1>8, <3>1
        <3> QED
            BY <1>10, <1>11, <2>1, <2>2, <3>1, <3>2
    <2>3. CASE s \in {"pot", "band"} /\ s \in gaveUp /\ ~Completed(s)
        BY <1>11, <2>1, <2>3
    <2> QED
        BY <2>1, <2>2, <2>3
<1>13. running = s => ~CanRun(s)
    <2> SUFFICES ASSUME running = s, CanRun(s)
                 PROVE  FALSE
        OBVIOUS
    <2>1. s \notin gaveUp /\ Satisfiable(s)
        BY <1>2 DEF CanRun
    <2>2. ~Pending(s)
        BY <2>1 DEF Pending
    <2>3. ~Missed(s)
        BY <1>2, StagesFacts DEF Missed
    <2>4. Done(s)
        BY <1>4, <2>2, <2>3
    <2>5. reports[s] = 1 /\ Present(s)
        BY <1>2, <2>4 DEF Done, Delivered
    <2>6. Required(s)
        <3>1. ~InDiscovery
            BY <1>3, ScheduleFacts, PassFacts DEF InDiscovery
        <3>2. running # "none"
            BY <1>2, StagesFacts
        <3> QED
            BY <1>1, <3>1, <3>2 DEF Going, Invoked
    <2>7. s # "mkgtr"
        BY <2>5, <2>6 DEF Required
    <2> QED
        BY <1>9, <1>10, <1>11, <2>1, <2>4, <2>5, <2>6, <2>7
<1> QED
    BY <1>12, <1>13

-----------------------------------------------------------------------------
(* Every action preserves the invariant. *)

\* The predicates of both passes read the files, the reports and the pass.
LEMMA InvokedStays ==
    ASSUME UNCHANGED <<requested, work, applied, pos, reports>>
    PROVE  Invoked(running)' <=> Invoked(running')
<1>1. InDiscovery' <=> InDiscovery
    BY DEF InDiscovery
<1>2. Satisfiable(running)' <=> Satisfiable(running')
    BY DEF Satisfiable, HasSources, Present
<1>3. Completed(running)' <=> Completed(running')
    BY DEF Completed, Present
<1>4. Completed("fms")' <=> Completed("fms")
    BY DEF Completed, Present
<1>5. Discovered(running)' <=> Discovered(running')
    BY <1>2 DEF Discovered
<1>6. Required(running)' <=> Required(running')
    BY <1>2, <1>3, <1>4 DEF Required
<1> QED
    BY <1>1, <1>5, <1>6 DEF Invoked

\* What the decision about a stage reads of its position.
LEMMA DecidingFacts ==
    ASSUME SInv, Deciding
    PROVE  /\ pos \in 1 .. 26
           /\ Schedule[pos] \in Stages
           /\ InDiscovery <=> pos <= 13
           /\ TypeOK /\ Untried /\ Tried /\ Passed /\ Convolved
<1>1. pos \in 1 .. 26
    BY ScheduleFacts DEF Deciding
<1>2. Schedule[pos] \in Stages
    BY <1>1, StagesFacts, PassFacts
<1>3. InDiscovery <=> pos <= 13
    BY <1>1, ScheduleFacts DEF InDiscovery
<1> QED
    BY <1>1, <1>2, <1>3 DEF SInv, Live, Deciding

\* The stage is skipped.
LEMMA SkipStep == SInv /\ Skip => SInv'
<1> SUFFICES ASSUME SInv, Skip
             PROVE  SInv'
    OBVIOUS
<1> DEFINE s == Schedule[pos]
<1>0. Deciding /\ outcome = "running" /\ running = "none" /\ pos' = pos + 1
    BY DEF Skip, Deciding
<1>1. UNCHANGED <<requested, work, applied, running, announced, reports,
                  cancelled, gaveUp, outcome, runs, settled>>
    BY DEF Skip
<1>2. pos \in 1 .. 26 /\ s \in Stages /\ (InDiscovery <=> pos <= 13)
      /\ TypeOK /\ Untried /\ Tried /\ Passed /\ Convolved
    BY <1>0, DecidingFacts
<1>3. ~Invoked(s) \/ (pos <= 13 /\ cancelled /\ s = "band")
    BY <1>2 DEF Skip, MayMissItsCache
<1> HIDE DEF s
<1>4. TypeOK'
    BY <1>0, <1>1, <1>2, ScheduleFacts DEF TypeOK
<1>5. Kept' = Kept /\ \A x \in Kept : (Done(x)' <=> Done(x)) /\ (Pending(x)' <=> Pending(x))
    BY <1>1, <1>2, Stay
<1>6. \A x \in Kept : x \in Stages /\ x \in requested /\ DPos[x] \in 1 .. 13 /\ CPos[x] \in 14 .. 26
    BY <1>2, KeptFacts, PassFacts
<1>7. Satisfiable("compton")' <=> Satisfiable("compton")
    BY <1>1 DEF Satisfiable, HasSources, Present
<1>8. Untried'
    <2> SUFFICES ASSUME NEW x \in requested, pos + 1 <= DPos[x]
                 PROVE  reports[x] = 0 /\ x \notin gaveUp
        BY <1>0, <1>1 DEF Untried
    <2>1. DPos[x] \in 1 .. 13
        BY <1>2, KeptFacts, PassFacts
    <2> QED
        BY <1>2, <2>1 DEF Untried
<1>9. Tried'
    <2> SUFFICES ASSUME NEW x \in Kept, pos + 1 > DPos[x]
                 PROVE  Done(x) \/ Pending(x) \/ Missed(x)'
        BY <1>0, <1>5 DEF Tried
    <2>1. CASE pos > DPos[x]
        <3>1. Done(x) \/ Pending(x) \/ Missed(x)
            BY <1>2, <2>1 DEF Tried
        <3>2. CASE Missed(x)
            <4>1. x = "band" /\ cancelled /\ pos <= 20 /\ (pos > 7 => ~Satisfiable("compton"))
                BY <3>2, NamedPositions DEF Missed
            <4>2. pos # 20
                <5> SUFFICES ASSUME pos = 20
                             PROVE  FALSE
                    OBVIOUS
                <5>1. s = "compton"
                    BY NamedPositions DEF s
                <5> QED
                    BY <1>2, <1>3, <4>1, <5>1 DEF Invoked, Required
            <4>3. pos = 7 => ~Satisfiable("compton")
                <5> SUFFICES ASSUME pos = 7
                             PROVE  ~Satisfiable("compton")
                    OBVIOUS
                <5>1. s = "compton"
                    BY NamedPositions DEF s
                <5> QED
                    BY <1>2, <1>3, <5>1 DEF Invoked, Discovered
            <4>4. pos' <= 20 /\ (pos' > 7 => ~Satisfiable("compton"))
                BY <1>0, <1>2, <4>1, <4>2, <4>3
            <4> QED
                BY <1>0, <1>1, <1>7, <4>1, <4>4, NamedPositions DEF Missed
        <3> QED
            BY <3>1, <3>2
    <2>2. CASE ~(pos > DPos[x])
        <3>1. pos = DPos[x] /\ pos <= 13
            BY <1>2, <1>6, <2>2
        <3>2. s = x
            BY <1>2, <1>6, <3>1, PassFacts DEF s
        <3>3. reports[x] = 0
            BY <1>2, <1>6, <3>1 DEF Untried
        <3>4. CASE ~Invoked(s)
            BY <1>2, <3>1, <3>2, <3>3, <3>4 DEF Invoked, Discovered, Pending
        <3>5. CASE cancelled /\ s = "band"
            <4>1. pos = 6
                BY <3>1, <3>2, <3>5, NamedPositions
            <4> QED
                BY <1>0, <1>1, <3>2, <3>5, <4>1, NamedPositions DEF Missed
        <3> QED
            BY <1>3, <3>4, <3>5
    <2> QED
        BY <2>1, <2>2
<1>10. Passed'
    <2> SUFFICES ASSUME NEW x \in Kept, pos + 1 > CPos[x]
                 PROVE  ~Pending(x)
        BY <1>0, <1>5 DEF Passed
    <2>1. CASE pos > CPos[x]
        BY <1>2, <2>1 DEF Passed
    <2>2. CASE ~(pos > CPos[x])
        <3>1. pos = CPos[x] /\ pos \in 14 .. 26
            BY <1>2, <1>6, <2>2
        <3>2. s = x
            BY <1>2, <1>6, <3>1, PassFacts DEF s
        <3>3. ~Required(x)
            BY <1>2, <1>3, <3>1, <3>2 DEF Invoked
        <3> QED
            BY <1>0, <3>1, <3>2, <3>3, SecondPass DEF s, Live
    <2> QED
        BY <2>1, <2>2
<1>11. Convolved'
    <2> SUFFICES ASSUME "sfconv" \in requested
                 PROVE  Convolved'
        BY <1>1 DEF Convolved
    <2>1. /\ reports["sfconv"] \in 0 .. 1
          /\ reports["sfconv"] = 1 => Present("ff2x") /\ applied = 1
        BY <1>2 DEF Convolved
    <2>2. pos + 1 > 26 => reports["sfconv"] # 0
        <3> SUFFICES ASSUME pos + 1 > 26
                     PROVE  reports["sfconv"] # 0
            OBVIOUS
        <3>1. pos = 26
            BY <1>2
        <3>2. s = "sfconv"
            BY <3>1, NamedPositions DEF s
        <3> QED
            BY <1>2, <1>3, <3>1, <3>2 DEF Invoked, Required
    <2>3. pos + 1 > 26 => reports["sfconv"] = 1
        BY <2>1, <2>2
    <2> QED
        BY <1>0, <1>1, <2>1, <2>3 DEF Convolved, Present
<1> QED
    BY <1>0, <1>1, <1>4, <1>8, <1>9, <1>10, <1>11 DEF SInv, Going, Live

\* The stage is announced, or the run stops before it.
LEMMA AnnounceStep == SInv /\ Announce => SInv'
<1> SUFFICES ASSUME SInv, Announce
             PROVE  SInv'
    OBVIOUS
<1> DEFINE s == Schedule[pos]
<1>0. Deciding /\ outcome = "running" /\ running = "none"
    BY DEF Announce, Deciding
<1>1. UNCHANGED <<requested, work, applied, pos, reports, cancelled, gaveUp,
                  runs, settled>>
    BY DEF Announce
<1>2. pos \in 1 .. 26 /\ s \in Stages /\ (InDiscovery <=> pos <= 13)
      /\ TypeOK /\ Untried /\ Tried /\ Passed /\ Convolved
    BY <1>0, DecidingFacts
<1>3. \/ cancelled /\ outcome' = "interrupted" /\ UNCHANGED <<running, announced>>
      \/ ~cancelled /\ running' = s /\ announced' = Announces(s) /\ UNCHANGED outcome
    BY DEF Announce
<1>4. Invoked(s) \/ cancelled
    BY DEF Announce, MayMissItsCache
<1> HIDE DEF s
<1>5. TypeOK'
    BY <1>1, <1>2, <1>3 DEF TypeOK, Announces
<1>6. CASE cancelled /\ outcome' = "interrupted" /\ UNCHANGED <<running, announced>>
    BY <1>0, <1>1, <1>5, <1>6 DEF SInv, Going, Live
<1>7. CASE ~cancelled /\ running' = s /\ announced' = Announces(s) /\ UNCHANGED outcome
    <2>1. Kept' = Kept /\ \A x \in Kept : (Done(x)' <=> Done(x)) /\ (Pending(x)' <=> Pending(x))
        BY <1>1, <1>2, Stay
    <2>2. Going'
        <3>1. running' = s /\ s = Schedule[pos] /\ running' # "none"
            BY <1>2, <1>7, StagesFacts DEF s
        <3>2. Invoked(running')
            BY <1>4, <1>7, <3>1
        <3>3. Invoked(running)'
            BY <1>1, <3>2, InvokedStays
        <3> QED
            BY <1>0, <1>1, <1>2, <1>7, <3>1, <3>3 DEF Going
    <2>3. Tried'
        BY <1>1, <1>2, <1>7, <2>1 DEF Tried, Missed
    <2>4. Untried' /\ Passed' /\ Convolved'
        BY <1>1, <1>2, <2>1 DEF Untried, Passed, Convolved, Present
    <2> QED
        BY <1>0, <1>1, <1>5, <1>7, <2>2, <2>3, <2>4 DEF SInv, Live
<1> QED
    BY <1>3, <1>6, <1>7

\* The stage the run is executing, its position and what holds around it.
LEMMA RunningFacts ==
    ASSUME SInv, running # "none"
    PROVE  /\ pos \in 1 .. 26
           /\ outcome = "running"
           /\ running = Schedule[pos] /\ running \in Stages
           /\ InDiscovery <=> pos <= 13
           /\ Invoked(running)
           /\ TypeOK /\ Untried /\ Tried /\ Passed /\ Convolved
           /\ \A x \in Kept : ~Missed(x)
<1>1. pos \in 1 .. 26 /\ running = Schedule[pos] /\ outcome = "running" /\ Invoked(running)
    BY DEF SInv, Going
<1>2. Schedule[pos] \in Stages
    BY <1>1, StagesFacts, PassFacts
<1>3. InDiscovery <=> pos <= 13
    BY <1>1, ScheduleFacts DEF InDiscovery
<1> QED
    BY <1>1, <1>2, <1>3 DEF SInv, Live, Missed

\* Running a stage from what is there delivers it.
LEMMA CompleteDelivers ==
    ASSUME SInv, Complete, NEW s \in Kept, running = s, pos <= 13
    PROVE  Done(s)'
<1>1. pos \in 1 .. 26 /\ s \in Stages /\ s = Schedule[pos] /\ TypeOK /\ Untried
    BY RunningFacts DEF Complete
<1>2. s \in requested /\ s # "sfconv" /\ s \notin {"rhorrp", "eels", "eelsmdff"}
    BY <1>1, KeptFacts
<1>3. work' = [work EXCEPT ![s] = Result(s)]
    BY <1>2 DEF Complete
<1>4. reports' = [reports EXCEPT ![s] = @ + 1]
    BY <1>2 DEF Complete, Reports
<1>5. s \in Stages /\ s \notin Sources[s] /\ Sources[s] \subseteq Stages
    BY <1>1, SourceFacts
<1>6. Satisfiable(s)
    BY <1>2 DEF Complete, CanRun
<1>7. work \in [Stages -> {"none", "old", "new"}] /\ reports \in [Stages -> Nat]
    BY <1>1 DEF TypeOK
<1>8. work'[s] = Result(s) /\ \A t \in Sources[s] : work'[t] = work[t]
    BY <1>3, <1>5, <1>7
<1>9. reports'[s] = 1
    <2>1. reports[s] = 0
        BY <1>1, <1>2, PassFacts DEF Untried
    <2> QED
        BY <1>4, <1>5, <1>7, <2>1
<1>10. (\A t \in Sources[s] : work'[t] # "none") <=> HasSources(s)
    BY <1>8 DEF HasSources, Present
<1>11. CASE HasSources(s)
    <2>1. Result(s) = IF \A t \in Sources[s] : work[t] = "new" THEN "new" ELSE "old"
        BY <1>11 DEF Result
    <2>2. work'[s] # "none"
        BY <1>8, <2>1
    <2>3. work'[s] = "new" <=> \A t \in Sources[s] : work'[t] = "new"
        BY <1>8, <2>1
    <2> QED
        BY <1>2, <1>9, <2>2, <2>3 DEF Done, Delivered, UpToDate, Present
<1>12. CASE ~HasSources(s)
    <2>1. Present(s) /\ Result(s) = work[s]
        BY <1>6, <1>12 DEF Satisfiable, Result
    <2>2. work'[s] # "none"
        BY <1>8, <2>1 DEF Present
    <2>3. ~\A t \in Sources[s] : work'[t] # "none"
        BY <1>10, <1>12
    <2> QED
        BY <1>2, <1>9, <2>2, <2>3 DEF Done, Delivered, UpToDate, HasSources, Present
<1> QED
    BY <1>11, <1>12

\* Running a stage changes nothing of the stages the invariant is about, except
\* that the first pass delivers the stage itself.
LEMMA CompleteOthers ==
    ASSUME SInv, Complete, NEW x \in Kept, running # x
    PROVE  /\ pos \notin {DPos[x], CPos[x]}
           /\ pos > DPos[x] => (Done(x)' <=> Done(x)) /\ (Pending(x)' <=> Pending(x))
<1> DEFINE s == running
<1>1. /\ pos \in 1 .. 26 /\ s \in Stages /\ s = Schedule[pos] /\ Invoked(s)
      /\ InDiscovery <=> pos <= 13
      /\ TypeOK
    BY RunningFacts DEF Complete
<1>2. /\ work' = IF s \in requested \ {"sfconv"} THEN [work EXCEPT ![s] = Result(s)] ELSE work
      /\ reports' = IF Reports(s) THEN [reports EXCEPT ![s] = @ + 1] ELSE reports
      /\ s \in requested => CanRun(s)
      /\ UNCHANGED <<requested, gaveUp>>
    BY DEF Complete
<1> HIDE DEF s
<1>3. x \in Stages /\ x \in InOrder /\ x \in requested /\ x # "sfconv"
    BY <1>1, KeptFacts
<1>4. work \in [Stages -> {"none", "old", "new"}] /\ reports \in [Stages -> Nat]
    BY <1>1 DEF TypeOK
<1>5. s # x
    BY DEF s
<1>6. reports'[x] = reports[x]
    BY <1>2, <1>3, <1>4, <1>5
<1>7. work'[x] = work[x]
    BY <1>2, <1>3, <1>4, <1>5
<1>8. pos \notin {DPos[x], CPos[x]}
    BY <1>1, <1>3, <1>5, PositionFacts
<1>9. ASSUME pos > DPos[x]
      PROVE  \A t \in Sources[x] : work'[t] = work[t]
    <2> SUFFICES ASSUME NEW t \in Sources[x]
                 PROVE  work'[t] = work[t]
        OBVIOUS
    <2>1. t \in Stages /\ t \in InOrder /\ t # "sfconv" /\ DPos[t] < DPos[x]
        BY <1>3, SourceFacts
    <2>2. CASE s \in requested \ {"sfconv"} /\ s = t
        <3>1. s \in Kept
            BY <2>1, <2>2 DEF Kept
        <3>2. CASE pos <= 13
            <4>1. pos = DPos[t]
                <5>1. pos \in 1 .. 13 /\ Schedule[pos] = t
                    BY <1>1, <2>2, <3>2
                <5> QED
                    BY <5>1, PositionFacts
            <4>2. DPos[x] \in 1 .. 13 /\ DPos[t] \in 1 .. 13
                BY <1>3, <2>1, PositionFacts
            <4> QED
                BY <1>9, <2>1, <4>1, <4>2
        <3>3. CASE pos > 13
            <4>1. ~CanRun(s)
                BY <1>1, <3>1, <3>3, SecondPass, RunningFacts DEF s, Live, Complete
            <4> QED
                BY <1>2, <2>2, <4>1
        <3> QED
            BY <1>1, <3>2, <3>3
    <2>3. CASE ~(s \in requested \ {"sfconv"} /\ s = t)
        BY <1>2, <1>4, <2>1, <2>3
    <2> QED
        BY <2>2, <2>3
<1>10. pos > DPos[x] => (Done(x)' <=> Done(x)) /\ (Pending(x)' <=> Pending(x))
    BY <1>1, <1>2, <1>6, <1>7, <1>9, Frame
<1> QED
    BY <1>8, <1>10

\* What running a stage does to the spectra and the report of SFCONV.
LEMMA CompleteConvolves ==
    ASSUME SInv, Complete
    PROVE  Convolved' /\ applied' \in 0 .. 1
<1>1. /\ pos \in 1 .. 26 /\ running \in Stages /\ running = Schedule[pos] /\ Invoked(running)
      /\ InDiscovery <=> pos <= 13
      /\ TypeOK /\ Untried /\ Convolved
    BY RunningFacts DEF Complete
<1>2. /\ work' = IF running \in requested \ {"sfconv"}
                 THEN [work EXCEPT ![running] = Result(running)] ELSE work
      /\ applied' = IF running = "ff2x" /\ running \in requested /\ HasSources(running) THEN 0
                    ELSE IF running = "sfconv" /\ Reports(running) THEN applied + 1
                    ELSE applied
      /\ reports' = IF Reports(running) THEN [reports EXCEPT ![running] = @ + 1] ELSE reports
      /\ running \in requested => CanRun(running)
      /\ pos' = pos + 1
      /\ UNCHANGED requested
    BY DEF Complete
<1>3. /\ work \in [Stages -> {"none", "old", "new"}] /\ reports \in [Stages -> Nat]
      /\ "sfconv" \in Stages /\ "ff2x" \in Stages /\ applied \in 0 .. 1
    BY <1>1, StagesFacts DEF TypeOK, SInv
<1>4. CASE running = "sfconv"
    <2>1. work' = work
        BY <1>2, <1>4
    <2>2. CASE Reports("sfconv")
        <3>1. "sfconv" \in requested /\ Present("ff2x") /\ applied = 0
            BY <1>2, <1>4, <2>2 DEF Reports, CanRun
        <3>2. applied' = 1
            BY <1>2, <1>4, <2>2, <3>1
        <3>3. reports["sfconv"] = 0
            <4>1. CASE pos <= 13
                <5>1. pos \in 1 .. 13 /\ Schedule[pos] = "sfconv"
                    BY <1>1, <1>4, <4>1
                <5>2. pos = DPos["sfconv"]
                    BY <5>1, PositionFacts
                <5>3. pos <= DPos["sfconv"]
                    BY <5>1, <5>2
                <5> QED
                    BY <1>1, <3>1, <5>3 DEF Untried
            <4>2. CASE ~(pos <= 13)
                BY <1>1, <1>4, <4>2 DEF Invoked, Required
            <4> QED
                BY <4>1, <4>2
        <3>4. reports'["sfconv"] = 1
            BY <1>2, <1>3, <1>4, <2>2, <3>3
        <3>5. Present("ff2x")'
            BY <2>1, <3>1 DEF Present
        <3> QED
            BY <3>2, <3>4, <3>5 DEF Convolved
    <2>3. CASE ~Reports("sfconv")
        <3>1. applied' = applied /\ reports' = reports
            BY <1>2, <1>4, <2>3
        <3>2. "sfconv" \in requested => ~Present("ff2x")
            BY <2>3 DEF Reports
        <3> QED
            BY <1>1, <1>2, <1>3, <2>1, <3>1, <3>2 DEF Convolved, Present
    <2> QED
        BY <2>2, <2>3
<1>5. CASE running # "sfconv"
    <2>1. reports'["sfconv"] = reports["sfconv"]
        BY <1>2, <1>3, <1>5
    <2>2. pos # 26
        BY <1>1, <1>5, NamedPositions
    <2>3. ~(pos' > 26)
        BY <1>1, <1>2, <2>2
    <2>4. applied' \in 0 .. 1
        BY <1>2, <1>3, <1>5
    <2>5. ASSUME "sfconv" \in requested, reports["sfconv"] = 1
          PROVE  Present("ff2x")' /\ applied' = 1
        <3>1. pos > 13
            <4>1. ~(pos <= DPos["sfconv"])
                BY <1>1, <2>5 DEF Untried
            <4> QED
                BY <1>1, <4>1, NamedPositions
        <3>2. Present("ff2x") /\ applied = 1
            BY <1>1, <2>5 DEF Convolved
        <3>3. ~(running = "ff2x" /\ running \in requested)
            <4> SUFFICES ASSUME running = "ff2x", running \in requested
                         PROVE  FALSE
                OBVIOUS
            <4>1. running \in Kept
                BY <1>1, KeptFacts
            <4>2. ~CanRun(running)
                BY <1>1, <3>1, <4>1, SecondPass, RunningFacts DEF Live, Complete
            <4> QED
                BY <1>2, <4>2
        <3>4. work'["ff2x"] = work["ff2x"]
            BY <1>2, <1>3, <3>3
        <3>5. applied' = applied
            BY <1>2, <1>5, <3>3
        <3> QED
            BY <3>2, <3>4, <3>5 DEF Present
    <2>6. "sfconv" \in requested => reports["sfconv"] \in 0 .. 1
        BY <1>1 DEF Convolved
    <2> QED
        BY <1>2, <2>1, <2>3, <2>4, <2>5, <2>6 DEF Convolved
<1> QED
    BY <1>4, <1>5

\* The stage runs to its end.
LEMMA CompleteStep == SInv /\ Complete => SInv'
<1> SUFFICES ASSUME SInv, Complete
             PROVE  SInv'
    OBVIOUS
<1>1. /\ pos \in 1 .. 26 /\ running \in Stages /\ running = Schedule[pos]
      /\ outcome = "running"
      /\ TypeOK /\ Untried /\ Tried /\ Passed
      /\ \A x \in Kept : ~Missed(x)
    BY RunningFacts DEF Complete
<1>2. /\ work' = IF running \in requested \ {"sfconv"}
                 THEN [work EXCEPT ![running] = Result(running)] ELSE work
      /\ reports' = IF Reports(running) THEN [reports EXCEPT ![running] = @ + 1] ELSE reports
      /\ running' = "none" /\ pos' = pos + 1
      /\ UNCHANGED <<requested, announced, cancelled, gaveUp, outcome, runs, settled>>
    BY DEF Complete
<1>3. Convolved' /\ applied' \in 0 .. 1
    BY CompleteConvolves
<1>4. TypeOK'
    <2>1. Result(running) \in {"none", "old", "new"}
        BY <1>1 DEF TypeOK, Result
    <2>2. work' \in [Stages -> {"none", "old", "new"}]
        BY <1>1, <1>2, <2>1 DEF TypeOK
    <2>3. reports' \in [Stages -> Nat]
        BY <1>1, <1>2 DEF TypeOK
    <2>4. pos' \in 1 .. Len(Schedule) + 1
        BY <1>1, <1>2, ScheduleFacts
    <2>5. applied' \in Nat
        BY <1>3
    <2> QED
        BY <1>1, <1>2, <2>2, <2>3, <2>4, <2>5 DEF TypeOK
<1>5. Kept' = Kept
    BY <1>2 DEF Kept
<1>6. \A x \in Kept : x \in Stages /\ DPos[x] \in 1 .. 13 /\ CPos[x] \in 14 .. 26
    BY <1>1, KeptFacts, PassFacts
<1>7. Untried'
    <2> SUFFICES ASSUME NEW x \in requested, pos + 1 <= DPos[x]
                 PROVE  reports'[x] = 0 /\ x \notin gaveUp
        BY <1>2 DEF Untried
    <2>1. x \in Stages /\ DPos[x] \in 1 .. 13
        BY <1>1, KeptFacts, PassFacts
    <2>2. reports[x] = 0 /\ x \notin gaveUp
        BY <1>1, <2>1 DEF Untried
    <2>3. running # x
        BY <1>1, <2>1, PassFacts
    <2>4. reports'[x] = reports[x]
        BY <1>1, <1>2, <2>1, <2>3 DEF TypeOK
    <2> QED
        BY <2>2, <2>4
<1>8. Tried'
    <2> SUFFICES ASSUME NEW x \in Kept, pos + 1 > DPos[x]
                 PROVE  Done(x)' \/ Pending(x)'
        BY <1>2, <1>5 DEF Tried
    <2>1. CASE running = x /\ pos <= 13
        BY <2>1, CompleteDelivers
    <2>2. CASE running = x /\ pos > 13
        <3>1. pos \in 14 .. 26 /\ Schedule[pos] = x /\ x \in requested
            BY <1>1, <2>2, KeptFacts
        <3>2. ~CanRun(x)
            BY <1>1, <2>2, <3>1, SecondPass DEF Live
        <3> QED
            BY <2>2, <3>1, <3>2 DEF Complete
    <2>3. CASE running # x
        <3>1. pos # DPos[x]
            BY <2>3, CompleteOthers
        <3>2. pos > DPos[x]
            BY <1>1, <1>6, <3>1
        <3>3. Done(x) \/ Pending(x)
            BY <1>1, <3>2 DEF Tried
        <3> QED
            BY <2>3, <3>2, <3>3, CompleteOthers
    <2> QED
        BY <1>1, <2>1, <2>2, <2>3
<1>9. Passed'
    <2> SUFFICES ASSUME NEW x \in Kept, pos + 1 > CPos[x]
                 PROVE  ~Pending(x)'
        BY <1>2, <1>5 DEF Passed
    <2>1. CASE running = x
        <3>1. pos \in 14 .. 26 /\ Schedule[pos] = x /\ x \in requested
            BY <1>1, <1>6, <2>1, KeptFacts
        <3>2. ~CanRun(x)
            BY <1>1, <2>1, <3>1, SecondPass DEF Live
        <3> QED
            BY <2>1, <3>1, <3>2 DEF Complete
    <2>2. CASE running # x
        <3>1. pos # CPos[x]
            BY <2>2, CompleteOthers
        <3>2. pos > CPos[x] /\ pos > DPos[x]
            BY <1>1, <1>6, <3>1
        <3>3. ~Pending(x)
            BY <1>1, <3>2 DEF Passed
        <3> QED
            BY <2>2, <3>2, <3>3, CompleteOthers
    <2> QED
        BY <2>1, <2>2
<1>10. work'["sfconv"] = "none"
    BY <1>1, <1>2, StagesFacts DEF SInv, TypeOK
<1> QED
    BY <1>1, <1>2, <1>3, <1>4, <1>7, <1>8, <1>9, <1>10 DEF SInv, Going, Live

\* The error of an attempt of the first pass is dropped.
LEMMA GiveUpStep == SInv /\ GiveUp => SInv'
<1> SUFFICES ASSUME SInv, GiveUp
             PROVE  SInv'
    OBVIOUS
<1> DEFINE s == running
<1>1. /\ pos \in 1 .. 26 /\ s \in Stages /\ s = Schedule[pos]
      /\ outcome = "running" /\ (InDiscovery <=> pos <= 13)
      /\ TypeOK /\ Untried /\ Tried /\ Passed /\ Convolved
      /\ \A x \in Kept : ~Missed(x)
    BY RunningFacts DEF GiveUp
<1>2. /\ gaveUp' = gaveUp \cup {s}
      /\ running' = "none" /\ pos' = pos + 1
      /\ UNCHANGED <<requested, work, applied, announced, reports, cancelled,
                     outcome, runs, settled>>
    BY DEF GiveUp
<1>3. pos \in 1 .. 13 /\ s \in requested /\ s \in {"pot", "band"} /\ ~Completed(s)
    BY <1>1 DEF GiveUp, MayGiveUp, Completed
<1> HIDE DEF s
<1>4. s \in Stages /\ s \in Kept /\ pos = DPos[s]
    <2>1. pos = DPos[s]
        BY <1>1, <1>3, PositionFacts
    <2> QED
        BY <1>1, <1>3, <2>1, KeptFacts
<1>5. TypeOK'
    <2>1. pos' \in 1 .. Len(Schedule) + 1
        BY <1>2, <1>3, ScheduleFacts
    <2>2. gaveUp' \subseteq Stages
        BY <1>1, <1>2 DEF TypeOK
    <2> QED
        BY <1>1, <1>2, <2>1, <2>2 DEF TypeOK
<1>6. Kept' = Kept
    BY <1>2 DEF Kept
<1>7. \A x \in Kept : x \in Stages /\ DPos[x] \in 1 .. 13 /\ CPos[x] \in 14 .. 26
    BY <1>1, KeptFacts, PassFacts
<1>8. Untried'
    <2> SUFFICES ASSUME NEW x \in requested, pos + 1 <= DPos[x]
                 PROVE  reports[x] = 0 /\ x \notin gaveUp'
        BY <1>2 DEF Untried
    <2>1. DPos[x] \in 1 .. 13
        BY <1>1, KeptFacts, PassFacts
    <2> QED
        BY <1>1, <1>2, <1>3, <1>4, <2>1 DEF Untried
<1>9. Tried'
    <2> SUFFICES ASSUME NEW x \in Kept, pos + 1 > DPos[x]
                 PROVE  Done(x)' \/ Pending(x)'
        BY <1>2, <1>6 DEF Tried
    <2>1. CASE x = s
        <3>1. reports[s] = 0
            BY <1>3, <1>4, <1>1 DEF Untried
        <3>2. ~Completed(x)'
            BY <1>2, <1>3, <2>1 DEF Completed, Present, HasSources
        <3> QED
            BY <1>2, <2>1, <3>1, <3>2 DEF Pending
    <2>2. CASE x # s
        <3>1. pos # DPos[x]
            BY <1>1, <1>7, <2>2, PositionFacts
        <3>2. pos > DPos[x]
            BY <1>3, <1>7, <3>1
        <3>3. Done(x) \/ Pending(x)
            BY <1>1, <3>2 DEF Tried
        <3>4. x \in gaveUp' <=> x \in gaveUp
            BY <1>2, <2>2
        <3> QED
            BY <1>1, <1>2, <3>3, <3>4, Frame
    <2> QED
        BY <2>1, <2>2
<1>10. Passed'
    <2>1. \A x \in Kept : ~(pos' > CPos[x])
        BY <1>2, <1>3, <1>7
    <2> QED
        BY <1>6, <2>1 DEF Passed
<1>11. Convolved'
    <2>1. ~(pos' > 26)
        BY <1>2, <1>3
    <2> QED
        BY <1>1, <1>2, <2>1 DEF Convolved, Present
<1> QED
    BY <1>1, <1>2, <1>3, <1>5, <1>8, <1>9, <1>10, <1>11 DEF SInv, Going, Live

\* The run ends with an error.
LEMMA BreakStep == SInv /\ Break => SInv'
<1> SUFFICES ASSUME SInv, Break
             PROVE  SInv'
    OBVIOUS
<1>1. outcome' \in {"failed", "interrupted"} /\ running' = "none"
    BY DEF Break
<1>2. UNCHANGED <<requested, work, pos, announced, reports, cancelled, gaveUp, runs, settled>>
    BY DEF Break
<1>3. applied' \in 0 .. 1
    <2>1. applied \in 0 .. 1
        BY DEF SInv
    <2>2. CASE applied' = applied
        BY <2>1, <2>2
    <2>3. CASE applied' = applied + 1 /\ running = "sfconv" /\ Reports(running) /\ CanRun(running)
        BY <2>3 DEF Reports, CanRun
    <2> QED
        BY <2>2, <2>3 DEF Break
<1>4. TypeOK'
    BY <1>1, <1>2, <1>3 DEF SInv, TypeOK
<1> QED
    BY <1>1, <1>2, <1>3, <1>4 DEF SInv, Going, Live

\* Both passes are done.
LEMMA ReturnStep == SInv /\ Return => SInv'
<1> SUFFICES ASSUME SInv, Return
             PROVE  SInv'
    OBVIOUS
<1>1. /\ pos = 27 /\ outcome = "running" /\ outcome' = "ok"
      /\ settled' = IF settled = 2 THEN 2 ELSE settled + 1
      /\ UNCHANGED <<requested, work, applied, pos, running, announced, reports,
                     cancelled, gaveUp, runs>>
    BY ScheduleFacts DEF Return
<1>2. TypeOK /\ Untried /\ Tried /\ Passed /\ Convolved
    BY <1>1 DEF SInv, Live
<1>3. running = "none"
    BY <1>1 DEF SInv, Going
<1>4. TypeOK'
    BY <1>1, <1>2 DEF TypeOK
<1>5. Kept' = Kept /\ \A x \in Kept : (Done(x)' <=> Done(x)) /\ (Pending(x)' <=> Pending(x))
    BY <1>1, <1>2, Stay
<1>6. \A x \in Kept : ~Missed(x)
    BY <1>1, NamedPositions DEF Missed
<1>7. Untried' /\ Tried' /\ Passed' /\ Convolved'
    BY <1>1, <1>2, <1>5, <1>6 DEF Untried, Tried, Passed, Convolved, Present
<1> QED
    BY <1>1, <1>3, <1>4, <1>7 DEF SInv, Going, Live

\* The run is cancelled, or its deadline passes.
LEMMA CancelStep == SInv /\ Cancel => SInv'
<1> SUFFICES ASSUME SInv, Cancel
             PROVE  SInv'
    OBVIOUS
<1>1. /\ outcome = "running" /\ ~cancelled /\ cancelled' = TRUE
      /\ UNCHANGED <<requested, work, applied, pos, running, announced, reports,
                     gaveUp, outcome, runs, settled>>
    BY DEF Cancel
<1>2. TypeOK /\ Untried /\ Tried /\ Passed /\ Convolved
    BY <1>1 DEF SInv, Live
<1>3. TypeOK'
    BY <1>1, <1>2 DEF TypeOK
<1>4. Kept' = Kept /\ \A x \in Kept : (Done(x)' <=> Done(x)) /\ (Pending(x)' <=> Pending(x))
    BY <1>1, <1>2, Stay
<1>5. \A x \in Kept : ~Missed(x)
    BY <1>1 DEF Missed
<1>6. Untried' /\ Tried' /\ Passed' /\ Convolved'
    BY <1>1, <1>2, <1>4, <1>5 DEF Untried, Tried, Passed, Convolved, Present
<1>7. Going'
    <2>1. Invoked(running)' <=> Invoked(running')
        BY <1>1, InvokedStays
    <2> QED
        BY <1>1, <2>1 DEF SInv, Going
<1> QED
    BY <1>1, <1>3, <1>6, <1>7 DEF SInv, Live

\* At the start of a run nothing is tried, reported or given up.
LEMMA Fresh ==
    TypeOK /\ pos = 1 /\ reports = [s \in Stages |-> 0] /\ gaveUp = {} =>
        Untried /\ Tried /\ Passed /\ Convolved
<1> SUFFICES ASSUME TypeOK, pos = 1, reports = [s \in Stages |-> 0], gaveUp = {}
             PROVE  Untried /\ Tried /\ Passed /\ Convolved
    OBVIOUS
<1>1. \A x \in Stages : DPos[x] \in 1 .. 13 /\ CPos[x] \in 14 .. 26 /\ reports[x] = 0
    BY PositionFacts
<1>2. "sfconv" \in Stages /\ requested \subseteq Stages
    BY KeptFacts, StagesFacts
<1>3. Untried
    BY <1>1, <1>2 DEF Untried
<1>4. \A x \in Kept : ~(pos > DPos[x]) /\ ~(pos > CPos[x])
    BY <1>1, KeptFacts
<1>5. Tried /\ Passed
    BY <1>4 DEF Tried, Passed
<1>6. Convolved
    BY <1>1, <1>2 DEF Convolved
<1> QED
    BY <1>3, <1>5, <1>6

\* The directory is run once more.
LEMMA RunAgainStep == SInv /\ RunAgain => SInv'
<1> SUFFICES ASSUME SInv, RunAgain
             PROVE  SInv'
    OBVIOUS
<1>1. /\ runs < MaxRuns /\ runs' = runs + 1 /\ pos' = 1 /\ running' = "none"
      /\ announced' = "none" /\ reports' = [s \in Stages |-> 0]
      /\ cancelled' = FALSE /\ gaveUp' = {} /\ outcome' = "running"
      /\ UNCHANGED <<requested, applied>>
    BY DEF RunAgain
<1>2. PICK edited \in BOOLEAN :
        /\ work' = IF edited
                   THEN [s \in Stages |-> IF Present(s) THEN "old" ELSE "none"]
                   ELSE work
        /\ settled' = IF edited \/ outcome # "ok" THEN 0 ELSE settled
    BY DEF RunAgain
<1>3. TypeOK
    BY DEF SInv
<1>4. work' \in [Stages -> {"none", "old", "new"}]
    BY <1>2, <1>3 DEF TypeOK
<1>5. work'["sfconv"] = "none"
    BY <1>2, StagesFacts DEF SInv, Present
<1>6. runs' \in 1 .. MaxRuns
    BY <1>1, <1>3, MaxRunsAssumption DEF TypeOK
<1>7. reports' \in [Stages -> Nat] /\ pos' \in 1 .. Len(Schedule) + 1
    BY <1>1, ScheduleFacts
<1>8. settled' \in 0 .. 2
    BY <1>2, <1>3 DEF TypeOK
<1>9. TypeOK'
    BY <1>1, <1>3, <1>4, <1>6, <1>7, <1>8 DEF TypeOK
<1>10. (TypeOK /\ pos = 1 /\ reports = [s \in Stages |-> 0] /\ gaveUp = {} =>
            Untried /\ Tried /\ Passed /\ Convolved)'
    BY Fresh, PTL
<1>11. (Untried /\ Tried /\ Passed /\ Convolved)'
    BY <1>1, <1>9, <1>10
<1> QED
    BY <1>1, <1>5, <1>9, <1>11 DEF SInv, Going, Live

\* A directory that holds anything of an earlier input.
LEMMA InitInv == Init => SInv
<1> SUFFICES ASSUME Init
             PROVE  SInv
    OBVIOUS
<1>1. /\ pos = 1 /\ running = "none" /\ announced = "none" /\ cancelled = FALSE
      /\ reports = [s \in Stages |-> 0] /\ gaveUp = {} /\ outcome = "running"
      /\ runs = 1 /\ settled = 0 /\ requested \in Requests
    BY DEF Init
<1>2. work \in [Stages -> {"none", "old"}] /\ work["sfconv"] = "none"
    BY StagesFacts DEF Init
<1>3. applied \in 0 .. 1
    BY DEF Init
<1>4. reports \in [Stages -> Nat] /\ pos \in 1 .. Len(Schedule) + 1 /\ runs \in 1 .. MaxRuns
    BY <1>1, ScheduleFacts, MaxRunsAssumption
<1>5. work \in [Stages -> {"none", "old", "new"}] /\ applied \in Nat
    BY <1>2, <1>3
<1>6. TypeOK
    <2>1. announced \in Stages \cup {"none", "rixs"} /\ running \in Stages \cup {"none"}
        BY <1>1
    <2>2. cancelled \in BOOLEAN /\ outcome \in {"running", "ok", "failed", "interrupted"}
        BY <1>1
    <2>3. gaveUp \subseteq Stages /\ settled \in 0 .. 2 /\ requested \in Requests
        BY <1>1
    <2> QED
        BY <1>4, <1>5, <2>1, <2>2, <2>3 DEF TypeOK
<1>7. Untried /\ Tried /\ Passed /\ Convolved
    BY <1>1, <1>6, Fresh
<1> QED
    BY <1>1, <1>2, <1>3, <1>6, <1>7 DEF SInv, Going

-----------------------------------------------------------------------------
(* The theorems. *)

\* Where every stage stands at each position of the schedule.
THEOREM ScheduleInvariant == Spec => []SInv
<1>1. SInv /\ UNCHANGED vars => SInv'
    <2> SUFFICES ASSUME SInv, UNCHANGED vars
                 PROVE  SInv'
        OBVIOUS
    <2>1. TypeOK
        BY DEF SInv
    <2>2. UNCHANGED <<requested, work, applied, pos, reports, gaveUp>>
        BY DEF vars
    <2>3. UNCHANGED <<running, announced, cancelled, outcome, runs, settled>>
        BY DEF vars
    <2>4. Kept' = Kept /\ \A x \in Kept : (Done(x)' <=> Done(x)) /\ (Pending(x)' <=> Pending(x))
        BY <2>1, <2>2, Stay
    <2>5. TypeOK'
        BY <2>1, <2>2, <2>3 DEF TypeOK
    <2>6. Invoked(running)' <=> Invoked(running')
        BY <2>2, InvokedStays
    <2>7. \A x \in Kept : Missed(x)' <=> Missed(x)
        BY <2>2, <2>3 DEF Missed, Satisfiable, HasSources, Present
    <2>8. Going'
        BY <2>2, <2>3, <2>6 DEF SInv, Going
    <2>9. Live' => Untried' /\ Tried' /\ Passed' /\ Convolved'
        BY <2>2, <2>3, <2>4, <2>7 DEF SInv, Live, Untried, Tried, Passed, Convolved, Present
    <2> QED
        BY <2>2, <2>3, <2>5, <2>8, <2>9 DEF SInv
<1>2. SInv /\ [Next]_vars => SInv'
    BY <1>1, SkipStep, AnnounceStep, CompleteStep, GiveUpStep, BreakStep, ReturnStep,
        CancelStep, RunAgainStep DEF Next
<1> QED
    BY <1>2, InitInv, PTL DEF Spec

\* The files, reports and positions of any number of runs stay well typed.
THEOREM TypeCorrect == Spec => []TypeOK
<1>1. SInv => TypeOK
    BY DEF SInv
<1> QED
    BY <1>1, ScheduleInvariant, PTL

\* sfconv.rs: whatever runs, stops and is run again, the spectra of FF2X are
\* never convolved twice.
THEOREM ConvolvedAtMostOnce == Spec => []ConvolvedOnce
<1>1. SInv => ConvolvedOnce
    BY DEF SInv, ConvolvedOnce
<1> QED
    BY <1>1, ScheduleInvariant, PTL

\* Nothing requested is pending or missed once both passes are done.
LEMMA CompleteAtTheEnd == SInv => SuccessIsComplete
<1> SUFFICES ASSUME SInv, outcome = "ok", NEW s \in requested \cap InOrder
             PROVE  Delivered(s) /\ (Reports(s) => reports[s] = 1)
    BY DEF SuccessIsComplete
<1>1. TypeOK /\ pos = 27 /\ Tried /\ Passed /\ Convolved
    BY DEF SInv, Live
<1>2. CASE s = "sfconv"
    BY <1>1, <1>2 DEF Convolved, Delivered, Reports
<1>3. CASE s # "sfconv"
    <2>1. s \in Kept
        BY <1>3 DEF Kept
    <2>2. DPos[s] \in 1 .. 13 /\ CPos[s] \in 14 .. 26
        BY <1>1, <2>1, KeptFacts, PassFacts
    <2>3. ~Missed(s)
        BY <1>1, NamedPositions DEF Missed
    <2>4. pos > DPos[s] /\ pos > CPos[s]
        BY <1>1, <2>2
    <2>5. Done(s)
        BY <1>1, <2>1, <2>3, <2>4 DEF Tried, Passed
    <2> QED
        BY <2>5 DEF Done
<1> QED
    BY <1>2, <1>3

\* execute_pipeline: a run that returns success has delivered and reported
\* every requested stage that is tried after its sources, whatever was left in
\* the directory, whichever attempts gave up and however late it was cancelled.
THEOREM SuccessfulRunsAreComplete == Spec => []SuccessIsComplete
<1> QED
    BY CompleteAtTheEnd, ScheduleInvariant, PTL

-----------------------------------------------------------------------------
(* Running an unchanged input until two runs in a row succeed. *)

\* The stages that are tried before what they read.
Late == {"rhorrp", "eels", "eelsmdff"}

\* After one success every stage in the order matches its sources, so that
\* running it again changes no file of it.
SettledKept == settled \in {1, 2} /\ Live => \A s \in Kept : Delivered(s)

\* The next run tries the late stages on sources that no longer change.
SettledLate ==
    \A s \in Late : s \in requested =>
        /\ settled \in {1, 2} /\ outcome = "running" =>
            /\ pos > DPos[s] => Delivered(s) \/ ~Satisfiable(s)
            /\ pos > CPos[s] => Delivered(s)
        /\ settled = 2 /\ outcome = "ok" => Delivered(s)

SettledInv == SettledKept /\ SettledLate

\* A step that leaves the files of a stage and of its sources leaves whether
\* it is delivered and whether it can be run.
LEMMA Still ==
    ASSUME requested' = requested, NEW x \in Stages, x # "sfconv",
           work'[x] = work[x], \A t \in Sources[x] : work'[t] = work[t]
    PROVE  (Delivered(x)' <=> Delivered(x)) /\ (Satisfiable(x)' <=> Satisfiable(x))
<1>1. HasSources(x)' <=> HasSources(x)
    BY DEF HasSources, Present
<1>2. Present(x)' <=> Present(x)
    BY DEF Present
<1>3. UpToDate(x)' <=> UpToDate(x)
    BY <1>1 DEF UpToDate
<1> QED
    BY <1>1, <1>2, <1>3 DEF Satisfiable, Delivered

\* A step that changes no file keeps what it does not move past.
LEMMA SettledStays ==
    ASSUME SInv, SettledInv, UNCHANGED <<requested, work>>,
           settled' \in {1, 2} /\ outcome' = "running" =>
                settled' = settled /\ outcome = "running",
           settled' \in {1, 2} /\ outcome' = "ok" =>
                settled' = settled /\ outcome = "ok",
           settled' \in {1, 2} /\ outcome' = "running" =>
                \A x \in Late : x \in requested =>
                    /\ pos' > DPos[x] => pos > DPos[x] \/ Delivered(x) \/ ~Satisfiable(x)
                    /\ pos' > CPos[x] => pos > CPos[x] \/ Delivered(x)
    PROVE  SettledInv'
<1>1. Kept' = Kept /\ TypeOK
    BY DEF SInv, Kept
<1>2. \A x \in Kept \cup Late : x \in Stages /\ x # "sfconv"
    BY <1>1, KeptFacts, StagesFacts DEF Late
<1>3. \A x \in Kept \cup Late :
        (Delivered(x)' <=> Delivered(x)) /\ (Satisfiable(x)' <=> Satisfiable(x))
    BY <1>2, Still
<1>4. SettledKept'
    BY <1>1, <1>3 DEF SettledInv, SettledKept, Live
<1>5. SettledLate'
    BY <1>3 DEF SettledInv, SettledLate
<1> QED
    BY <1>4, <1>5 DEF SettledInv

\* The predicates leave a late stage behind only when nothing can be done.
LEMMA SettledSkip == SInv /\ SettledInv /\ Skip => SettledInv'
<1> SUFFICES ASSUME SInv, SettledInv, Skip
             PROVE  SettledInv'
    OBVIOUS
<1>1. /\ outcome = "running" /\ pos \in 1 .. 26 /\ pos' = pos + 1
      /\ UNCHANGED <<requested, work, outcome, settled>>
    BY ScheduleFacts DEF Skip, Deciding
<1>2. ASSUME NEW x \in Late, x \in requested, settled \in {1, 2}
      PROVE  /\ pos' > DPos[x] => pos > DPos[x] \/ Delivered(x) \/ ~Satisfiable(x)
             /\ pos' > CPos[x] => pos > CPos[x] \/ Delivered(x)
    <2>1. x \in Stages /\ x # "band" /\ x # "pot" /\ x # "mkgtr"
        BY StagesFacts DEF Late
    <2>2. /\ DPos[x] \in 1 .. 13 /\ CPos[x] \in 14 .. 26
          /\ pos <= 13 => (pos = DPos[x] <=> Schedule[pos] = x)
          /\ pos > 13 => (pos = CPos[x] <=> Schedule[pos] = x)
        BY <1>1, <2>1, PassFacts
    <2>3. InDiscovery <=> pos <= 13
        BY <1>1, ScheduleFacts DEF InDiscovery
    <2>4. Schedule[pos] = x => ~Invoked(x)
        BY <2>1 DEF Skip, MayMissItsCache
    <2>5. ASSUME pos = DPos[x]
          PROVE  ~Satisfiable(x)
        <3>1. pos <= 13 /\ Schedule[pos] = x
            BY <2>2, <2>5
        <3> QED
            BY <2>1, <2>3, <2>4, <3>1 DEF Invoked, Discovered
    <2>6. ASSUME pos = CPos[x]
          PROVE  Delivered(x)
        <3>1. pos > 13 /\ Schedule[pos] = x /\ pos > DPos[x]
            BY <2>2, <2>6
        <3>2. ~Required(x)
            BY <2>3, <2>4, <3>1, <1>1 DEF Invoked
        <3>3. Completed(x) => Satisfiable(x)
            BY <2>1 DEF Completed, Satisfiable
        <3>4. Completed(x) \/ Satisfiable(x)
            BY <3>2 DEF Required, Late
        <3> QED
            BY <1>1, <1>2, <3>1, <3>3, <3>4 DEF SettledInv, SettledLate
    <2>7. pos' > DPos[x] => pos > DPos[x] \/ pos = DPos[x]
        BY <1>1, <2>2
    <2>8. pos' > CPos[x] => pos > CPos[x] \/ pos = CPos[x]
        BY <1>1, <2>2
    <2> QED
        BY <2>5, <2>6, <2>7, <2>8
<1> QED
    BY <1>1, <1>2, SettledStays

\* What is run again on a settled directory leaves the files others read.
LEMMA SettledFiles ==
    ASSUME SInv, SettledInv, Complete, settled \in {1, 2}
    PROVE  \A t \in Stages : t \notin Late => work'[t] = work[t]
<1> SUFFICES ASSUME NEW t \in Stages, t \notin Late, work'[t] # work[t]
             PROVE  FALSE
    OBVIOUS
<1>1. TypeOK /\ work \in [Stages -> {"none", "old", "new"}] /\ Live
    BY DEF SInv, TypeOK, Complete, Live
<1>2. t = running /\ t \in requested \ {"sfconv"} /\ work'[t] = Result(t)
    BY <1>1 DEF Complete
<1>3. t \in Kept
    BY <1>1, <1>2, KeptFacts DEF Late
<1>4. Present(t) /\ UpToDate(t)
    BY <1>1, <1>2, <1>3 DEF SettledInv, SettledKept, Delivered
<1>5. work[t] \in {"old", "new"}
    BY <1>1, <1>4 DEF Present
<1> QED
    BY <1>2, <1>4, <1>5 DEF Result, UpToDate

\* A late stage that is run to its end matches its sources.
LEMMA SettledComplete == SInv /\ SettledInv /\ Complete => SettledInv'
<1> SUFFICES ASSUME SInv, SettledInv, Complete
             PROVE  SettledInv'
    OBVIOUS
<1>1. /\ outcome = "running" /\ running # "none" /\ pos' = pos + 1
      /\ UNCHANGED <<requested, outcome, settled>>
    BY DEF Complete
<1>2. /\ TypeOK /\ work \in [Stages -> {"none", "old", "new"}]
      /\ pos \in 1 .. 26 /\ running = Schedule[pos] /\ Kept' = Kept
    BY <1>1 DEF SInv, TypeOK, Going, Kept
<1>3. CASE settled \notin {1, 2}
    BY <1>1, <1>3 DEF SettledInv, SettledKept, SettledLate
<1>4. CASE settled \in {1, 2}
    <2>1. \A t \in Stages : t \notin Late => work'[t] = work[t]
        BY <1>4, SettledFiles
    <2>2. \A x \in Stages : \A t \in Sources[x] : work'[t] = work[t]
        BY <2>1, SourceFacts DEF Late
    <2>3. SettledKept'
        <3>1. ASSUME NEW x \in Kept
              PROVE  Delivered(x)'
            <4>1. x \in Stages /\ x # "sfconv" /\ x \notin Late
                BY <1>2, KeptFacts DEF Late
            <4>2. Delivered(x)
                BY <1>1, <1>4 DEF SettledInv, SettledKept, Live
            <4> QED
                BY <1>1, <2>1, <2>2, <4>1, <4>2, Still
        <3> QED
            BY <1>2, <3>1 DEF SettledKept
    <2>4. ASSUME NEW x \in Late, x \in requested
          PROVE  /\ pos' > DPos[x] => Delivered(x)' \/ ~Satisfiable(x)'
                 /\ pos' > CPos[x] => Delivered(x)'
        <3>1. x \in Stages /\ x # "sfconv" /\ x # "mkgtr"
            BY StagesFacts DEF Late
        <3>2. /\ DPos[x] \in 1 .. 13 /\ CPos[x] \in 14 .. 26
              /\ pos <= 13 => (pos = DPos[x] <=> running = x)
              /\ pos > 13 => (pos = CPos[x] <=> running = x)
            BY <1>2, <3>1, PassFacts
        <3>3. CASE running = x
            <4>1. Satisfiable(x) /\ work'[x] = Result(x)
                BY <1>2, <2>4, <3>1, <3>3 DEF Complete, CanRun
            <4>2. HasSources(x)' <=> HasSources(x)
                BY <2>2, <3>1 DEF HasSources, Present
            <4>3. CASE HasSources(x)
                <5>1. work'[x] = IF \A t \in Sources[x] : work[t] = "new" THEN "new" ELSE "old"
                    BY <4>1, <4>3 DEF Result
                <5>2. (\A t \in Sources[x] : work'[t] = "new")
                        <=> \A t \in Sources[x] : work[t] = "new"
                    BY <2>2, <3>1
                <5> QED
                    BY <3>1, <5>1, <5>2 DEF Delivered, Present, UpToDate
            <4>4. CASE ~HasSources(x)
                <5>1. work'[x] = work[x] /\ Present(x)
                    BY <4>1, <4>4 DEF Result, Satisfiable
                <5> QED
                    BY <3>1, <4>2, <4>4, <5>1 DEF Delivered, Present, UpToDate
            <4> QED
                BY <4>3, <4>4
        <3>4. CASE running # x
            <4>1. work'[x] = work[x]
                BY <1>2, <3>1, <3>4 DEF Complete
            <4>2. (Delivered(x)' <=> Delivered(x)) /\ (Satisfiable(x)' <=> Satisfiable(x))
                BY <1>1, <2>2, <3>1, <4>1, Still
            <4>3. pos' > DPos[x] => pos > DPos[x]
                BY <1>1, <1>2, <3>2, <3>4
            <4>4. pos' > CPos[x] => pos > CPos[x]
                BY <1>1, <1>2, <3>2, <3>4
            <4> QED
                BY <1>1, <1>4, <2>4, <4>2, <4>3, <4>4 DEF SettledInv, SettledLate
        <3> QED
            BY <3>3, <3>4
    <2>5. SettledLate'
        BY <1>1, <2>4 DEF SettledLate
    <2> QED
        BY <2>3, <2>5 DEF SettledInv
<1> QED
    BY <1>3, <1>4

\* The first success settles the stages in the order, the second the others.
LEMMA SettledReturn == SInv /\ SettledInv /\ Return => SettledInv'
<1> SUFFICES ASSUME SInv, SettledInv, Return
             PROVE  SettledInv'
    OBVIOUS
<1>1. /\ pos = 27 /\ outcome = "running" /\ outcome' = "ok"
      /\ settled' = IF settled = 2 THEN 2 ELSE settled + 1
      /\ UNCHANGED <<requested, work, applied>>
    BY ScheduleFacts DEF Return
<1>2. TypeOK /\ settled \in 0 .. 2
    BY DEF SInv, TypeOK
<1>3. (SInv => SuccessIsComplete)'
    BY CompleteAtTheEnd, PTL
<1>4. SuccessIsComplete'
    BY <1>3, ReturnStep
<1>5. SettledKept'
    <2>1. Kept' = Kept /\ Kept \subseteq requested \cap InOrder
        BY <1>1 DEF Kept
    <2>2. \A s \in Kept : Delivered(s)'
        BY <1>1, <1>4, <2>1 DEF SuccessIsComplete
    <2> QED
        BY <2>1, <2>2 DEF SettledKept
<1>6. SettledLate'
    <2> SUFFICES ASSUME NEW x \in Late, x \in requested, settled' = 2
                 PROVE  Delivered(x)'
        BY <1>1 DEF SettledLate
    <2>1. x \in Stages /\ x # "sfconv"
        BY StagesFacts DEF Late
    <2>2. pos > CPos[x]
        BY <1>1, <2>1, PositionFacts
    <2>3. settled \in {1, 2}
        BY <1>1, <1>2
    <2>4. Delivered(x)
        BY <1>1, <2>2, <2>3 DEF SettledInv, SettledLate
    <2> QED
        BY <1>1, <2>1, <2>4, Still
<1> QED
    BY <1>5, <1>6 DEF SettledInv

\* Only a success on the same input counts for the next run.
LEMMA SettledRunAgain == SInv /\ SettledInv /\ RunAgain => SettledInv'
<1> SUFFICES ASSUME SInv, SettledInv, RunAgain
             PROVE  SettledInv'
    OBVIOUS
<1>1. pos' = 1 /\ outcome' = "running" /\ UNCHANGED requested
    BY DEF RunAgain
<1>2. settled' \in {1, 2} => outcome = "ok" /\ settled' = settled /\ work' = work
    BY DEF RunAgain
<1>3. Kept' = Kept /\ TypeOK
    BY <1>1 DEF Kept, SInv
<1>4. SettledKept'
    <2> SUFFICES ASSUME settled' \in {1, 2}, NEW x \in Kept
                 PROVE  Delivered(x)'
        BY <1>3 DEF SettledKept
    <2>1. x \in Stages /\ x # "sfconv"
        BY <1>3, KeptFacts
    <2>2. Delivered(x)
        BY <1>2 DEF SettledInv, SettledKept, Live
    <2> QED
        BY <1>1, <1>2, <2>1, <2>2, Still
<1>5. SettledLate'
    <2>1. \A x \in Late : ~(pos' > DPos[x]) /\ ~(pos' > CPos[x])
        <3>1. \A x \in Late : DPos[x] \in 1 .. 13 /\ CPos[x] \in 14 .. 26
            BY PositionFacts, StagesFacts DEF Late
        <3> QED
            BY <1>1, <3>1
    <2> QED
        BY <1>1, <2>1 DEF SettledLate
<1> QED
    BY <1>4, <1>5 DEF SettledInv

\* The pipeline and its hand-offs: run again on an unchanged input until two
\* runs in a row succeed, a directory holds every requested output, generated
\* from what is there now, the stages tried before their sources included.
THEOREM TwoSuccessesSettle == Spec => []SecondRunSettles
<1>1. Init => SettledInv
    BY DEF Init, SettledInv, SettledKept, SettledLate
<1>2. SInv /\ SettledInv /\ [Next]_vars => SettledInv'
    <2> SUFFICES ASSUME SInv, SettledInv, [Next]_vars
                 PROVE  SettledInv'
        OBVIOUS
    <2>1. CASE Announce
        <3>1. UNCHANGED <<requested, work, pos, settled>> /\ outcome = "running"
            BY <2>1 DEF Announce, Deciding
        <3>2. outcome' # "ok"
            BY <2>1, <3>1 DEF Announce
        <3> QED
            BY <3>1, <3>2, SettledStays
    <2>2. CASE GiveUp
        <3>1. /\ pos' = pos + 1 /\ pos \in 1 .. 26 /\ outcome = "running"
              /\ UNCHANGED <<requested, work, settled, outcome>>
            BY <2>2 DEF GiveUp, SInv, Going
        <3>2. running = Schedule[pos] /\ running \notin Late
            BY <2>2 DEF GiveUp, MayGiveUp, SInv, Going, Late
        <3>3. \A x \in Late : /\ DPos[x] \in 1 .. 13 /\ CPos[x] \in 14 .. 26
                              /\ pos # DPos[x] /\ pos # CPos[x]
            <4>1. \A x \in Late : x \in Stages
                BY StagesFacts DEF Late
            <4> QED
                BY <3>1, <3>2, <4>1, PositionFacts
        <3>4. \A x \in Late : /\ pos' > DPos[x] => pos > DPos[x]
                              /\ pos' > CPos[x] => pos > CPos[x]
            BY <3>1, <3>3
        <3> QED
            BY <3>1, <3>4, SettledStays
    <2>3. CASE Break
        <3>1. UNCHANGED <<requested, work>> /\ outcome' \notin {"running", "ok"}
            BY <2>3 DEF Break
        <3> QED
            BY <3>1, SettledStays
    <2>4. CASE Cancel
        <3>1. UNCHANGED <<requested, work, pos, settled, outcome>>
            BY <2>4 DEF Cancel
        <3> QED
            BY <3>1, SettledStays
    <2>5. CASE UNCHANGED vars
        <3>1. UNCHANGED <<requested, work, pos, settled, outcome>>
            BY <2>5 DEF vars
        <3> QED
            BY <3>1, SettledStays
    <2> QED
        BY <2>1, <2>2, <2>3, <2>4, <2>5, SettledSkip, SettledComplete, SettledReturn,
            SettledRunAgain DEF Next
<1>3. SInv /\ SettledInv => SecondRunSettles
    <2> SUFFICES ASSUME SInv, SettledInv, settled = 2, outcome = "ok", NEW s \in requested
                 PROVE  Delivered(s)
        BY DEF SecondRunSettles
    <2>1. TypeOK
        BY DEF SInv
    <2>2. CASE s \in Kept
        BY <2>2 DEF SettledInv, SettledKept, Live
    <2>3. CASE s \in Late
        BY <2>3 DEF SettledInv, SettledLate
    <2>4. CASE s = "sfconv"
        <3>1. s \in InOrder
            BY <2>4, SourceFacts, StagesFacts
        <3> QED
            BY <3>1, CompleteAtTheEnd DEF SuccessIsComplete
    <2> QED
        BY <2>1, <2>2, <2>3, <2>4, KeptFacts DEF Late
<1> QED
    BY <1>1, <1>2, <1>3, ScheduleInvariant, PTL DEF Spec

-----------------------------------------------------------------------------
(* What an ordering of the schedule cannot undo. *)

\* Nothing counts as derived from the present input while something it is
\* generated from does not.
NewFromNew ==
    \A s \in Stages : work[s] = "new" => \A t \in Sources[s] : work[t] = "new"

\* Within a run no stage loses files, and none falls behind the input again.
NothingLost ==
    [][\A s \in Stages : outcome = "running" =>
            /\ work[s] = "new" => work'[s] = "new"
            /\ work[s] # "none" => work'[s] # "none"]_vars

\* The files of a stage that runs to its end, and those of all others.
LEMMA CompleteKeeps ==
    ASSUME SInv, NewFromNew, Complete
    PROVE  /\ NewFromNew'
           /\ \A s \in Stages : /\ work[s] = "new" => work'[s] = "new"
                                /\ work[s] # "none" => work'[s] # "none"
<1> DEFINE s == running
<1>1. TypeOK /\ s \in Stages
    BY DEF SInv, TypeOK, Complete
<1>2. \A t \in Stages : t # s => work'[t] = work[t]
    BY <1>1 DEF Complete, TypeOK
<1>3. work'[s] = work[s] \/ work'[s] = Result(s)
    BY <1>1 DEF Complete, TypeOK
<1>4. work[s] = "new" => Result(s) = "new"
    BY <1>1 DEF NewFromNew, Result
<1>5. work[s] # "none" => Result(s) # "none"
    BY DEF Result
<1>6. Result(s) = "new" => \A t \in Sources[s] : work[t] = "new"
    BY <1>1 DEF NewFromNew, Result
<1>7. \A t \in Stages : Sources[t] \subseteq Stages /\ t \notin Sources[t]
    BY SourceFacts
<1> HIDE DEF s
<1>8. \A t \in Stages : /\ work[t] = "new" => work'[t] = "new"
                        /\ work[t] # "none" => work'[t] # "none"
    BY <1>2, <1>3, <1>4, <1>5
<1>9. \A t \in Sources[s] : work'[s] = "new" => work'[t] = "new"
    BY <1>1, <1>3, <1>6, <1>7, <1>8 DEF NewFromNew
<1>10. \A t \in Stages : work'[t] = "new" => \A u \in Sources[t] : work'[u] = "new"
    BY <1>2, <1>7, <1>8, <1>9 DEF NewFromNew
<1> QED
    BY <1>8, <1>10 DEF NewFromNew

\* run_supported_cached_modules_into and run_remaining_required_modules: the
\* two passes try stages in different orders, and some of them before their
\* sources.  Still no order of attempts, failures and cancellations makes a
\* stage discard files, or replace what it generated from the present input by
\* what it generates from something older; and what counts as present is so
\* all the way down to the input.
THEOREM PassesOnlyAdvance == Spec => []NewFromNew /\ NothingLost
<1>1. Init => NewFromNew
    <2> SUFFICES ASSUME Init, NEW s \in Stages
                 PROVE  work[s] # "new"
        BY DEF NewFromNew
    <2>1. work \in [Stages -> {"none", "old"}]
        BY DEF Init
    <2> QED
        BY <2>1
<1>2. SInv /\ NewFromNew /\ [Next]_vars =>
        /\ NewFromNew'
        /\ \A s \in Stages : outcome = "running" =>
                /\ work[s] = "new" => work'[s] = "new"
                /\ work[s] # "none" => work'[s] # "none"
    <2> SUFFICES ASSUME SInv, NewFromNew, [Next]_vars
                 PROVE  /\ NewFromNew'
                        /\ \A s \in Stages : outcome = "running" =>
                                /\ work[s] = "new" => work'[s] = "new"
                                /\ work[s] # "none" => work'[s] # "none"
        OBVIOUS
    <2>1. CASE Complete
        BY <2>1, CompleteKeeps
    <2>2. CASE RunAgain
        <3>1. outcome # "running"
            BY <2>2 DEF RunAgain
        <3>2. \/ work' = [s \in Stages |-> IF Present(s) THEN "old" ELSE "none"]
              \/ work' = work
            BY <2>2 DEF RunAgain
        <3>3. CASE work' = work
            BY <3>1, <3>3 DEF NewFromNew
        <3>4. CASE work' = [s \in Stages |-> IF Present(s) THEN "old" ELSE "none"]
            <4>1. \A s \in Stages : work'[s] # "new"
                BY <3>4
            <4> QED
                BY <3>1, <4>1 DEF NewFromNew
        <3> QED
            BY <3>2, <3>3, <3>4
    <2>3. CASE work' = work
        BY <2>3 DEF NewFromNew
    <2>4. Skip \/ Announce \/ GiveUp \/ Break \/ Return \/ Cancel \/ UNCHANGED vars
            => work' = work
        BY DEF Skip, Announce, GiveUp, Break, Return, Cancel, vars
    <2> QED
        BY <2>1, <2>2, <2>3, <2>4 DEF Next
<1> QED
    BY <1>1, <1>2, ScheduleInvariant, PTL DEF Spec, NothingLost
=============================================================================
