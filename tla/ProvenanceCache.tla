--------------------------- MODULE ProvenanceCache ---------------------------
(***************************************************************************)
(* The opt-in provenance cache of the engine (REFEFF_CACHE=provenance).    *)
(*                                                                         *)
(* After a successful pipeline the cache writes a manifest that holds a    *)
(* fingerprint of the work directory; a later run whose fingerprint is the *)
(* same skips discovery and computation altogether.  The FF2X stage (with  *)
(* PATH and GENFMT, which are alike) has a manifest of its own, consulted  *)
(* inside a pipeline that computes.                                        *)
(*                                                                         *)
(* RDINP rewrites the hand-off files from feff.inp before the cache looks, *)
(* and the fingerprint is taken when the computation has ended, not when   *)
(* it began.  Between the two anything may be edited, and a run may stop   *)
(* anywhere.  The pipeline is abstracted to two stages.  POT reads its     *)
(* part of the hand-offs; a self-consistent (SCF) potential it keeps, as   *)
(* long as a record beside it, which names neither executable, threads nor *)
(* environment, says that it comes from that part.  FF2X reads what POT    *)
(* wrote, the hand-offs, the file outside the directory some of them name  *)
(* and an auxiliary file of the user's; what it finds it compares with     *)
(* what it computes anew.                                                  *)
(*                                                                         *)
(* The inputs are ones whose potentials POT can generate: with others it   *)
(* may keep a pot.bin that nothing vouches for.                            *)
(***************************************************************************)
EXTENDS Naturals

CONSTANTS
    Inputs,      \* the versions of feff.inp
    External,    \* the versions that name a file outside the directory
    PotInputs,   \* what POT reads of the hand-offs: pot.inp, geom.dat, config.inp
    PotPart,     \* the part POT reads of each version's hand-offs
    Scf,         \* the parts that ask for a self-consistent potential
    Auxiliary,   \* the versions of the auxiliary file in the directory
    Outside,     \* the versions of the file outside the directory
    Policies,    \* executable, features, environment and thread count
    LiveAux,     \* may the auxiliary file be edited during a run
    MaxEdits     \* bound on the edits

CONSTANT None   \* nothing there: no file, no manifest

VARIABLES
    feff,       \* feff.inp
    aux,        \* the auxiliary file
    outside,    \* the file outside the directory
    policy,     \* the policy of the present or next run
    handoff,    \* the hand-offs RDINP wrote, by the version they come from
    out,        \* what POT and FF2X wrote; of POT only a complete pair
    record,     \* .refeff-pot-scf-cache, which vouches for an SCF potential
    manifest,   \* the manifests of the pipeline and of FF2X
    pending,    \* the manifest being written
    pc,         \* where the run is
    armed,      \* the pipeline was certifiable when it was looked up
    stageArmed, \* the same for FF2X
    seen,       \* what FF2X has read
    served,     \* how the last run that returned was served
    touched,    \* something was edited since RDINP last ran
    current,    \* the pipeline manifest describes the directory as it is
    expected,   \* current when this run began, and nothing edited since
    edits

inputs == <<feff, aux, outside, policy>>
files == <<handoff, out, record, manifest>>
control == <<pending, pc, armed, stageArmed, seen, served>>
history == <<touched, current, expected, edits>>
vars == <<inputs, files, control, history>>

Keys == {"pipeline", "ff2x"}

PotOutputs == [input : PotInputs, policy : Policies]
Ff2xOutputs == [pot : PotOutputs \cup {None}, handoff : Inputs, aux : Auxiliary,
                outside : Outside \cup {None}, policy : Policies]
Outputs == [pot : PotOutputs \cup {None}, ff2x : Ff2xOutputs \cup {None}]
Records == [input : PotInputs, pot : PotOutputs]

Fingerprints == [feff : Inputs, aux : Auxiliary, handoff : Inputs \cup {None},
                 out : Outputs, record : Records \cup {None}, policy : Policies]

ASSUME ExternalAssumption == External \subseteq Inputs
ASSUME PotAssumption == PotPart \in [Inputs -> PotInputs] /\ Scf \subseteq PotInputs
ASSUME NoneAssumption == None \notin Fingerprints \cup Records \cup PotOutputs
ASSUME LiveAuxAssumption == LiveAux \in BOOLEAN

-----------------------------------------------------------------------------
\* A bug: the thread count and the environment are not hashed.
Content_PolicyIgnored ==
    [feff |-> feff, aux |-> aux, handoff |-> handoff, out |-> out, record |-> record,
     policy |-> CHOOSE p \in Policies : TRUE]

\* What the fingerprint hashes: every file of the directory, inputs, outputs and
\* POT's record, and the policy.
Content == [feff |-> feff, aux |-> aux, handoff |-> handoff, out |-> out,
            record |-> record, policy |-> policy]

\* No fingerprint is taken while some *.inp file names a path.
Certifiable == feff \notin External /\ handoff \notin External

Matches(key) ==
    /\ Certifiable
    /\ manifest[key] # None
    /\ manifest[key] = Content

\* What POT and FF2X compute now.
PotResult == [input |-> PotPart[handoff], policy |-> policy]
Ff2xResult == [pot |-> out.pot, handoff |-> handoff, aux |-> aux,
               outside |-> IF handoff \in External THEN outside ELSE None,
               policy |-> policy]

IsScf == PotPart[handoff] \in Scf
Fresh == [input |-> PotPart[handoff], pot |-> out.pot]

\* A bug: the record names the potential, not the input it comes from.
KeepsPot_NoInput == IsScf /\ out.pot # None /\ record # None /\ record.pot = out.pot

\* POT keeps an SCF potential its record vouches for, whoever computed it.
KeepsPot == IsScf /\ out.pot # None /\ record = Fresh

\* A bug: a missing potential is taken for a confirmed one.
Confirmed_WhenMissing == out.pot \in {None, PotResult} /\ (IsScf => record = None)

\* Without a record that decides, POT regenerates the potential and compares.
Confirmed == out.pot = PotResult /\ (IsScf => record = None)

-----------------------------------------------------------------------------
Init ==
    /\ feff \in Inputs /\ aux \in Auxiliary /\ outside \in Outside
    /\ policy \in Policies
    /\ handoff = None
    /\ out = [pot |-> None, ff2x |-> None]
    /\ record = None
    /\ manifest = [k \in Keys |-> None]
    /\ pending = None
    /\ pc = "idle"
    /\ armed = FALSE /\ stageArmed = FALSE
    /\ seen = None
    /\ served = "none"
    /\ touched = FALSE /\ current = FALSE /\ expected = FALSE
    /\ edits = 0

Resting == pc \in {"idle", "done"}

Goto(next) == pc' = next

\* execute_pipeline: RDINP regenerates the hand-offs.
Rdinp ==
    /\ Resting
    /\ Goto("lookup")
    /\ handoff' = feff
    /\ touched' = FALSE
    /\ expected' = current
    /\ UNCHANGED <<inputs, out, record, manifest, pending, armed, stageArmed, seen,
                   served, current, edits>>

\* The pipeline is looked up: a hit replays the stages of the manifest.
Lookup ==
    /\ pc = "lookup"
    /\ armed' = Certifiable
    /\ Goto(IF Matches("pipeline") THEN "replay" ELSE "pot")
    /\ UNCHANGED <<inputs, files, pending, stageArmed, seen, served, history>>

\* Every stage of the manifest was announced and reported as cached.
Replay ==
    /\ pc = "replay"
    /\ Goto("done")
    /\ served' = "hit"
    /\ UNCHANGED <<inputs, files, pending, armed, stageArmed, seen, history>>

PotKeep ==
    /\ pc = "pot" /\ KeepsPot
    /\ Goto("stage")
    /\ UNCHANGED <<inputs, files, pending, armed, stageArmed, seen, served, history>>

\* The potential found is the one computed now; an SCF one gets a record.
PotConfirm ==
    /\ pc = "pot" /\ ~KeepsPot /\ Confirmed
    /\ Goto(IF IsScf THEN "record" ELSE "stage")
    /\ UNCHANGED <<inputs, files, pending, armed, stageArmed, seen, served, history>>

\* pot.bin is written, and beside it is another potential's apot.bin or none.
PotBegin ==
    /\ pc = "pot" /\ ~KeepsPot /\ ~Confirmed
    /\ Goto("apot")
    /\ out' = [out EXCEPT !.pot = None]
    /\ UNCHANGED <<inputs, handoff, record, manifest, pending, armed, stageArmed, seen,
                   served, history>>

\* apot.bin is written.
PotWrite ==
    /\ pc = "apot"
    /\ Goto(IF IsScf THEN "record" ELSE "stage")
    /\ out' = [out EXCEPT !.pot = PotResult]
    /\ UNCHANGED <<inputs, handoff, record, manifest, pending, armed, stageArmed, seen,
                   served, history>>

PotRecord ==
    /\ pc = "record"
    /\ Goto("stage")
    /\ record' = Fresh
    /\ UNCHANGED <<inputs, handoff, out, manifest, pending, armed, stageArmed, seen,
                   served, history>>

\* FF2X is looked up: a hit leaves its outputs as they are.
StageLookup ==
    /\ pc = "stage"
    /\ stageArmed' = Certifiable
    /\ Goto(IF Matches("ff2x") THEN "certify" ELSE "read")
    /\ UNCHANGED <<inputs, files, pending, armed, seen, served, history>>

Read ==
    /\ pc = "read"
    /\ Goto("write")
    /\ seen' = Ff2xResult
    /\ UNCHANGED <<inputs, files, pending, armed, stageArmed, served, history>>

Write ==
    /\ pc = "write"
    /\ Goto("stagecertify")
    /\ out' = [out EXCEPT !.ff2x = seen]
    /\ seen' = None
    /\ UNCHANGED <<inputs, handoff, record, manifest, pending, armed, stageArmed,
                   served, history>>

\* A fingerprint after the computation, written to the pending file.  Without
\* one, before or after, nothing is saved.
StageCertify ==
    /\ pc = "stagecertify"
    /\ IF stageArmed /\ Certifiable
       THEN Goto("stagerename") /\ pending' = Content
       ELSE Goto("certify") /\ UNCHANGED pending
    /\ UNCHANGED <<inputs, files, armed, stageArmed, seen, served, history>>

StageRename ==
    /\ pc = "stagerename"
    /\ Goto("certify")
    /\ manifest' = [manifest EXCEPT !["ff2x"] = pending]
    /\ pending' = None
    /\ UNCHANGED <<inputs, handoff, out, record, armed, stageArmed, seen,
                   served, history>>

Certify ==
    /\ pc = "certify"
    /\ IF armed /\ Certifiable
       THEN Goto("rename") /\ pending' = Content /\ UNCHANGED served
       ELSE Goto("done") /\ served' = "computed" /\ UNCHANGED pending
    /\ UNCHANGED <<inputs, files, armed, stageArmed, seen, history>>

Rename_StageKey ==
    /\ pc = "rename"
    /\ Goto("done")
    /\ manifest' = [manifest EXCEPT !["ff2x"] = pending]
    /\ served' = "computed"
    /\ current' = ~touched
    /\ pending' = None
    /\ UNCHANGED <<inputs, handoff, out, record, armed, stageArmed, seen,
                   touched, expected, edits>>

Rename ==
    /\ pc = "rename"
    /\ Goto("done")
    /\ manifest' = [manifest EXCEPT !["pipeline"] = pending]
    /\ served' = "computed"
    /\ current' = ~touched
    /\ pending' = None
    /\ UNCHANGED <<inputs, handoff, out, record, armed, stageArmed, seen,
                   touched, expected, edits>>

\* Saving is optional: an I/O error, or a partial stage among the reports,
\* leaves the old manifest and the run succeeds.
SaveFails ==
    /\ pc \in {"stagecertify", "stagerename", "certify", "rename"}
    /\ IF pc \in {"stagecertify", "stagerename"}
       THEN Goto("certify") /\ UNCHANGED served
       ELSE Goto("done") /\ served' = "computed"
    /\ UNCHANGED <<inputs, files, pending, armed, stageArmed, seen, history>>

\* An error, a cancellation (also one an observer of the replay requests) or
\* a crash ends the run where it is; a record half written vouches for nothing.
Stop ==
    /\ ~Resting
    /\ Goto("idle")
    /\ served' = "none"
    /\ seen' = None
    /\ record' \in {record} \cup (IF pc = "record" THEN {None} ELSE {})
    /\ UNCHANGED <<inputs, handoff, out, manifest, pending, armed, stageArmed, history>>

-----------------------------------------------------------------------------
(* The user and the rest of the machine. *)

Edited ==
    /\ edits < MaxEdits
    /\ edits' = edits + 1
    /\ touched' = TRUE
    /\ current' = FALSE
    /\ expected' = FALSE

\* feff.inp may change at any time: a run has read it in Rdinp.
EditInput ==
    /\ Edited
    /\ \E v \in Inputs \ {feff} : feff' = v
    /\ UNCHANGED <<aux, outside, policy, files, control>>

EditOutside ==
    /\ Edited
    /\ \E v \in Outside \ {outside} : outside' = v
    /\ UNCHANGED <<feff, aux, policy, files, control>>

EditAuxiliary ==
    /\ LiveAux \/ Resting
    /\ Edited
    /\ \E v \in Auxiliary \ {aux} : aux' = v
    /\ pc' = IF Resting THEN "idle" ELSE pc
    /\ UNCHANGED <<feff, outside, policy, files, pending, armed, stageArmed,
                   seen, served>>

\* Another executable, environment or thread count for the next run.
SetPolicy ==
    /\ Resting
    /\ Edited
    /\ \E p \in Policies \ {policy} : policy' = p
    /\ Goto("idle")
    /\ UNCHANGED <<feff, aux, outside, files, pending, armed, stageArmed, seen,
                   served>>

\* Between two runs somebody removes an output or POT's record.
Remove ==
    /\ Resting
    /\ Edited
    /\ \/ record' = None /\ UNCHANGED out
       \/ /\ \E k \in {"pot", "ff2x"} : out' = [out EXCEPT ![k] = None]
          /\ UNCHANGED record
    /\ Goto("idle")
    /\ UNCHANGED <<inputs, handoff, manifest, pending, armed, stageArmed, seen,
                   served>>

Next == \/ Rdinp
        \/ Lookup
        \/ Replay
        \/ PotKeep
        \/ PotConfirm
        \/ PotBegin
        \/ PotWrite
        \/ PotRecord
        \/ StageLookup
        \/ Read
        \/ Write
        \/ StageCertify
        \/ StageRename
        \/ Certify
        \/ Rename
        \/ SaveFails
        \/ Stop
        \/ EditInput
        \/ EditOutside
        \/ EditAuxiliary
        \/ SetPolicy
        \/ Remove

Spec == Init /\ [][Next]_vars

-----------------------------------------------------------------------------
(* Properties. *)

TypeOK ==
    /\ feff \in Inputs /\ aux \in Auxiliary /\ outside \in Outside
    /\ policy \in Policies
    /\ handoff \in Inputs \cup {None}
    /\ out \in Outputs
    /\ record \in Records \cup {None}
    /\ manifest \in [Keys -> Fingerprints \cup {None}]
    /\ pending \in Fingerprints \cup {None}
    /\ pc \in {"idle", "lookup", "replay", "pot", "apot", "record", "stage", "read",
               "write", "stagecertify", "stagerename", "certify", "rename", "done"}
    /\ armed \in BOOLEAN /\ stageArmed \in BOOLEAN
    /\ seen \in Ff2xOutputs \cup {None}
    /\ served \in {"none", "hit", "computed"}
    /\ touched \in BOOLEAN /\ current \in BOOLEAN /\ expected \in BOOLEAN
    /\ edits \in Nat

\* POT's outputs come from these hand-offs, and under this policy unless they
\* are self-consistent.
PotHonest(h, p, o) ==
    /\ o.pot # None
    /\ o.pot.input = PotPart[h]
    /\ o.pot.policy = p \/ PotPart[h] \in Scf

\* FF2X's outputs come from POT's outputs, these hand-offs and this auxiliary
\* file, under this policy and from nothing outside the directory.
Ff2xHonest(h, a, p, o) ==
    o.ff2x = [pot |-> o.pot, handoff |-> h, aux |-> a, outside |-> None, policy |-> p]

\* A run that is served from the cache leaves what computing would have left:
\* POT would have kept that potential, of the present hand-offs, or computed it
\* now, and FF2X would have computed these spectra from it, whatever was edited,
\* removed, stopped or crashed before, and even when feff.inp was edited while
\* the certified run was computing.
HitIsCurrent ==
    pc = "done" /\ served = "hit" =>
        /\ PotHonest(handoff, policy, out)
        /\ KeepsPot \/ out.pot = PotResult
        /\ Ff2xHonest(handoff, aux, policy, out)

\* Each manifest on disk certifies outputs that come from the very files and
\* the policy it certifies them with; only of a self-consistent potential the
\* policy may be an older one, as POT's record does not name it.
CertifiedIsHonest ==
    /\ manifest["pipeline"] # None =>
        LET m == manifest["pipeline"] IN
            /\ PotHonest(m.handoff, m.policy, m.out)
            /\ Ff2xHonest(m.handoff, m.aux, m.policy, m.out)
    /\ manifest["ff2x"] # None =>
        LET m == manifest["ff2x"] IN Ff2xHonest(m.handoff, m.aux, m.policy, m.out)

\* A run of a directory that was certified and not touched since is served
\* from the cache.
RepeatHits == pc = "done" /\ expected /\ served # "none" => served = "hit"
=============================================================================
