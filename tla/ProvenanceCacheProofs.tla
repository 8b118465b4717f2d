------------------------ MODULE ProvenanceCacheProofs ------------------------
(***************************************************************************)
(* Proofs about ProvenanceCache: a run served from the cache leaves what   *)
(* computing would have left, for any number of versions of the inputs,    *)
(* policies and edits.  If the auxiliary file is edited while a run        *)
(* computes, its version is all that can be out of date.                   *)
(***************************************************************************)
EXTENDS ProvenanceCache, TLAPS

-----------------------------------------------------------------------------
(* Type correctness. *)

\* Nothing past RDINP is reached without hand-offs.
HandoffThere == Resting \/ handoff \in Inputs

\* A record is written of a potential that is there.
PotThere == pc = "record" => out.pot # None

Typed == TypeOK /\ HandoffThere /\ PotThere

\* The fingerprint of well-typed files is a well-typed fingerprint.
LEMMA ContentType == ASSUME TypeOK PROVE Content \in Fingerprints
  BY DEF TypeOK, Content, Fingerprints

\* What POT computes from hand-offs is a well-typed output.
LEMMA PotResultType ==
    ASSUME TypeOK, handoff \in Inputs
    PROVE  PotResult \in PotOutputs /\ PotResult # None
<1>1. PotPart[handoff] \in PotInputs
  BY PotAssumption
<1>2. PotResult \in PotOutputs
  BY <1>1 DEF TypeOK, PotResult, PotOutputs
<1> QED
  BY <1>2, NoneAssumption

\* What FF2X computes is a well-typed output.
LEMMA Ff2xResultType ==
    ASSUME TypeOK, handoff \in Inputs PROVE Ff2xResult \in Ff2xOutputs
<1>1. out.pot \in PotOutputs \cup {None}
  BY DEF TypeOK, Outputs
<1> QED
  BY <1>1 DEF TypeOK, Ff2xResult, Ff2xOutputs

\* An edit keeps the types of the variables it sets.
LEMMA EditedType ==
    ASSUME TypeOK, Edited
    PROVE  /\ edits' \in Nat
           /\ touched' \in BOOLEAN /\ current' \in BOOLEAN
           /\ expected' \in BOOLEAN
<1>1. edits' \in Nat
  BY DEF TypeOK, Edited
<1>2. touched' \in BOOLEAN /\ current' \in BOOLEAN /\ expected' \in BOOLEAN
  BY DEF Edited
<1> QED
  BY <1>1, <1>2

LEMMA TypedInit == Init => Typed
<1> SUFFICES ASSUME Init PROVE Typed
  OBVIOUS
<1>1. out \in Outputs
  BY DEF Init, Outputs
<1>2. manifest \in [Keys -> Fingerprints \cup {None}]
  BY DEF Init
<1> QED
  BY <1>1, <1>2 DEF Init, Typed, TypeOK, HandoffThere, PotThere, Resting

\* Every step keeps the types and, while a run is under way, its hand-offs.
LEMMA TypedStep == Typed /\ [Next]_vars => Typed'
<1> SUFFICES ASSUME TypeOK, HandoffThere, PotThere, [Next]_vars
             PROVE  TypeOK' /\ HandoffThere' /\ PotThere'
  BY DEF Typed
<1> USE DEF inputs, files, control, history, Goto, PotThere
<1>1. CASE Rdinp
  BY <1>1 DEF Rdinp, TypeOK, HandoffThere, Resting
<1>2. CASE Lookup
  BY <1>2 DEF Lookup, TypeOK, HandoffThere, Resting, Certifiable
<1>3. CASE Replay
  BY <1>3 DEF Replay, TypeOK, HandoffThere, Resting
<1>4. CASE PotKeep \/ PotConfirm \/ PotBegin \/ PotWrite \/ PotRecord
  <2>1. handoff \in Inputs
    BY <1>4 DEF PotKeep, PotConfirm, PotBegin, PotWrite, PotRecord, HandoffThere, Resting
  <2>2. PotResult \in PotOutputs /\ PotResult # None
    BY <2>1, PotResultType
  <2>3. CASE PotKeep
    BY <2>1, <2>3 DEF PotKeep, TypeOK, HandoffThere, Resting
  <2>4. CASE PotConfirm
    BY <2>1, <2>2, <2>4 DEF PotConfirm, Confirmed, TypeOK, HandoffThere, Resting
  <2>5. CASE PotBegin
    <3>1. out' \in Outputs
      BY <2>5 DEF PotBegin, TypeOK, Outputs
    <3> QED
      BY <2>1, <2>5, <3>1 DEF PotBegin, TypeOK, HandoffThere, Resting
  <2>6. CASE PotWrite
    <3>1. out' \in Outputs /\ out'.pot = PotResult
      BY <2>2, <2>6 DEF PotWrite, TypeOK, Outputs
    <3> QED
      BY <2>1, <2>2, <2>6, <3>1 DEF PotWrite, TypeOK, HandoffThere, Resting
  <2>7. CASE PotRecord
    <3>1. out.pot \in PotOutputs /\ PotPart[handoff] \in PotInputs
      BY <2>1, <2>7, PotAssumption DEF PotRecord, TypeOK, Outputs
    <3>2. Fresh \in Records
      BY <3>1 DEF Fresh, Records
    <3> QED
      BY <2>1, <2>7, <3>2 DEF PotRecord, TypeOK, HandoffThere, Resting
  <2> QED
    BY <1>4, <2>3, <2>4, <2>5, <2>6, <2>7
<1>5. CASE StageLookup
  BY <1>5 DEF StageLookup, TypeOK, HandoffThere, Resting, Certifiable
<1>6. CASE Read
  <2>1. seen' \in Ff2xOutputs
    BY <1>6, Ff2xResultType DEF Read, HandoffThere, Resting
  <2> QED
    BY <1>6, <2>1 DEF Read, TypeOK, HandoffThere, Resting
<1>7. CASE Write
  <2>1. out' \in Outputs
    BY <1>7 DEF Write, TypeOK, Outputs
  <2> QED
    BY <1>7, <2>1 DEF Write, TypeOK, HandoffThere, Resting
<1>8. CASE StageCertify
  BY <1>8, ContentType DEF StageCertify, TypeOK, HandoffThere, Resting
<1>9. CASE StageRename
  BY <1>9 DEF StageRename, TypeOK, HandoffThere, Resting, Keys
<1>10. CASE Certify
  BY <1>10, ContentType DEF Certify, TypeOK, HandoffThere, Resting
<1>11. CASE Rename
  BY <1>11 DEF Rename, TypeOK, HandoffThere, Resting, Keys
<1>12. CASE SaveFails
  BY <1>12 DEF SaveFails, TypeOK, HandoffThere, Resting
<1>13. CASE Stop
  BY <1>13 DEF Stop, TypeOK, HandoffThere, Resting
<1>14. CASE EditInput
  <2>1. Edited
    BY <1>14 DEF EditInput
  <2> QED
    BY <1>14, <2>1, EditedType DEF EditInput, TypeOK, HandoffThere, Resting
<1>15. CASE EditOutside
  <2>1. Edited
    BY <1>15 DEF EditOutside
  <2> QED
    BY <1>15, <2>1, EditedType DEF EditOutside, TypeOK, HandoffThere, Resting
<1>16. CASE EditAuxiliary
  <2>1. Edited
    BY <1>16 DEF EditAuxiliary
  <2> QED
    BY <1>16, <2>1, EditedType DEF EditAuxiliary, TypeOK, HandoffThere, Resting
<1>17. CASE SetPolicy
  <2>1. Edited
    BY <1>17 DEF SetPolicy
  <2> QED
    BY <1>17, <2>1, EditedType DEF SetPolicy, TypeOK, HandoffThere, Resting
<1>18. CASE Remove
  <2>1. out' \in Outputs
    BY <1>18 DEF Remove, TypeOK, Outputs
  <2>2. Edited
    BY <1>18 DEF Remove
  <2> QED
    BY <1>18, <2>1, <2>2, EditedType DEF Remove, TypeOK, HandoffThere, Resting
<1>19. CASE UNCHANGED vars
  BY <1>19 DEF vars, TypeOK, HandoffThere, Resting
<1> QED
  BY <1>1, <1>2, <1>3, <1>4, <1>5, <1>6, <1>7, <1>8, <1>9, <1>10, <1>11,
     <1>12, <1>13, <1>14, <1>15, <1>16, <1>17, <1>18, <1>19 DEF Next

\* The files, the manifests and the state of the run stay well typed.
THEOREM TypeCorrect == Spec => []TypeOK
<1>1. Typed => TypeOK
  BY DEF Typed
<1> QED
  BY <1>1, TypedInit, TypedStep, PTL DEF Spec

-----------------------------------------------------------------------------
(* A hit is what some run computed, and current while auxiliary files rest. *)

\* FF2X's outputs come from POT's and a version of the auxiliary file, which can
\* be another than the one named only if the file may be edited during a run.
Ff2xAgrees(h, a, p, o) ==
    \E b \in Auxiliary : Ff2xHonest(h, b, p, o) /\ (LiveAux \/ b = a)

\* POT has done with these hand-offs: if they ask for a self-consistent potential
\* its record vouches for it, otherwise it was computed under this policy.
PotSettled(h, p, o, rec) ==
    /\ o.pot # None
    /\ o.pot.input = PotPart[h]
    /\ IF PotPart[h] \in Scf THEN rec = [input |-> PotPart[h], pot |-> o.pot]
                             ELSE o.pot.policy = p

AfterPot == {"stage", "read", "write", "stagecertify", "stagerename",
             "certify", "rename"}

AfterFf2x == {"stagecertify", "stagerename", "certify", "rename"}

\* A record names the input its potential was computed from, whatever else
\* happened to the directory.
Recorded == record # None => record.pot.input = record.input

\* While a run computes, what it has written is what it should be.
Computing ==
    /\ pc = "record" => out.pot.input = PotPart[handoff] /\ IsScf
    /\ pc \in AfterPot => PotSettled(handoff, policy, out, record)
    /\ pc = "write" /\ handoff \notin External =>
           \E a \in Auxiliary :
               /\ seen = [pot |-> out.pot, handoff |-> handoff, aux |-> a,
                          outside |-> None, policy |-> policy]
               /\ LiveAux \/ a = aux
    /\ pc \in AfterFf2x /\ handoff \notin External => Ff2xAgrees(handoff, aux, policy, out)

\* A fingerprint certifies what it names.
StageCertificate(m) == Ff2xAgrees(m.handoff, m.aux, m.policy, m.out)
Certificate(m) == PotSettled(m.handoff, m.policy, m.out, m.record) /\ StageCertificate(m)

Certified ==
    /\ manifest["pipeline"] # None => Certificate(manifest["pipeline"])
    /\ manifest["ff2x"] # None => StageCertificate(manifest["ff2x"])

\* The manifest about to replace another is as honest as those on disk.
Pending ==
    /\ pc = "stagerename" => StageCertificate(pending)
    /\ pc = "rename" => Certificate(pending)

\* A hit was decided on an honest certificate, and nothing has moved since.
Served ==
    pc = "replay" \/ (pc = "done" /\ served = "hit") =>
        PotSettled(handoff, policy, out, record) /\ Ff2xAgrees(handoff, aux, policy, out)

IInv == Typed /\ Recorded /\ Computing /\ Pending /\ Certified /\ Served

LEMMA IInvInit == Init => IInv
<1> SUFFICES ASSUME Init PROVE IInv
  OBVIOUS
<1>1. Typed
  BY TypedInit
<1>2. Certified
  BY DEF Init, Certified, Keys
<1> QED
  BY <1>1, <1>2 DEF Init, IInv, Recorded, Computing, Pending, Served, AfterPot, AfterFf2x

\* What is certified is the directory as it is.
LEMMA ContentHonest ==
    /\ StageCertificate(Content) <=> Ff2xAgrees(handoff, aux, policy, out)
    /\ Certificate(Content)
           <=> /\ PotSettled(handoff, policy, out, record)
               /\ Ff2xAgrees(handoff, aux, policy, out)
<1>1. /\ Content.handoff = handoff /\ Content.aux = aux /\ Content.policy = policy
      /\ Content.out = out /\ Content.record = record
  BY DEF Content
<1> QED
  BY <1>1 DEF StageCertificate, Certificate

\* A match with an honest manifest says that the directory is honest.
LEMMA HitHonest ==
    ASSUME Certified
    PROVE  /\ Matches("ff2x") => Ff2xAgrees(handoff, aux, policy, out)
           /\ Matches("pipeline") =>
                  /\ PotSettled(handoff, policy, out, record)
                  /\ Ff2xAgrees(handoff, aux, policy, out)
<1>1. Matches("ff2x") => StageCertificate(Content)
  BY DEF Matches, Certified
<1>2. Matches("pipeline") => Certificate(Content)
  BY DEF Matches, Certified
<1> QED
  BY <1>1, <1>2, ContentHonest

\* No step breaks the argument: an edit of the auxiliary file during a run is one
\* that LiveAux allows.
LEMMA IInvStep == IInv /\ [Next]_vars => IInv'
<1> SUFFICES ASSUME IInv, [Next]_vars PROVE IInv'
  OBVIOUS
<1>1. Typed'
  BY TypedStep DEF IInv
<1>2. /\ TypeOK /\ HandoffThere
      /\ Recorded
      /\ Computing
      /\ Pending
      /\ Certified
      /\ Served
  BY DEF IInv, Typed
<1> SUFFICES Recorded' /\ Computing' /\ Pending' /\ Certified' /\ Served'
  BY <1>1 DEF IInv
<1> USE DEF inputs, files, control, history, Goto, Resting
\* Steps that move no file keep every certificate.
<1>k. ASSUME UNCHANGED <<handoff, policy, out, record>>
      PROVE  /\ PotSettled(handoff, policy, out, record)
                   => PotSettled(handoff, policy, out, record)'
             /\ IsScf' = IsScf
             /\ Recorded'
  BY <1>2, <1>k DEF PotSettled, IsScf, Recorded
<1>a. ASSUME UNCHANGED <<handoff, policy, out, aux>>,
             Ff2xAgrees(handoff, aux, policy, out)
      PROVE  Ff2xAgrees(handoff, aux, policy, out)'
  BY <1>a DEF Ff2xAgrees, Ff2xHonest
<1>m. ASSUME UNCHANGED manifest PROVE Certified'
  BY <1>2, <1>m DEF Certified, Certificate, StageCertificate
<1>3. CASE Rdinp
  BY <1>2, <1>m, <1>3 DEF Rdinp, Computing, Pending, Served, AfterPot, AfterFf2x,
     Recorded
<1>4. CASE Lookup
  <2>1. Matches("pipeline") => /\ PotSettled(handoff, policy, out, record)
                               /\ Ff2xAgrees(handoff, aux, policy, out)
    BY <1>2, HitHonest
  <2> QED
    BY <1>2, <1>k, <1>a, <1>m, <1>4, <2>1 DEF Lookup, Computing, Pending, Served, AfterPot, AfterFf2x
<1>5. CASE Replay
  BY <1>2, <1>k, <1>a, <1>m, <1>5 DEF Replay, Computing, Pending, Served, AfterPot, AfterFf2x
<1>6. CASE PotKeep
  <2>1. record # None /\ record.pot = out.pot /\ record.input = PotPart[handoff]
    <3>1. record = Fresh /\ Fresh \in Records
      <4>1. out.pot \in PotOutputs /\ PotPart[handoff] \in PotInputs
        BY <1>2, <1>6, PotAssumption DEF PotKeep, KeepsPot, TypeOK, Outputs, HandoffThere
      <4> QED
        BY <1>6, <4>1 DEF PotKeep, KeepsPot, Fresh, Records
    <3> QED
      BY <3>1, NoneAssumption DEF Fresh
  <2>2. PotSettled(handoff, policy, out, record)
    BY <1>2, <1>6, <2>1 DEF PotKeep, KeepsPot, IsScf, Fresh, PotSettled, Recorded
  <2> QED
    BY <1>2, <1>k, <1>m, <1>6, <2>2 DEF PotKeep, Computing, Pending, Served, AfterPot, AfterFf2x
<1>7. CASE PotConfirm
  <2>1. out.pot = PotResult /\ PotResult # None
    BY <1>2, <1>7, PotResultType DEF PotConfirm, Confirmed, HandoffThere
  <2>2. out.pot.input = PotPart[handoff] /\ out.pot.policy = policy
    BY <2>1 DEF PotResult
  <2>3. ~IsScf => PotSettled(handoff, policy, out, record)
    BY <2>1, <2>2 DEF PotSettled, IsScf
  <2> QED
    BY <1>2, <1>k, <1>m, <1>7, <2>2, <2>3 DEF PotConfirm, IsScf, Computing, Pending, Served, AfterPot, AfterFf2x
<1>8. CASE PotBegin
  BY <1>2, <1>m, <1>8 DEF PotBegin, Recorded, Computing, Pending, Served, AfterPot, AfterFf2x
<1>9. CASE PotWrite
  <2>1. out'.pot = PotResult /\ PotResult # None
    BY <1>2, <1>9, PotResultType DEF PotWrite, TypeOK, Outputs, HandoffThere
  <2>2. out'.pot.input = PotPart[handoff] /\ out'.pot.policy = policy
    BY <2>1 DEF PotResult
  <2>3. ~IsScf => PotSettled(handoff, policy, out, record)'
    BY <1>9, <2>1, <2>2 DEF PotWrite, PotSettled, IsScf
  <2> QED
    BY <1>2, <1>m, <1>9, <2>2, <2>3 DEF PotWrite, IsScf, Recorded, Computing, Pending, Served, AfterPot, AfterFf2x
<1>10. CASE PotRecord
  <2>1. out.pot # None /\ out.pot.input = PotPart[handoff] /\ IsScf
    BY <1>2, <1>10 DEF PotRecord, Computing, IInv, Typed, PotThere
  <2>2. record' = [input |-> PotPart[handoff], pot |-> out.pot]
    BY <1>10 DEF PotRecord, Fresh
  <2>3. PotSettled(handoff, policy, out, record)' /\ Recorded'
    BY <1>10, <2>1, <2>2 DEF PotRecord, PotSettled, IsScf, Recorded
  <2> QED
    BY <1>2, <1>m, <1>10, <2>3 DEF PotRecord, Computing, Pending, Served, AfterPot, AfterFf2x
<1>11. CASE StageLookup
  <2>1. Matches("ff2x") => Ff2xAgrees(handoff, aux, policy, out)
    BY <1>2, HitHonest
  <2> QED
    BY <1>2, <1>k, <1>a, <1>m, <1>11, <2>1 DEF StageLookup, Computing, Pending, Served, AfterPot, AfterFf2x
<1>12. CASE Read
  <2>1. aux' \in Auxiliary /\ aux' = aux
    BY <1>2, <1>12 DEF Read, TypeOK
  <2>2. handoff \notin External =>
          seen' = [pot |-> out.pot, handoff |-> handoff, aux |-> aux,
                   outside |-> None, policy |-> policy]
    BY <1>12 DEF Read, Ff2xResult
  <2> QED
    BY <1>2, <1>k, <1>m, <1>12, <2>1, <2>2 DEF Read, Computing, Pending, Served, AfterPot, AfterFf2x
<1>13. CASE Write
  <2>1. out'.pot = out.pot /\ out'.ff2x = seen
    BY <1>2, <1>13 DEF Write, TypeOK, Outputs
  <2>2. handoff \notin External => Ff2xAgrees(handoff, aux, policy, out)'
    BY <1>2, <1>13, <2>1 DEF Write, Computing, Ff2xAgrees, Ff2xHonest
  <2>3. PotSettled(handoff, policy, out, record)'
    BY <1>2, <1>13, <2>1 DEF Write, PotSettled, Computing, AfterPot
  <2> QED
    BY <1>2, <1>m, <1>13, <2>2, <2>3 DEF Write, Recorded, Computing, Pending, Served, AfterPot, AfterFf2x
<1>14. CASE StageCertify
  <2>1. Certifiable => StageCertificate(Content)
    BY <1>2, <1>14, ContentHonest DEF StageCertify, Computing, AfterFf2x, Certifiable
  <2>2. pc' = "stagerename" => StageCertificate(pending')
    BY <1>14, <2>1 DEF StageCertify
  <2>3. Pending'
    BY <1>14, <2>2 DEF StageCertify, Pending, StageCertificate
  <2> QED
    BY <1>2, <1>k, <1>a, <1>m, <1>14, <2>3 DEF StageCertify, Computing, Served, AfterPot, AfterFf2x
<1>15. CASE StageRename
  <2>1. /\ manifest'["pipeline"] = manifest["pipeline"]
        /\ manifest'["ff2x"] = pending
    BY <1>2, <1>15 DEF StageRename, TypeOK, Keys
  <2>2. Certified'
    BY <1>2, <1>15, <2>1 DEF StageRename, Pending, Certified, Certificate, StageCertificate
  <2> QED
    BY <1>2, <1>k, <1>a, <1>15, <2>2 DEF StageRename, Computing, Pending, Served, AfterPot, AfterFf2x
<1>16. CASE Certify
  <2>1. Certifiable => Certificate(Content)
    BY <1>2, <1>16, ContentHonest DEF Certify, Computing, AfterPot, AfterFf2x, Certifiable
  <2>2. pc' = "rename" => Certificate(pending')
    BY <1>16, <2>1 DEF Certify
  <2>3. Pending'
    BY <1>16, <2>2 DEF Certify, Pending, Certificate, StageCertificate
  <2> QED
    BY <1>2, <1>k, <1>a, <1>m, <1>16, <2>3 DEF Certify, Computing, Served, AfterPot, AfterFf2x
<1>17. CASE Rename
  <2>1. /\ manifest'["pipeline"] = pending
        /\ manifest'["ff2x"] = manifest["ff2x"]
    BY <1>2, <1>17 DEF Rename, TypeOK, Keys
  <2>2. Certified'
    BY <1>2, <1>17, <2>1 DEF Rename, Pending, Certified, Certificate, StageCertificate
  <2> QED
    BY <1>2, <1>k, <1>a, <1>17, <2>2 DEF Rename, Computing, Pending, Served, AfterPot, AfterFf2x
<1>18. CASE SaveFails
  BY <1>2, <1>k, <1>a, <1>m, <1>18 DEF SaveFails, Computing, Pending, Served, AfterPot, AfterFf2x
<1>19. CASE Stop
  BY <1>2, <1>m, <1>19 DEF Stop, Recorded, Computing, Pending, Served, AfterPot, AfterFf2x
<1>20. CASE EditInput \/ EditOutside
  BY <1>2, <1>k, <1>a, <1>m, <1>20 DEF EditInput, EditOutside, Computing, Pending, Served, AfterPot, AfterFf2x
<1>21. CASE EditAuxiliary
  <2>1. LiveAux /\ Ff2xAgrees(handoff, aux, policy, out) => Ff2xAgrees(handoff, aux, policy, out)'
    BY <1>21 DEF EditAuxiliary, Ff2xAgrees, Ff2xHonest
  <2> QED
    BY <1>2, <1>k, <1>m, <1>21, <2>1 DEF EditAuxiliary, Computing, Pending, Served, AfterPot, AfterFf2x
<1>22. CASE SetPolicy
  BY <1>2, <1>m, <1>22 DEF SetPolicy, Recorded, Computing, Pending, Served, AfterPot, AfterFf2x
<1>23. CASE Remove
  BY <1>2, <1>m, <1>23 DEF Remove, Recorded, Computing, Pending, Served, AfterPot, AfterFf2x
<1>24. CASE UNCHANGED vars
  BY <1>2, <1>k, <1>a, <1>m, <1>24 DEF vars, Computing, Pending, Served, AfterPot, AfterFf2x
<1> QED
  BY <1>3, <1>4, <1>5, <1>6, <1>7, <1>8, <1>9, <1>10, <1>11, <1>12, <1>13,
     <1>14, <1>15, <1>16, <1>17, <1>18, <1>19, <1>20, <1>21, <1>22, <1>23, <1>24 DEF Next

\* What FF2X wrote agrees with the auxiliary file when it cannot be edited.
LEMMA AgreesIsHonest ==
    ASSUME ~LiveAux, NEW h, NEW a, NEW p, NEW o, Ff2xAgrees(h, a, p, o)
    PROVE  Ff2xHonest(h, a, p, o)
  BY DEF Ff2xAgrees

\* What POT has done with is what it would keep or compute now.
LEMMA SettledIsHonest ==
    /\ \A h, p, o, rec : PotSettled(h, p, o, rec) => PotHonest(h, p, o)
    /\ Typed /\ PotSettled(handoff, policy, out, record) => KeepsPot \/ out.pot = PotResult
<1>1. \A h, p, o, rec : PotSettled(h, p, o, rec) => PotHonest(h, p, o)
  BY DEF PotSettled, PotHonest
<1>2. ASSUME Typed, PotSettled(handoff, policy, out, record)
      PROVE  KeepsPot \/ out.pot = PotResult
  <2>1. out.pot \in PotOutputs
    BY <1>2 DEF Typed, TypeOK, Outputs, PotSettled
  <2>2. CASE PotPart[handoff] \in Scf
    BY <1>2, <2>2 DEF PotSettled, KeepsPot, IsScf, Fresh
  <2>3. CASE PotPart[handoff] \notin Scf
    BY <1>2, <2>1, <2>3 DEF PotSettled, PotOutputs, PotResult
  <2> QED
    BY <2>2, <2>3
<1> QED
  BY <1>1, <1>2

\* Each manifest certifies outputs that come from the files and the policy it
\* certifies them with, but for the policy of a self-consistent potential.
THEOREM ManifestsHonest ==
    ASSUME ~LiveAux PROVE Spec => []CertifiedIsHonest
<1>1. IInv => CertifiedIsHonest
  BY AgreesIsHonest, SettledIsHonest
  DEF IInv, Certified, Certificate, StageCertificate, CertifiedIsHonest
<1> QED
  BY <1>1, IInvInit, IInvStep, PTL DEF Spec

\* A run served from the cache leaves the potential that POT would keep or
\* compute now, and what FF2X would compute from it, the present hand-offs,
\* auxiliary file and policy.
THEOREM HitsAreCurrent == ASSUME ~LiveAux PROVE Spec => []HitIsCurrent
<1>1. IInv => HitIsCurrent
  BY AgreesIsHonest, SettledIsHonest DEF IInv, Served, HitIsCurrent
<1> QED
  BY <1>1, IInvInit, IInvStep, PTL DEF Spec

\* Even if the auxiliary file is edited while a run computes, a run served from
\* the cache leaves the potential computing would leave, and what FF2X computes
\* from it under the present policy with some version of the auxiliary file.
\* The version is all that can be out of date.
HitIsComputed ==
    pc = "done" /\ served = "hit" =>
        /\ PotHonest(handoff, policy, out)
        /\ KeepsPot \/ out.pot = PotResult
        /\ \E a \in Auxiliary : Ff2xHonest(handoff, a, policy, out)

\* This holds however files are edited.
THEOREM HitsAreComputed == Spec => []HitIsComputed
<1>1. IInv => HitIsComputed
  BY SettledIsHonest DEF IInv, Served, HitIsComputed, Ff2xAgrees
<1> QED
  BY <1>1, IInvInit, IInvStep, PTL DEF Spec

-----------------------------------------------------------------------------
(* A directory that was certified and not touched is served from the cache. *)

\* The manifest of the pipeline matches the directory as RDINP leaves it.
Described == Matches("pipeline") /\ handoff = feff

\* A manifest that is current describes the directory, and no run computes.
\* A manifest being saved describes it too unless something was edited.
RInv ==
    /\ current => Described /\ pc \in {"idle", "lookup", "replay", "done"}
    /\ expected => current
    /\ expected /\ pc = "done" /\ served # "none" => served = "hit"
    /\ ~Resting /\ ~touched => handoff = feff
    /\ pc = "rename" /\ ~touched =>
           Certifiable /\ pending # None /\ pending = Content

LEMMA RInvInit == Init => RInv
  BY DEF Init, RInv, Resting

\* A fingerprint is not the absence of one.
LEMMA ContentThere == TypeOK => Content # None
  BY ContentType, NoneAssumption

\* No step breaks the argument: an edit clears current and expected, and only
\* a saved fingerprint of an untouched directory sets current.
LEMMA RInvStep == ASSUME Typed, RInv, [Next]_vars PROVE RInv'
<1>1. TypeOK /\ Content # None
  BY ContentThere DEF Typed
<1> USE DEF inputs, files, control, history, Goto, Resting, Described, Matches,
            Content, Certifiable
<1>2. CASE Rdinp
  BY <1>2 DEF Rdinp, RInv
<1>3. CASE Lookup
  BY <1>3 DEF Lookup, RInv
<1>4. CASE Replay
  BY <1>4 DEF Replay, RInv
<1>5. CASE PotKeep \/ PotConfirm \/ PotBegin \/ PotWrite \/ PotRecord
  BY <1>5 DEF PotKeep, PotConfirm, PotBegin, PotWrite, PotRecord, RInv
<1>6. CASE StageLookup
  BY <1>6 DEF StageLookup, RInv
<1>7. CASE Read
  BY <1>7 DEF Read, RInv
<1>8. CASE Write
  BY <1>8 DEF Write, RInv
<1>9. CASE StageCertify
  BY <1>9 DEF StageCertify, RInv
<1>10. CASE StageRename
  BY <1>10 DEF StageRename, RInv
<1>11. CASE Certify
  BY <1>1, <1>11 DEF Certify, RInv
<1>12. CASE Rename
  <2>1. manifest'["pipeline"] = pending
    BY <1>1, <1>12 DEF Rename, TypeOK, Keys
  <2> QED
    BY <1>12, <2>1 DEF Rename, RInv
<1>13. CASE SaveFails
  BY <1>13 DEF SaveFails, RInv
<1>14. CASE Stop
  BY <1>14 DEF Stop, RInv
<1>15. CASE EditInput
  BY <1>15 DEF EditInput, Edited, RInv
<1>16. CASE EditOutside
  BY <1>16 DEF EditOutside, Edited, RInv
<1>17. CASE EditAuxiliary
  BY <1>17 DEF EditAuxiliary, Edited, RInv
<1>18. CASE SetPolicy
  BY <1>18 DEF SetPolicy, Edited, RInv
<1>19. CASE Remove
  BY <1>19 DEF Remove, Edited, RInv
<1>20. CASE UNCHANGED vars
  BY <1>20 DEF vars, RInv
<1> QED
  BY <1>2, <1>3, <1>4, <1>5, <1>6, <1>7, <1>8, <1>9, <1>10, <1>11, <1>12,
     <1>13, <1>14, <1>15, <1>16, <1>17, <1>18, <1>19, <1>20 DEF Next

\* A run of a directory that was certified and not touched since is served
\* from the cache.
THEOREM RepeatsHit == Spec => []RepeatHits
<1>1. Init => Typed /\ RInv
  BY TypedInit, RInvInit
<1>2. Typed /\ RInv /\ [Next]_vars => Typed' /\ RInv'
  BY TypedStep, RInvStep
<1>3. RInv => RepeatHits
  BY DEF RInv, RepeatHits
<1> QED
  BY <1>1, <1>2, <1>3, PTL DEF Spec
=============================================================================
