---------------------------- MODULE Memory_proofs ----------------------------
(***************************************************************************)
(* What the shared memory guarantees for every set of findings, messages   *)
(* and plans, however long a plan or a reaction waits.                     *)
(***************************************************************************)
EXTENDS Memory, FiniteSetTheorems, WellFoundedInduction, TLAPS

-----------------------------------------------------------------------------
(* Type correctness.                                                       *)

SourceOrNone == Messages \union {NoSource}

LEMMA RowsOfMemory ==
  /\ NoFinding \in FindingRows
  /\ NoPlanRow \in PlanRows
  /\ \A n \in Nat, t \in Tags, W \in SUBSET Messages, s \in SourceOrNone :
       Published(n, t, W, s) \in FindingRows
<1>1. NoFinding \in FindingRows
  BY DEF NoFinding, FindingRows
<1>2. NoPlanRow \in PlanRows
  <2>1. (CHOOSE f \in Findings : TRUE) \in Findings /\ (CHOOSE t \in PlanTags : TRUE) \in PlanTags
    BY PlanAssumption
  <2> QED
    BY <2>1 DEF NoPlanRow, PlanRows
<1>3. ASSUME NEW n \in Nat, NEW t \in Tags, NEW W \in SUBSET Messages,
             NEW s \in SourceOrNone
      PROVE  Published(n, t, W, s) \in FindingRows
  BY DEF Published, FindingRows, Origins, SourceOrNone
<1> QED
  BY <1>1, <1>2, <1>3

(* The row of a marking.                                                   *)
Marking(n, origin, t, s) ==
  [NoFinding EXCEPT !.revision = n, !.tag = t, !.origin = origin, !.lost = s]

LEMMA MarkingRow ==
  ASSUME NEW n \in Nat, NEW origin \in Origins, NEW t \in Tags, NEW s \in SourceOrNone
  PROVE  /\ Marking(n, origin, t, s) \in FindingRows
         /\ Marking(n, origin, t, s).revision = n
         /\ Marking(n, origin, t, s).origin = origin
BY DEF Marking, NoFinding, FindingRows, SourceOrNone

LEMMA MarkedRows ==
  ASSUME MemoryTypeOK, NEW F \in SUBSET Findings, NEW origin \in Origins, NEW t \in Tags,
         NEW s \in SourceOrNone
  PROVE  /\ Marked(F, origin, t, s) \in [Findings -> FindingRows]
         /\ \A f \in Findings \ F : Marked(F, origin, t, s)[f] = findings[f]
         /\ \A f \in F : /\ Marked(F, origin, t, s)[f].revision = findings[f].revision + 1
                         /\ Marked(F, origin, t, s)[f].origin = origin
<1>1. \A f \in Findings : findings[f] \in FindingRows /\ findings[f].revision + 1 \in Nat
  BY DEF MemoryTypeOK, FindingRows
<1>2. Marked(F, origin, t, s) =
        [f \in Findings |-> IF f \in F THEN Marking(findings[f].revision + 1, origin, t, s)
                            ELSE findings[f]]
  BY DEF Marked, Marking
<1> QED
  BY <1>1, <1>2, MarkingRow

LEMMA MemoryTypeInit == MemoryInit => MemoryTypeOK
<1> SUFFICES ASSUME MemoryInit PROVE MemoryTypeOK
  OBVIOUS
<1>1. findings \in [Findings -> FindingRows]
  <2>1. PICK known \in SUBSET Findings, s \in Messages :
          findings = [f \in Findings |-> IF f \in known THEN Published(1, "known", {s}, s)
                                         ELSE NoFinding]
    BY DEF MemoryInit
  <2>2. Published(1, "known", {s}, s) \in FindingRows
    BY RowsOfMemory DEF Tags, SourceOrNone
  <2> QED
    BY <2>1, <2>2, RowsOfMemory
<1> QED
  BY <1>1, RowsOfMemory DEF MemoryInit, MemoryTypeOK

(* A step that marks the findings F, and registers and consumes reactions. *)
LEMMA MarkingType ==
  ASSUME MemoryTypeOK, NEW F \in SUBSET Findings, NEW origin \in Origins, NEW t \in Tags,
         NEW s \in SourceOrNone, NEW G \in SUBSET Findings, NEW R,
         findings' = Marked(F, origin, t, s),
         reactions' = R \union RevisedEvents(F) \union Carriers(G, Marked(F, origin, t, s)),
         R \subseteq reactions
  PROVE  /\ findings' \in [Findings -> FindingRows]
         /\ \A r \in reactions' : r \in Reactions
<1>1. findings' \in [Findings -> FindingRows]
  BY MarkedRows
<1>2. \A f \in Findings : findings[f].revision \in Nat /\ findings'[f].revision \in Nat
  BY <1>1 DEF MemoryTypeOK, FindingRows
<1>3. \A r \in RevisedEvents(F) : r \in Reactions
  BY <1>2 DEF RevisedEvents, Reactions
<1>4. \A r \in Carriers(G, findings') : r \in Reactions
  BY <1>2 DEF Carriers, Reactions
<1> QED
  BY <1>1, <1>3, <1>4 DEF MemoryTypeOK

LEMMA ReanalysedType ==
  ASSUME MemoryTypeOK, NEW F
  PROVE  Reanalysed(F) \in [Messages -> Nat]
BY DEF Reanalysed, MemoryTypeOK

LEMMA MemoryTypeStep == MemoryTypeOK /\ [MemoryNext]_memoryVars => MemoryTypeOK'
<1> SUFFICES ASSUME MemoryTypeOK, [MemoryNext]_memoryVars PROVE MemoryTypeOK'
  OBVIOUS
<1>1. ASSUME NEW p \in Plans, NEW s \in Messages, NEW f \in Findings, PrepareChangeSet(p, s, f)
      PROVE  MemoryTypeOK'
  <2>1. PICK W \in SUBSET Messages, bases \in SUBSET {b \in Findings : Exists(b)},
             t \in PlanTags :
          plans' = [plans EXCEPT ![p] =
                      [prepared |-> TRUE, source |-> s, finding |-> f,
                       expected |-> findings[f].revision, tag |-> t,
                       witnesses |-> W, derivesFrom |-> bases]]
    BY <1>1 DEF PrepareChangeSet
  <2>2. findings[f].revision \in Nat
    BY DEF MemoryTypeOK, FindingRows
  <2>3. plans' \in [Plans -> PlanRows]
    BY <2>1, <2>2 DEF MemoryTypeOK, PlanRows
  <2>4. analyses' \in [Messages -> Nat]
    BY <1>1 DEF PrepareChangeSet, MemoryTypeOK
  <2> QED
    BY <1>1, <2>3, <2>4 DEF PrepareChangeSet, MemoryTypeOK
<1>2. ASSUME NEW p \in Plans, Publish(p) PROVE MemoryTypeOK'
  <2> DEFINE plan == plans[p]
             n == findings[plan.finding].revision + 1
  <2>1. plan \in PlanRows /\ plan.finding \in Findings
    BY DEF MemoryTypeOK, PlanRows
  <2>2. n \in Nat
    BY <2>1 DEF MemoryTypeOK, FindingRows
  <2> HIDE DEF n
  <2>3. Published(n, plan.tag, plan.witnesses, plan.source) \in FindingRows
    BY <2>1, <2>2, RowsOfMemory, PlanAssumption DEF PlanRows, SourceOrNone
  <2>4. findings' \in [Findings -> FindingRows]
    BY <1>2, <2>1, <2>3 DEF Publish, MemoryTypeOK, n
  <2>5. <<"revised", plan.finding, n>> \in Reactions
    BY <2>1, <2>2 DEF Reactions
  <2>6. \A r \in reactions' : r \in Reactions
    BY <1>2, <2>5 DEF Publish, MemoryTypeOK, n
  <2>7. edges' \subseteq Findings \X Findings
    BY <1>2, <2>1 DEF Publish, MemoryTypeOK, PlanRows
  <2>8. plans' \in [Plans -> PlanRows]
    BY <1>2, RowsOfMemory DEF Publish, MemoryTypeOK
  <2> QED
    BY <1>2, <2>4, <2>6, <2>7, <2>8 DEF Publish, MemoryTypeOK
<1>3. ASSUME NEW p \in Plans, FailChangeSet(p) PROVE MemoryTypeOK'
  BY <1>3, RowsOfMemory DEF FailChangeSet, MemoryTypeOK
<1>4. ASSUME NEW f \in Findings, CorrectFinding(f) PROVE MemoryTypeOK'
  <2> DEFINE n == findings[f].revision + 1
  <2>1. n \in Nat
    BY DEF MemoryTypeOK, FindingRows
  <2> HIDE DEF n
  <2>2. [NoFinding EXCEPT !.revision = n, !.tag = "known", !.origin = "correction"] \in FindingRows
    BY <2>1 DEF NoFinding, FindingRows, Tags, Origins, SourceOrNone
  <2>3. findings' \in [Findings -> FindingRows]
    BY <1>4, <2>2 DEF CorrectFinding, MemoryTypeOK, n
  <2>4. <<"revised", f, n>> \in Reactions
    BY <2>1 DEF Reactions
  <2>5. \A r \in reactions' : r \in Reactions
    BY <1>4, <2>4 DEF CorrectFinding, MemoryTypeOK, n
  <2> QED
    BY <1>4, <2>3, <2>5 DEF CorrectFinding, MemoryTypeOK
<1>5. ASSUME NEW s \in Messages, WithdrawSource(s) \/ DeleteSource(s) PROVE MemoryTypeOK'
  BY <1>5 DEF WithdrawSource, DeleteSource, MemoryTypeOK, Reactions
<1>6. ASSUME NEW s \in Messages, ReassignSource(s) PROVE MemoryTypeOK'
  <2>1. moves[s] + 1 \in Nat
    BY DEF MemoryTypeOK
  <2>2. <<"reassigned", s, moves[s] + 1>> \in Reactions
    BY <2>1 DEF Reactions
  <2>3. placed' \in [Messages -> BOOLEAN] /\ moves' \in [Messages -> Nat]
    BY <1>6, <2>1 DEF ReassignSource, MemoryTypeOK
  <2>4. \A r \in reactions' : r \in Reactions
    BY <1>6, <2>2 DEF ReassignSource, MemoryTypeOK
  <2> QED
    BY <1>6, <2>3, <2>4 DEF ReassignSource, MemoryTypeOK
<1>7. ASSUME NEW s \in Messages, MarkWithdrawnSupport(s) PROVE MemoryTypeOK'
  <2> DEFINE marked == {f \in Findings : LosesSupport(f, s)}
             row == Marked(marked, "withdrawal_marking", "unknown", s)
  <2>1. WithdrawnRoots(s, row) \in SUBSET Findings
    BY DEF WithdrawnRoots
  <2>2. findings' \in [Findings -> FindingRows] /\ \A r \in reactions' : r \in Reactions
    BY <1>7, <2>1, MarkingType DEF MarkWithdrawnSupport, Origins, Tags, SourceOrNone
  <2> QED
    BY <1>7, <2>2 DEF MarkWithdrawnSupport, MemoryTypeOK
<1>8. ASSUME NEW s \in Messages, MarkPurgedSupport(s) PROVE MemoryTypeOK'
  <2>1. findings' \in [Findings -> FindingRows] /\ \A r \in reactions' : r \in Reactions
    BY <1>8, MarkingType DEF MarkPurgedSupport, Origins, Tags, SourceOrNone
  <2>2. plans' \in [Plans -> PlanRows]
    BY <1>8, RowsOfMemory DEF MarkPurgedSupport, MemoryTypeOK
  <2> QED
    BY <1>8, <2>1, <2>2 DEF MarkPurgedSupport, MemoryTypeOK
<1>9. ASSUME NEW s \in Messages, NEW n \in 1 .. moves[s], MarkReassignedScope(s, n)
      PROVE  MemoryTypeOK'
  <2>1. findings' \in [Findings -> FindingRows] /\ \A r \in reactions' : r \in Reactions
    BY <1>9, MarkingType DEF MarkReassignedScope, Origins, Tags, SourceOrNone
  <2> QED
    BY <1>9, <2>1, ReanalysedType DEF MarkReassignedScope, MemoryTypeOK
<1>10. ASSUME NEW s \in Messages, RefuseReaction(s) PROVE MemoryTypeOK'
  BY <1>10 DEF RefuseReaction, MemoryTypeOK
<1>11. ASSUME NEW f \in Findings, NEW n \in 1 .. findings[f].revision, MarkStaleDependents(f, n)
       PROVE  MemoryTypeOK'
  <2> DEFINE marked == {d \in Dependents(f) : GoesStale(d)}
  <2>1. marked \in SUBSET Findings
    BY DEF Dependents
  <2>2. findings' \in [Findings -> FindingRows] /\ \A r \in reactions' : r \in Reactions
    BY <1>11, <2>1, MarkingType DEF MarkStaleDependents, Origins, Tags, SourceOrNone
  <2> QED
    BY <1>11, <2>2, ReanalysedType DEF MarkStaleDependents, MemoryTypeOK
<1>12. ASSUME NEW f \in Findings, NEW n \in 1 .. findings[f].revision, RevalidateDependents(f, n)
       PROVE  MemoryTypeOK'
  BY <1>12, ReanalysedType DEF RevalidateDependents, MemoryTypeOK
<1>13. CASE UNCHANGED memoryVars
  BY <1>13 DEF memoryVars, MemoryTypeOK
<1> QED
  BY <1>1, <1>2, <1>3, <1>4, <1>5, <1>6, <1>7, <1>8, <1>9, <1>10, <1>11, <1>12, <1>13
     DEF MemoryNext

(* No finding, plan or reaction ever leaves its type.                      *)
THEOREM MemoryTypeCorrect == MemorySpec => []MemoryTypeOK
BY MemoryTypeInit, MemoryTypeStep, PTL DEF MemorySpec

-----------------------------------------------------------------------------
(* How the findings move.                                                  *)

(* What one step may do to a finding.                                      *)
Republished(f) ==
  \E p \in Plans :
    /\ plans[p].prepared /\ plans[p].finding = f
    /\ MayPublish(plans[p])
    /\ findings'[f].revision = findings[f].revision + 1
    /\ findings'[f] = Published(findings[f].revision + 1, plans[p].tag, plans[p].witnesses,
                                plans[p].source)

Remarked(f) ==
  /\ findings'[f].revision = findings[f].revision + 1
  /\ findings'[f].origin \in {"correction", "withdrawal_marking", "reassignment_marking",
                              "purge_marking"}
  /\ findings[f].origin = "correction" => findings'[f].origin = "correction"

LEMMA FindingSteps ==
  ASSUME MemoryTypeOK, [MemoryNext]_memoryVars, NEW f \in Findings
  PROVE  findings'[f] = findings[f] \/ Republished(f) \/ Remarked(f)
<1>0. /\ findings \in [Findings -> FindingRows] /\ plans \in [Plans -> PlanRows]
      /\ findings[f].revision \in Nat
  BY DEF MemoryTypeOK, FindingRows
<1>1. ASSUME NEW p \in Plans, Publish(p)
      PROVE  findings'[f] = findings[f] \/ Republished(f)
  <2>1. plans[p].finding \in Findings
    BY <1>0 DEF PlanRows
  <2>2. CASE plans[p].finding = f
    <3>1. findings'[f] = Published(findings[f].revision + 1, plans[p].tag, plans[p].witnesses,
                                   plans[p].source)
      BY <1>0, <1>1, <2>2 DEF Publish
    <3>2. findings'[f].revision = findings[f].revision + 1
      BY <3>1 DEF Published
    <3> QED
      BY <1>1, <2>2, <3>1, <3>2 DEF Publish, Republished
  <2>3. CASE plans[p].finding # f
    BY <1>0, <1>1, <2>1, <2>3 DEF Publish
  <2> QED
    BY <2>2, <2>3
<1>2. ASSUME NEW g \in Findings, CorrectFinding(g)
      PROVE  findings'[f] = findings[f] \/ Remarked(f)
  <2>1. findings' = [findings EXCEPT ![g] = [NoFinding EXCEPT !.revision = findings[g].revision + 1,
                                               !.tag = "known", !.origin = "correction"]]
    BY <1>2 DEF CorrectFinding
  <2>2. ASSUME NEW n
        PROVE  LET row == [NoFinding EXCEPT !.revision = n, !.tag = "known", !.origin = "correction"]
               IN row.revision = n /\ row.origin = "correction"
    BY DEF NoFinding
  <2> QED
    BY <1>0, <2>1, <2>2 DEF Remarked
<1>3. ASSUME NEW F \in SUBSET Findings, NEW t \in Tags, NEW s \in SourceOrNone,
             NEW origin \in Origins, origin \notin {"publication", "correction"},
             findings' = Marked(F, origin, t, s),
             f \in F => findings[f].origin # "correction"
      PROVE  findings'[f] = findings[f] \/ Remarked(f)
  <2>1. /\ f \notin F => findings'[f] = findings[f]
        /\ f \in F => findings'[f].revision = findings[f].revision + 1 /\ findings'[f].origin = origin
    BY <1>3, MarkedRows
  <2> QED
    BY <1>3, <2>1 DEF Remarked, Origins
<1>4. ASSUME NEW s \in Messages, MarkWithdrawnSupport(s) \/ MarkPurgedSupport(s)
      PROVE  findings'[f] = findings[f] \/ Remarked(f)
  BY <1>3, <1>4 DEF MarkWithdrawnSupport, MarkPurgedSupport, LosesSupport, Tags, Origins, SourceOrNone
<1>5. ASSUME NEW s \in Messages, NEW n \in 1 .. moves[s], MarkReassignedScope(s, n)
      PROVE  findings'[f] = findings[f] \/ Remarked(f)
  BY <1>3, <1>5 DEF MarkReassignedScope, LosesPlacement, Tags, Origins, SourceOrNone
<1>6. ASSUME NEW g \in Findings, NEW n \in 1 .. findings[g].revision, MarkStaleDependents(g, n)
      PROVE  findings'[f] = findings[f] \/ Remarked(f)
  BY <1>3, <1>6 DEF MarkStaleDependents, GoesStale, Dependents, Tags, Origins, SourceOrNone
<1>7. CASE UNCHANGED findings
  BY <1>7
<1> QED
  BY <1>1, <1>2, <1>4, <1>5, <1>6, <1>7
     DEF MemoryNext, memoryVars, PrepareChangeSet, FailChangeSet, WithdrawSource, DeleteSource,
         ReassignSource, RefuseReaction, RevalidateDependents

(* No plan that waited, no withdrawal, purge, reassignment or cascade         *)
(* overwrites a correction: only another correction does, or a publication of *)
(* a plan that was prepared against that very revision (plan.ts,              *)
(* decidePublish).                                                            *)
THEOREM CorrectionsStand == MemorySpec => CorrectionStands
<1> DEFINE Stays ==
      \A f \in Findings :
        findings[f].origin = "correction" /\ findings'[f] # findings[f] =>
          \/ findings'[f].origin = "correction"
          \/ \E p \in Plans : /\ plans[p].prepared /\ plans[p].finding = f
                              /\ plans[p].expected = findings[f].revision
                              /\ findings'[f].origin = "publication"
<1>1. MemoryTypeOK /\ [MemoryNext]_memoryVars => [Stays]_memoryVars
  <2> SUFFICES ASSUME MemoryTypeOK, [MemoryNext]_memoryVars, NEW f \in Findings,
                      findings[f].origin = "correction", findings'[f] # findings[f]
               PROVE  \/ findings'[f].origin = "correction"
                      \/ \E p \in Plans : /\ plans[p].prepared /\ plans[p].finding = f
                                          /\ plans[p].expected = findings[f].revision
                                          /\ findings'[f].origin = "publication"
    OBVIOUS
  <2>1. Republished(f) \/ Remarked(f)
    BY FindingSteps
  <2>2. CASE Remarked(f)
    BY <2>2 DEF Remarked
  <2>3. CASE Republished(f)
    BY <2>3 DEF Republished, MayPublish, NothingRevisedSince, Published
  <2> QED
    BY <2>1, <2>2, <2>3
<1> QED
  BY <1>1, MemoryTypeCorrect, PTL DEF MemorySpec, CorrectionStands

-----------------------------------------------------------------------------
(* A witness that is gone.  The reaction that is still to come is the one of  *)
(* the state the message is in: the reaction to a withdrawal is refused once  *)
(* the message is purged, so a purged message must have its own.              *)

ReactionIsPending ==
  \A f \in Findings, s \in Messages :
    /\ findings[f].origin = "publication" /\ findings[f].tag = "known"
    /\ findings[f].witnesses = {s} /\ ~Active(s)
    => <<standing[s], s>> \in reactions

(* The steps of the reactions other than the one of message s.             *)
LEMMA ReactionIsPendingStep ==
  MemoryTypeOK /\ ReactionIsPending /\ [MemoryNext]_memoryVars => ReactionIsPending'
<1> SUFFICES ASSUME MemoryTypeOK, ReactionIsPending, [MemoryNext]_memoryVars,
                    NEW f \in Findings, NEW s \in Messages,
                    findings'[f].origin = "publication", findings'[f].tag = "known",
                    findings'[f].witnesses = {s}, standing'[s] # "active"
             PROVE  <<standing'[s], s>> \in reactions'
  BY DEF ReactionIsPending, Active
<1>0. /\ standing \in [Messages -> {"active", "withdrawn", "purged"}]
      /\ findings[f].origin = "publication" /\ findings[f].tag = "known"
           /\ findings[f].witnesses = {s} /\ standing[s] # "active"
         => <<standing[s], s>> \in reactions
  BY DEF MemoryTypeOK, ReactionIsPending, Active
<1>1. findings'[f] = findings[f] \/ Republished(f)
  BY FindingSteps DEF Remarked
<1>2. CASE Republished(f)
  <2>1. findings'[f] # findings[f]
    BY <1>2 DEF Republished, MemoryTypeOK, FindingRows
  <2>2. PICK p \in Plans : plans[p].witnesses = {s} /\ MayPublish(plans[p])
    BY <1>2 DEF Republished, Published
  <2>3. standing[s] = "active"
    BY <2>2 DEF MayPublish, SupportIsActive, Active
  <2>4. standing'[s] = "active"
    BY <1>0, <2>1, <2>3
       DEF MemoryNext, memoryVars, PrepareChangeSet, Publish, FailChangeSet, CorrectFinding,
           WithdrawSource, DeleteSource, ReassignSource, MarkWithdrawnSupport, MarkPurgedSupport,
           MarkReassignedScope, RefuseReaction, MarkStaleDependents, RevalidateDependents
  <2> QED
    BY <2>4
<1>3. CASE findings'[f] = findings[f]
  <2>1. ASSUME standing'[s] # standing[s] PROVE <<standing'[s], s>> \in reactions'
    BY <1>0, <2>1
       DEF MemoryNext, memoryVars, PrepareChangeSet, Publish, FailChangeSet, CorrectFinding,
           WithdrawSource, DeleteSource, ReassignSource, MarkWithdrawnSupport, MarkPurgedSupport,
           MarkReassignedScope, RefuseReaction, MarkStaleDependents, RevalidateDependents
  <2>2. ASSUME standing'[s] = standing[s] PROVE <<standing[s], s>> \in reactions'
    <3>1. <<standing[s], s>> \in reactions /\ standing[s] \in {"withdrawn", "purged"}
      BY <1>0, <1>3, <2>2
    <3>2. LosesSupport(f, s)
      BY <1>3 DEF LosesSupport
    <3>3. ASSUME NEW r \in Messages, MarkWithdrawnSupport(r) \/ MarkPurgedSupport(r)
          PROVE  <<standing[s], s>> \in reactions'
      <4>1. r # s
        <5>1. ASSUME r = s PROVE findings'[f].origin # "publication"
          <6>1. PICK origin \in {"withdrawal_marking", "purge_marking"} :
                  findings' = Marked({g \in Findings : LosesSupport(g, s)}, origin, "unknown", s)
            BY <3>3, <5>1 DEF MarkWithdrawnSupport, MarkPurgedSupport
          <6>2. f \in {g \in Findings : LosesSupport(g, s)}
            BY <3>2
          <6>3. /\ origin \in Origins /\ "unknown" \in Tags /\ origin # "publication"
                /\ s \in SourceOrNone
            BY DEF Origins, Tags, SourceOrNone
          <6>4. findings'[f].origin = origin
            BY <6>1, <6>2, <6>3, MarkedRows
          <6> QED
            BY <6>3, <6>4
        <5> QED
          BY <5>1
      <4> QED
        BY <3>1, <3>3, <4>1 DEF MarkWithdrawnSupport, MarkPurgedSupport
    <3>4. ASSUME NEW r \in Messages, RefuseReaction(r) PROVE <<standing[s], s>> \in reactions'
      BY <3>1, <3>4 DEF RefuseReaction
    <3>5. ASSUME NEW r \in Messages, NEW n \in 1 .. moves[r], MarkReassignedScope(r, n)
          PROVE  <<standing[s], s>> \in reactions'
      BY <3>1, <3>5 DEF MarkReassignedScope
    <3>6. ASSUME NEW g \in Findings, NEW n \in 1 .. findings[g].revision,
                 MarkStaleDependents(g, n) \/ RevalidateDependents(g, n)
          PROVE  <<standing[s], s>> \in reactions'
      BY <3>1, <3>6 DEF MarkStaleDependents, RevalidateDependents
    <3> QED
      BY <3>1, <3>3, <3>4, <3>5, <3>6
         DEF MemoryNext, memoryVars, PrepareChangeSet, Publish, FailChangeSet, CorrectFinding,
             WithdrawSource, DeleteSource, ReassignSource
  <2> QED
    BY <2>1, <2>2
<1> QED
  BY <1>1, <1>2, <1>3

(* A finding published on one witness is not left known once the reaction to  *)
(* the withdrawal or the purge of that witness has run, whatever plans were   *)
(* waiting (withdrawal.ts, marking).                                          *)
THEOREM LoneWitnessAlwaysCounts == MemorySpec => []LoneWitnessCounts
<1>1. MemoryInit => ReactionIsPending
  BY DEF MemoryInit, ReactionIsPending, Active
<1>2. MemoryTypeOK /\ ReactionIsPending => LoneWitnessCounts
  BY DEF MemoryTypeOK, ReactionIsPending, LoneWitnessCounts, Active
<1> QED
  BY <1>1, <1>2, ReactionIsPendingStep, MemoryTypeCorrect, PTL DEF MemorySpec

-----------------------------------------------------------------------------
(* The graph of the derivations.  A path is a function on 1 .. Card with as   *)
(* many places as there are findings, so that what is reachable at all is     *)
(* reachable by one.                                                          *)

Card == Cardinality(Findings)

LEMMA CardFacts == Card \in Nat \ {0}
<1>1. Card \in Nat /\ (Card = 0 <=> Findings = {})
  BY FindingsAssumption, FS_CardinalityType, FS_EmptySet DEF Card
<1> QED
  BY <1>1, PlanAssumption

LEMMA LeastNumber ==
  ASSUME NEW S \in SUBSET Nat, S # {}
  PROVE  \E m \in S : \A n \in S : m <= n
<1> DEFINE R == OpToRel(<, Nat)
<1>1. IsWellFoundedOn(R, Nat)
  BY NatLessThanWellFounded
<1>2. \A i, j \in Nat : i < j => <<i, j>> \in R
  BY DEF OpToRel
<1> HIDE DEF R
<1>3. PICK m \in S : \A n \in S : ~ (<<n, m>> \in R)
  BY <1>1, WFMin
<1>4. \A n \in S : n \in Nat /\ m \in Nat /\ ~(n < m)
  BY <1>2, <1>3
<1> QED
  BY <1>3, <1>4

Paths == [1 .. Card -> Findings]

\* The first n places of path lead from f to g along the edges of E.
Leads(E, path, f, g, n) ==
  /\ path[1] = f
  /\ path[n] = g
  /\ \A m \in 1 .. n - 1 : <<path[m], path[m + 1]>> \in E

LEMMA ReachesByPath ==
  ASSUME NEW E, NEW f, NEW g
  PROVE  Reaches(E, f, g) <=> \E path \in Paths, n \in 1 .. Card : Leads(E, path, f, g, n)
<1>1. \A path \in Paths : DOMAIN path = 1 .. Card
  BY DEF Paths
<1> QED
  BY <1>1 DEF Reaches, Leads, Paths, Card

Closed(E, S) == \A x, y \in Findings : <<x, y>> \in E /\ x \in S => y \in S

(* A path never leaves a closed set it starts in.                             *)
LEMMA ClosedKeepsPath ==
  ASSUME NEW E, NEW S \in SUBSET Findings, NEW f \in S, NEW g, Closed(E, S), Reaches(E, f, g)
  PROVE  g \in S
<1>1. PICK path \in Paths, n \in 1 .. Card : Leads(E, path, f, g, n)
  BY ReachesByPath
<1> DEFINE out == {m \in 1 .. n : path[m] \notin S}
<1>2. SUFFICES ASSUME g \notin S PROVE FALSE
  OBVIOUS
<1>3. n \in Nat /\ n >= 1 /\ Card \in Nat /\ n <= Card
  BY CardFacts
<1>4. n \in out
  BY <1>1, <1>2, <1>3 DEF Leads
<1>5. PICK m \in out : \A k \in out : m <= k
  <2>1. out \in SUBSET Nat /\ out # {}
    BY <1>3, <1>4
  <2> HIDE DEF out
  <2> QED
    BY <2>1, LeastNumber
<1>6. m # 1
  BY <1>1, <1>5 DEF Leads
<1>7. m - 1 \in 1 .. n - 1 /\ m - 1 \in 1 .. n /\ (m - 1) + 1 = m /\ ~(m <= m - 1)
  BY <1>3, <1>5, <1>6
<1>8. m - 1 \notin out
  BY <1>5, <1>7
<1>9. path[m - 1] \in S /\ <<path[m - 1], path[m]>> \in E
  <2>1. <<path[m - 1], path[(m - 1) + 1]>> \in E
    BY <1>1, <1>7 DEF Leads
  <2> QED
    BY <1>7, <1>8, <2>1
<1>10. path[m] \in Findings /\ path[m - 1] \in Findings
  BY <1>3, <1>5, <1>7 DEF Paths
<1> QED
  BY <1>5, <1>9, <1>10 DEF Closed

(* Cutting the detour between two visits of the same finding.                 *)
LEMMA ShorterPath ==
  ASSUME NEW E, NEW path \in Paths, NEW f, NEW x, Leads(E, path, f, x, Card),
         NEW i \in 1 .. Card, NEW j \in 1 .. Card, i < j, path[i] = path[j]
  PROVE  \E short \in Paths, n \in 1 .. Card : n < Card /\ Leads(E, short, f, x, n)
<1> DEFINE d == j - i
           short == [m \in 1 .. Card |-> IF m <= i THEN path[m]
                                         ELSE IF m + d <= Card THEN path[m + d] ELSE path[m]]
           n == Card - d
<1>1. /\ Card \in Nat /\ d \in Nat /\ d >= 1 /\ n \in 1 .. Card /\ n < Card /\ i <= n
      /\ i \in Nat /\ j \in Nat /\ i + d = j /\ n + d = Card /\ i >= 1
  BY CardFacts
<1> HIDE DEF d, n
<1>2. short \in Paths
  BY <1>1 DEF Paths
<1>3. /\ \A m \in 1 .. i : short[m] = path[m]
      /\ \A m \in 1 .. n : m > i => short[m] = path[m + d]
  BY <1>1
<1> HIDE DEF short
<1>4. short[1] = f
  BY <1>1, <1>3 DEF Leads
<1>5. short[n] = x
  <2>1. CASE n = i
    BY <1>1, <1>3, <2>1 DEF Leads
  <2>2. CASE n > i
    BY <1>1, <1>3, <2>2 DEF Leads
  <2> QED
    BY <1>1, <2>1, <2>2
<1>6. ASSUME NEW m \in 1 .. n - 1
      PROVE  <<short[m], short[m + 1]>> \in E
  <2>1. CASE m < i
    <3>1. m \in 1 .. i /\ m + 1 \in 1 .. i /\ m \in 1 .. Card - 1
      BY <1>1, <2>1
    <3> QED
      BY <1>3, <3>1 DEF Leads
  <2>2. CASE m >= i
    <3>1. /\ m + d \in 1 .. Card - 1 /\ (m + d) + 1 = (m + 1) + d
          /\ m + 1 \in 1 .. n /\ m + 1 > i /\ m \in 1 .. n
      BY <1>1, <2>2
    <3>2. short[m] = path[m + d]
      BY <1>1, <1>3, <2>2, <3>1
    <3>3. short[m + 1] = path[(m + d) + 1]
      BY <1>3, <3>1
    <3> QED
      BY <3>1, <3>2, <3>3 DEF Leads
  <2> QED
    BY <1>1, <2>1, <2>2
<1> QED
  BY <1>1, <1>2, <1>4, <1>5, <1>6 DEF Leads

LEMMA ReachesOneFurther ==
  ASSUME NEW E, NEW f \in Findings, NEW x \in Findings, NEW y \in Findings,
         Reaches(E, f, x), <<x, y>> \in E
  PROVE  Reaches(E, f, y)
<1> DEFINE lengths == {n \in 1 .. Card : \E path \in Paths : Leads(E, path, f, x, n)}
<1>1. PICK n \in lengths : \A k \in lengths : n <= k
  <2>1. lengths \in SUBSET Nat /\ lengths # {}
    BY ReachesByPath
  <2> HIDE DEF lengths
  <2> QED
    BY <2>1, LeastNumber
<1>2. n \in 1 .. Card /\ Card \in Nat
  BY <1>1, CardFacts
<1>3. PICK path \in Paths : Leads(E, path, f, x, n)
  BY <1>1
<1>4. CASE n < Card
  <2> DEFINE longer == [path EXCEPT ![n + 1] = y]
  <2>1. n + 1 \in 1 .. Card /\ n + 1 # 1 /\ \A m \in 1 .. n : m # n + 1 /\ m \in 1 .. Card
    BY <1>2, <1>4
  <2>2. longer \in Paths
    BY <2>1 DEF Paths
  <2>3. longer[n + 1] = y /\ \A m \in 1 .. n : longer[m] = path[m]
    BY <2>1 DEF Paths
  <2> HIDE DEF longer
  <2>4. ASSUME NEW m \in 1 .. (n + 1) - 1
        PROVE  <<longer[m], longer[m + 1]>> \in E
    <3>1. CASE m = n
      BY <1>2, <1>3, <2>3, <3>1 DEF Leads
    <3>2. CASE m # n
      <4>1. m \in 1 .. n - 1 /\ m \in 1 .. n /\ m + 1 \in 1 .. n
        BY <1>2, <3>2
      <4> QED
        BY <1>3, <2>3, <4>1 DEF Leads
    <3> QED
      BY <3>1, <3>2
  <2>5. longer[1] = f
    BY <1>2, <1>3, <2>3 DEF Leads
  <2>6. Leads(E, longer, f, y, n + 1)
    BY <2>3, <2>4, <2>5 DEF Leads
  <2> QED
    BY <2>1, <2>2, <2>6, ReachesByPath
<1>5. CASE n = Card
  <2>1. ASSUME NEW i \in 1 .. Card, NEW j \in 1 .. Card, i < j, path[i] = path[j]
        PROVE  FALSE
    <3>1. PICK short \in Paths, k \in 1 .. Card : k < Card /\ Leads(E, short, f, x, k)
      BY <1>3, <1>5, <2>1, ShorterPath
    <3>2. k \in lengths
      BY <3>1
    <3>3. n <= k
      BY <1>1, <3>2
    <3> QED
      BY <1>2, <1>5, <3>1, <3>3
  <2>2. \A i, j \in 1 .. Card : path[i] = path[j] => i = j
    <3>1. \A i, j \in 1 .. Card : i < j \/ j < i \/ i = j
      BY <1>2
    <3> QED
      BY <2>1, <3>1
  <2>3. path \in Injection(1 .. Card, Findings)
    BY <2>2 DEF Injection, IsInjective, Paths
  <2>4. Cardinality(1 .. Card) = Cardinality(Findings)
    <3>1. Cardinality(1 .. Card) = Card
      BY <1>2, FS_Interval, CardFacts
    <3> QED
      BY <3>1 DEF Card
  <2>5. path \in Surjection(1 .. Card, Findings)
    BY <2>3, <2>4, FindingsAssumption, FS_Injection
  <2>6. PICK k \in 1 .. Card : path[k] = y
    BY <2>5 DEF Surjection
  <2>7. Leads(E, path, f, y, k)
    <3>1. \A m \in 1 .. k - 1 : m \in 1 .. Card - 1
      BY <1>2
    <3> QED
      BY <1>3, <1>5, <2>6, <3>1 DEF Leads
  <2> QED
    BY <2>7, ReachesByPath
<1> QED
  BY <1>2, <1>4, <1>5

(* What a finding reaches is the least closed set it is in.                   *)
Reach(E, f) == {x \in Findings : Reaches(E, f, x)}

LEMMA ReachIsClosed ==
  ASSUME NEW E, NEW f \in Findings
  PROVE  f \in Reach(E, f) /\ Closed(E, Reach(E, f))
<1>1. Reaches(E, f, f)
  <2> DEFINE path == [m \in 1 .. Card |-> f]
  <2>1. 1 \in 1 .. Card /\ path \in Paths
    BY CardFacts DEF Paths
  <2>2. Leads(E, path, f, f, 1)
    BY <2>1 DEF Leads
  <2> QED
    BY <2>1, <2>2, ReachesByPath
<1>2. Closed(E, Reach(E, f))
  BY ReachesOneFurther DEF Closed, Reach
<1> QED
  BY <1>1, <1>2 DEF Reach

(* A finding that none of its new bases reaches closes no cycle.              *)
LEMMA NoCycleWithNewBases ==
  ASSUME NEW E \in SUBSET (Findings \X Findings), NEW f \in Findings,
         NEW bases \in SUBSET Findings, ~WouldCreateCycle(E, f, bases),
         \A e \in E : ~Reaches(E, e[2], e[1])
  PROVE  \A e \in E \union ({f} \X bases) : ~Reaches(E \union ({f} \X bases), e[2], e[1])
<1> DEFINE E2 == E \union ({f} \X bases)
           T == UNION {Reach(E, b) : b \in bases}
<1>1. T \in SUBSET Findings /\ f \notin T
  BY DEF Reach, WouldCreateCycle
<1>2. Closed(E, T) /\ bases \subseteq T
  <2>1. \A b \in bases : b \in Reach(E, b) /\ Closed(E, Reach(E, b))
    BY ReachIsClosed
  <2> QED
    BY <2>1 DEF Closed
<1> HIDE DEF T
<1>3. \A x, y : <<x, y>> \in E2 => <<x, y>> \in E \/ (x = f /\ y \in bases)
  OBVIOUS
<1>4. Closed(E2, T)
  BY <1>1, <1>2, <1>3 DEF Closed
<1>5. ASSUME NEW b \in bases
      PROVE  ~Reaches(E2, b, f)
  <2>1. b \in T
    BY <1>2
  <2> HIDE DEF E2
  <2> QED
    BY <1>1, <1>4, <2>1, ClosedKeepsPath
<1>6. ASSUME NEW d \in Findings, NEW c \in Findings, <<d, c>> \in E
      PROVE  ~Reaches(E2, c, d)
  <2> DEFINE S == Reach(E, c)
  <2>1. c \in S /\ Closed(E, S) /\ S \in SUBSET Findings
    BY ReachIsClosed DEF Reach
  <2>2. d \notin S
    <3>1. <<d, c>>[1] = d /\ <<d, c>>[2] = c
      OBVIOUS
    <3> QED
      BY <1>6, <3>1 DEF Reach
  <2> HIDE DEF S
  <2>3. CASE f \notin S
    <3>1. Closed(E2, S)
      BY <1>3, <2>1, <2>3 DEF Closed
    <3> HIDE DEF E2
    <3> QED
      BY <2>1, <2>2, <3>1, ClosedKeepsPath
  <2>4. CASE f \in S
    <3>1. Reaches(E, c, f)
      BY <2>4 DEF S, Reach
    <3>2. d \notin T
      <4>1. ASSUME d \in T PROVE FALSE
        <5>1. c \in T
          BY <1>2, <1>6, <4>1 DEF Closed
        <5>2. f \in T
          BY <1>1, <1>2, <3>1, <5>1, ClosedKeepsPath
        <5> QED
          BY <1>1, <5>2
      <4> QED
        BY <4>1
    <3>3. Closed(E2, S \union T)
      BY <1>2, <1>3, <2>1 DEF Closed
    <3>4. c \in S \union T /\ d \notin S \union T /\ S \union T \in SUBSET Findings
      BY <1>1, <2>1, <2>2, <3>2
    <3> HIDE DEF E2
    <3> QED
      BY <3>3, <3>4, ClosedKeepsPath
  <2> QED
    BY <2>3, <2>4
<1>7. ASSUME NEW e \in E2
      PROVE  ~Reaches(E2, e[2], e[1])
  <2>1. CASE e \in E
    <3>1. PICK d \in Findings, c \in Findings : e = <<d, c>>
      BY <2>1
    <3>2. e[1] = d /\ e[2] = c
      BY <3>1
    <3> HIDE DEF E2
    <3> QED
      BY <1>6, <2>1, <3>1, <3>2
  <2>2. CASE e \in {f} \X bases
    <3>1. e[1] = f /\ e[2] \in bases
      BY <2>2
    <3> HIDE DEF E2
    <3> QED
      BY <1>5, <3>1
  <2> QED
    BY <2>1, <2>2
<1> QED
  BY <1>7

LEMMA DerivationsStep ==
  MemoryTypeOK /\ DerivationsAcyclic /\ [MemoryNext]_memoryVars => DerivationsAcyclic'
<1> SUFFICES ASSUME MemoryTypeOK, DerivationsAcyclic, [MemoryNext]_memoryVars
             PROVE  DerivationsAcyclic'
  OBVIOUS
<1>1. CASE edges' = edges
  BY <1>1 DEF DerivationsAcyclic, Reaches
<1>2. ASSUME NEW p \in Plans, Publish(p)
      PROVE  DerivationsAcyclic'
  <2> DEFINE f == plans[p].finding
             bases == plans[p].derivesFrom
  <2>1. f \in Findings /\ bases \in SUBSET Findings /\ edges \in SUBSET (Findings \X Findings)
    BY DEF MemoryTypeOK, PlanRows
  <2>2. ~WouldCreateCycle(edges, f, bases) /\ edges' = edges \union ({f} \X bases)
    BY <1>2 DEF Publish, MayPublish, StaysAcyclic
  <2>3. \A e \in edges : ~Reaches(edges, e[2], e[1])
    BY DEF DerivationsAcyclic
  <2> HIDE DEF f, bases
  <2>4. \A e \in edges \union ({f} \X bases) :
          ~Reaches(edges \union ({f} \X bases), e[2], e[1])
    BY <2>1, <2>2, <2>3, NoCycleWithNewBases
  <2>5. \A e \in edges' : ~Reaches(edges', e[2], e[1])
    BY <2>2, <2>4
  <2> QED
    BY <2>5 DEF DerivationsAcyclic, Reaches
<1> QED
  BY <1>1, <1>2
     DEF MemoryNext, memoryVars, PrepareChangeSet, FailChangeSet, CorrectFinding,
         WithdrawSource, DeleteSource, ReassignSource, MarkWithdrawnSupport, MarkPurgedSupport,
         MarkReassignedScope, RefuseReaction, MarkStaleDependents, RevalidateDependents

(* However many plans were checked against a graph that others have extended  *)
(* since, the derivations published never form a cycle: what the bases of a   *)
(* plan reach at its publication is closed, so the new edges lead into it and *)
(* never back (publish.ts).                                                   *)
THEOREM DerivationsAreAcyclic == MemorySpec => []DerivationsAcyclic
<1>1. MemoryInit => DerivationsAcyclic
  BY DEF MemoryInit, DerivationsAcyclic
<1> QED
  BY <1>1, DerivationsStep, MemoryTypeCorrect, PTL DEF MemorySpec
=============================================================================
