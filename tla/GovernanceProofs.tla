-------------------------- MODULE GovernanceProofs --------------------------
(***************************************************************************)
(* Theorems about Governance, for every registry, policy, staff and number *)
(* of subjects and proposals.                                              *)
(***************************************************************************)
EXTENDS Governance, FiniteSetTheorems, TLAPS

-----------------------------------------------------------------------------
(* The registry under the ledger.                                          *)

\* What the view's operators return has the type their uses ask for.
LEMMA ViewOperators ==
    ASSUME NEW bs \in SUBSET Bundles
    PROVE  /\ BundleDevices(bs) \subseteq Devices
           /\ \A r \in Regions : Supporting(bs, r) \subseteq Bundles
           /\ \A b \in Bundles : File[b].declarations \subseteq Declarations
<1>1. \A b \in Bundles : File[b] \in BundleFiles
  BY EvidenceAssumption
<1>2. \A b \in Bundles : /\ File[b].device \in Devices \cup {NoDevice}
                         /\ File[b].declarations \subseteq Declarations
  BY <1>1 DEF BundleFiles
<1> QED
  BY <1>2 DEF BundleDevices, Supporting

\* A registry command keeps the view well typed.
LEMMA ViewTypeStep ==
    ASSUME ViewTypeOK, ViewNext
    PROVE  ViewTypeOK'
<1>1. CASE \E new \in SUBSET Bundles : AddEvidence(new)
  <2> PICK new \in SUBSET Bundles : AddEvidence(new)
    BY <1>1
  <2>1. UNION {File[b].declarations : b \in new} \subseteq Declarations
    BY ViewOperators
  <2> QED
    BY <2>1 DEF AddEvidence, ViewTypeOK
<1>2. CASE \E b \in Bundles : RemoveEvidence(b)
  BY <1>2 DEF RemoveEvidence, ViewTypeOK
<1>3. CASE \E r \in Regions : ProposeRegion(r)
  <2> PICK r \in Regions : ProposeRegion(r)
    BY <1>3
  <2>1. Supporting(bundles, r) \in SUBSET Bundles
    BY ViewOperators DEF ViewTypeOK
  <2>2. [region |-> r, bundles |-> Supporting(bundles, r)] \in CandidateRecords
    BY <2>1 DEF CandidateRecords
  <2> QED
    BY <2>2 DEF ProposeRegion, ViewTypeOK
<1> QED
  BY <1>1, <1>2, <1>3 DEF ViewNext

-----------------------------------------------------------------------------
(* Type correctness.                                                       *)

LEMMA TypeInit == Init => TypeOK
BY FS_EmptySet DEF Init, ViewInit, TypeOK, ViewTypeOK, NoProposal, ProposalRecords,
       ProposalStatuses

LEMMA TypeStep == TypeOK /\ [Next]_vars => TypeOK'
<1> SUFFICES ASSUME TypeOK, [Next]_vars PROVE TypeOK'
  OBVIOUS
<1>1. ASSUME NEW s \in ReviewSubjects, NEW h \in Reviewers, NEW t \in ReviewTypes,
             NEW d \in Decisions, CreateReview(s, h, t, d)
      PROVE  TypeOK'
  <2>1. [subject |-> s, reviewer |-> h, type |-> t, decision |-> d] \in ReviewRecords
    BY DEF ReviewRecords
  <2>2. Event("review", s, h) \in AuditEvents
    BY DEF Event, AuditEvents, EventTypes
  <2> QED
    BY <1>1, <2>1, <2>2 DEF CreateReview, TypeOK, ViewTypeOK, viewVars
<1>2. ASSUME NEW p \in Proposals, NEW h \in Reviewers, CreateProposal(p, h)
      PROVE  TypeOK'
  <2>1. BundleDevices(bundles) \in SUBSET Devices
    BY ViewOperators DEF TypeOK, ViewTypeOK
  <2>2. UNION {c.bundles : c \in candidates} \in SUBSET Bundles
    BY DEF TypeOK, ViewTypeOK, CandidateRecords
  <2>3. {c.region : c \in candidates} \in SUBSET Regions
    BY DEF TypeOK, ViewTypeOK, CandidateRecords
  <2>4. proposals'[p] \in ProposalRecords
    BY <1>2, <2>1, <2>2, <2>3 DEF CreateProposal, TypeOK, ProposalRecords, ProposalStatuses
  <2>5. Event("proposal", p, h) \in AuditEvents
    BY DEF Event, AuditEvents, EventTypes, ReviewSubjects
  <2> QED
    BY <1>2, <2>4, <2>5 DEF CreateProposal, TypeOK, ViewTypeOK, viewVars
<1>3. ASSUME NEW p \in Proposals, NEW h \in Reviewers, NEW d \in Decisions,
             ReviewProposal(p, h, d)
      PROVE  TypeOK'
  <2>1. [subject |-> p, reviewer |-> h, type |-> "proposal", decision |-> d]
            \in ReviewRecords
    BY DEF ReviewRecords, ReviewSubjects, ReviewTypes
  <2>2. Event("review", p, h) \in AuditEvents /\ Event("proposal", p, h) \in AuditEvents
    BY DEF Event, AuditEvents, EventTypes, ReviewSubjects
  <2>3. proposals'[p] \in ProposalRecords
    BY <1>3 DEF ReviewProposal, TypeOK, ProposalRecords, ProposalStatuses,
                StatusAfterReview
  <2> QED
    BY <1>3, <2>1, <2>2, <2>3 DEF ReviewProposal, TypeOK, ViewTypeOK, viewVars
<1>4. ASSUME NEW p \in Proposals, NEW h \in Reviewers, ApproveProposal(p, h)
      PROVE  TypeOK'
  <2>1. Event("approval", p, h) \in AuditEvents
    BY DEF Event, AuditEvents, EventTypes, ReviewSubjects
  <2>2. proposals'[p] \in ProposalRecords
    BY <1>4 DEF ApproveProposal, TypeOK, ProposalRecords, ProposalStatuses
  <2> QED
    BY <1>4, <2>1, <2>2 DEF ApproveProposal, TypeOK, ViewTypeOK, viewVars
<1>5. ASSUME NEW p \in Proposals, BuildPublication(p)
      PROVE  TypeOK'
  <2> DEFINE cited == {r \in reviews : r.subject = p \/ Supports(p, r.subject)}
             built == [proposal |-> p,
                       build |-> Cardinality(publications) + 1,
                       reviews |-> cited,
                       bundles |-> proposals[p].bundles,
                       devices |-> proposals[p].devices,
                       reviewer_ids |-> proposals[p].reviewer_ids,
                       thresholds |-> proposals[p].thresholds]
  <2>1. Cardinality(publications) + 1 \in Nat
    BY FS_CardinalityType DEF TypeOK
  <2>2. proposals[p] \in ProposalRecords /\ cited \in SUBSET ReviewRecords
    BY DEF TypeOK
  <2>3. built \in PublicationRecords
    BY <2>1, <2>2 DEF PublicationRecords, ProposalRecords
  <2>4. publications' = publications \cup {built}
    BY <1>5 DEF BuildPublication, WithPublication
  <2>5. IsFiniteSet(publications')
    BY <2>4, FS_AddElement DEF TypeOK
  <2>6. proposals'[p] \in ProposalRecords
    BY <1>5, <2>2 DEF BuildPublication, TypeOK, ProposalRecords, ProposalStatuses
  <2>7. Event("publication", p, Builder) \in AuditEvents
    BY DEF Event, AuditEvents, EventTypes, ReviewSubjects
  <2> HIDE DEF built
  <2> QED
    BY <1>5, <2>3, <2>4, <2>5, <2>6, <2>7
       DEF BuildPublication, TypeOK, ViewTypeOK, viewVars
<1>6. ASSUME NEW s \in Subjects, NEW to \in Stages, NEW a \in Actors,
             ApplyTransition(s, to, a)
      PROVE  TypeOK'
  <2>1. Event("lifecycle-transition", s, a) \in AuditEvents
    BY DEF Event, AuditEvents, EventTypes, ReviewSubjects
  <2> QED
    BY <1>6, <2>1 DEF ApplyTransition, TypeOK, ViewTypeOK, viewVars
<1>7. ASSUME RegistryChange PROVE TypeOK'
  BY <1>7, ViewTypeStep DEF RegistryChange, ledgerVars, TypeOK
<1>8. CASE UNCHANGED vars
  BY <1>8 DEF vars, viewVars, ledgerVars, TypeOK, ViewTypeOK
<1> QED
  BY <1>1, <1>2, <1>3, <1>4, <1>5, <1>6, <1>7, <1>8 DEF Next
\* Every reachable state is well typed.
THEOREM TypeCorrect == Spec => []TypeOK
BY TypeInit, TypeStep, PTL DEF Spec

-----------------------------------------------------------------------------
(* History: what a step may never undo.                                    *)

\* One step only adds reviews, publications and audit events, and leaves the
\* substance of an existing proposal alone.
LEMMA HistoryStep ==
    ASSUME TypeOK, [Next]_vars
    PROVE  /\ reviews \subseteq reviews'
           /\ publications \subseteq publications'
           /\ audit_events \subseteq audit_events'
           /\ \A p \in Proposals : Exists(p) => Exists(p)' /\ Frozen(p)' = Frozen(p)
<1> DEFINE Kept == /\ reviews \subseteq reviews'
                   /\ publications \subseteq publications'
                   /\ audit_events \subseteq audit_events'
                   /\ \A p \in Proposals :
                        Exists(p) => Exists(p)' /\ Frozen(p)' = Frozen(p)
<1> USE DEF Exists, Frozen
<1>1. \A p \in Proposals : proposals[p] \in ProposalRecords
  BY DEF TypeOK
<1>2. ASSUME NEW s \in ReviewSubjects, NEW h \in Reviewers, NEW t \in ReviewTypes,
             NEW d \in Decisions, CreateReview(s, h, t, d)
      PROVE  Kept
  BY <1>2 DEF CreateReview
<1>3. ASSUME NEW p \in Proposals, NEW h \in Reviewers, CreateProposal(p, h)
      PROVE  Kept
  BY <1>3 DEF CreateProposal, TypeOK
<1>4. ASSUME NEW p \in Proposals, NEW h \in Reviewers, NEW d \in Decisions,
             ReviewProposal(p, h, d)
      PROVE  Kept
  <2>1. /\ \A q \in Proposals \ {p} : proposals'[q] = proposals[q]
        /\ proposals'[p].status = "under-review"
        /\ Frozen(p)' = Frozen(p)
    BY <1>1, <1>4 DEF ReviewProposal, TypeOK, ProposalRecords, StatusAfterReview
  <2> QED
    BY <2>1, <1>4 DEF ReviewProposal
<1>5. ASSUME NEW p \in Proposals, NEW h \in Reviewers, ApproveProposal(p, h)
      PROVE  Kept
  <2>1. /\ \A q \in Proposals \ {p} : proposals'[q] = proposals[q]
        /\ proposals'[p].status = "approved"
        /\ Frozen(p)' = Frozen(p)
    BY <1>1, <1>5 DEF ApproveProposal, TypeOK, ProposalRecords
  <2> QED
    BY <2>1, <1>5 DEF ApproveProposal
<1>6. ASSUME NEW p \in Proposals, BuildPublication(p)
      PROVE  Kept
  <2>1. /\ \A q \in Proposals \ {p} : proposals'[q] = proposals[q]
        /\ proposals'[p].status = "published"
        /\ Frozen(p)' = Frozen(p)
    BY <1>1, <1>6 DEF BuildPublication, TypeOK, ProposalRecords
  <2>2. publications \subseteq publications'
    BY <1>6 DEF BuildPublication, WithPublication
  <2> QED
    BY <2>1, <2>2, <1>6 DEF BuildPublication
<1>7. ASSUME NEW s \in Subjects, NEW to \in Stages, NEW a \in Actors,
             ApplyTransition(s, to, a)
      PROVE  Kept
  BY <1>7 DEF ApplyTransition
<1>8. CASE RegistryChange \/ UNCHANGED vars
  BY <1>8 DEF RegistryChange, vars, ledgerVars
<1> QED
  BY <1>2, <1>3, <1>4, <1>5, <1>6, <1>7, <1>8 DEF Next

\* The ledger is append-only and a proposal keeps what it was drafted on.
THEOREM LedgerIsAppendOnly == Spec => HistoryOnlyGrows
<1>1. TypeOK /\ [Next]_vars =>
        [/\ reviews \subseteq reviews'
         /\ publications \subseteq publications'
         /\ audit_events \subseteq audit_events'
         /\ \A p \in Proposals : Exists(p) =>
                /\ Exists(p)'
                /\ Frozen(p)' = Frozen(p)]_vars
  BY HistoryStep
<1> QED
  BY <1>1, TypeCorrect, PTL DEF Spec, HistoryOnlyGrows

-----------------------------------------------------------------------------
(* The lifecycle of a subject.                                             *)

LEMMA StageNames ==
    /\ Stages = {"observed", "sanitized", "imported", "reviewed",
                 "correlated", "candidate", "approved", "published"}
    /\ NoStage \notin Stages
<1>1. 1..8 = {1, 2, 3, 4, 5, 6, 7, 8}
  OBVIOUS
<1>2. Stages = {STAGE_ORDER[1], STAGE_ORDER[2], STAGE_ORDER[3], STAGE_ORDER[4],
                STAGE_ORDER[5], STAGE_ORDER[6], STAGE_ORDER[7], STAGE_ORDER[8]}
  BY <1>1 DEF Stages
<1> QED
  BY <1>2 DEF STAGE_ORDER, NoStage

\* A move into a late stage comes from a stage at most one before it.
LEMMA MovesStepByStep ==
    ASSUME NEW from \in Stages \cup {NoStage}, NEW to \in Stages, AllowedMove(from, to)
    PROVE  /\ StageIndex[to] >= 4 => to \in {"reviewed", "correlated", "candidate",
                                             "approved", "published"}
           /\ StageIndex[to] >= 6 => to \in {"candidate", "approved", "published"}
           /\ StageIndex[to] >= 7 => to \in {"approved", "published"}
           /\ to = "correlated" => StageIndex[from] >= 4
           /\ to = "approved" => StageIndex[from] >= 6
           /\ to = "published" => StageIndex[from] >= 7
BY StageNames DEF AllowedMove, StageIndex, NoStage

LEMMA StageNumbers ==
    /\ StageIndex["reviewed"] = 4
    /\ StageIndex["candidate"] = 6
    /\ StageIndex["approved"] = 7
    /\ StageIndex[NoStage] = 0
BY StageNames DEF StageIndex, NoStage

\* An approving review, once there, stays there.
LEMMA ApprovalsStay ==
    ASSUME TypeOK, [Next]_vars
    PROVE  /\ \A s \in ReviewSubjects : Approvals(s) \subseteq Approvals(s)'
           /\ \A p \in Proposals : ProposalApprovals(p) \subseteq ProposalApprovals(p)'
           /\ \A p \in Proposals : ApprovalRecorded(p) => ApprovalRecorded(p)'
<1>1. reviews \subseteq reviews' /\ audit_events \subseteq audit_events'
  BY HistoryStep
<1>2. \A s \in ReviewSubjects : Approvals(s) \subseteq Approvals(s)'
  BY <1>1 DEF Approvals, ReviewsOf
<1>3. \A p \in Proposals : ProposalApprovals(p) \subseteq ProposalApprovals(p)'
  BY <1>2 DEF ProposalApprovals, ReviewSubjects
<1>4. \A p \in Proposals : ApprovalRecorded(p) => ApprovalRecorded(p)'
  BY <1>1, <1>3 DEF ApprovalRecorded
<1> QED
  BY <1>2, <1>3, <1>4

\* The lifecycle changes by transitions only.
LEMMA LifecycleStep ==
    ASSUME [Next]_vars
    PROVE  \/ lifecycle' = lifecycle
           \/ \E s \in Subjects, to \in Stages, a \in Actors : ApplyTransition(s, to, a)
BY DEF Next, CreateReview, CreateProposal, ReviewProposal, ApproveProposal,
       BuildPublication, RegistryChange, ledgerVars, vars

LEMMA ReviewedStep ==
    ASSUME TypeOK, PromotedSubjectsWereReviewed, [Next]_vars
    PROVE  PromotedSubjectsWereReviewed'
<1>1. \A s \in Subjects : Approvals(s) # {} => Approvals(s)' # {}
  BY ApprovalsStay DEF ReviewSubjects
<1>2. CASE lifecycle' = lifecycle
  BY <1>1, <1>2 DEF PromotedSubjectsWereReviewed, Reached
<1>3. ASSUME NEW s \in Subjects, NEW to \in Stages, NEW a \in Actors,
             ApplyTransition(s, to, a)
      PROVE  PromotedSubjectsWereReviewed'
  <2>1. /\ lifecycle[s] \in Stages \cup {NoStage}
        /\ AllowedMove(lifecycle[s], to)
        /\ lifecycle'[s] = to
        /\ \A x \in Subjects \ {s} : lifecycle'[x] = lifecycle[x]
    BY <1>3 DEF ApplyTransition, TypeOK
  <2>2. ASSUME StageIndex[to] >= 4
        PROVE  Approvals(s) # {}
    <3>1. to \in {"reviewed", "candidate"} => Approvals(s) # {}
      BY <1>3 DEF ApplyTransition, StageEvidence
    <3>2. to \notin {"reviewed", "candidate"} => StageIndex[lifecycle[s]] >= 4
      <4>1. to \notin {"reviewed", "candidate"} =>
                to \in {"correlated", "approved", "published"}
        BY <2>1, <2>2, MovesStepByStep
      <4>2. StageIndex[lifecycle[s]] \in 0..8
        BY <2>1, StageNames DEF StageIndex, NoStage
      <4> QED
        BY <2>1, <4>1, <4>2, MovesStepByStep
    <3> QED
      BY <3>1, <3>2, StageNumbers DEF PromotedSubjectsWereReviewed, Reached
  <2> QED
    BY <1>1, <2>1, <2>2, StageNumbers DEF PromotedSubjectsWereReviewed, Reached
<1> QED
  BY <1>2, <1>3, LifecycleStep

LEMMA PersonStep ==
    ASSUME TypeOK, PromotionTookAPerson, [Next]_vars
    PROVE  PromotionTookAPerson'
<1> DEFINE Person(s) == \E h \in People :
                            Event("lifecycle-transition", s, h) \in audit_events
<1>1. \A s \in Subjects : Person(s) => Person(s)'
  BY HistoryStep
<1>2. CASE lifecycle' = lifecycle
  BY <1>1, <1>2 DEF PromotionTookAPerson, Reached
<1>3. ASSUME NEW s \in Subjects, NEW to \in Stages, NEW a \in Actors,
             ApplyTransition(s, to, a)
      PROVE  PromotionTookAPerson'
  <2>1. /\ lifecycle[s] \in Stages \cup {NoStage}
        /\ AllowedMove(lifecycle[s], to)
        /\ lifecycle'[s] = to
        /\ \A x \in Subjects \ {s} : lifecycle'[x] = lifecycle[x]
    BY <1>3 DEF ApplyTransition, TypeOK
  <2>2. ASSUME StageIndex[to] >= 4
        PROVE  Person(s)'
    <3>1. CASE to = "correlated"
      BY <1>1, <2>1, <3>1, MovesStepByStep, StageNumbers DEF PromotionTookAPerson, Reached
    <3>2. CASE to # "correlated"
      <4>1. to \in HUMAN_GATED_STAGES
        BY <2>1, <2>2, <3>2, MovesStepByStep DEF HUMAN_GATED_STAGES
      <4>2. a \in People
        BY <1>3, <4>1 DEF ApplyTransition, HumanGated
      <4>3. Event("lifecycle-transition", s, a) \in audit_events'
        BY <1>3 DEF ApplyTransition
      <4> QED
        BY <4>2, <4>3
    <3> QED
      BY <3>1, <3>2
  <2> QED
    BY <1>1, <2>1, <2>2, StageNumbers DEF PromotionTookAPerson, Reached
<1> QED
  BY <1>2, <1>3, LifecycleStep

-----------------------------------------------------------------------------
(* Thresholds.                                                             *)

\* The inspection thresholds count declarations, so more declarations cannot
\* switch them off, whatever happens to the bundles.
LEMMA MoreDeclarationsKeepThresholds ==
    ASSUME NEW capability \in {"review_enabled", "proposal_enabled"},
           NEW bs, NEW bs2, NEW decls, NEW more, decls \subseteq more,
           Enabled(capability, bs, decls)
    PROVE  Enabled(capability, bs2, more)
<1> DEFINE counted == CountedFor(capability, bs, decls)
           countedMore == CountedFor(capability, bs2, more)
<1>1. Active(decls) \subseteq Active(more)
  BY DEF Active
<1>2. \A statuses : DeclaredWith(decls, statuses) \subseteq DeclaredWith(more, statuses)
  BY <1>1 DEF DeclaredWith
<1>3. counted \subseteq countedMore
  BY <1>2 DEF CountedFor, InspectedDevices, VerifiedDevices
<1>4. countedMore \subseteq Devices
  BY DEF CountedFor, InspectedDevices, VerifiedDevices, DeclaredWith
<1>5. IsFiniteSet(countedMore)
  BY <1>4, EvidenceAssumption, FS_Subset
<1>6. /\ IsFiniteSet(counted)
      /\ Cardinality(counted) <= Cardinality(countedMore)
  BY <1>3, <1>5, FS_Subset
<1>7. Cardinality(counted) \in Nat /\ Cardinality(countedMore) \in Nat
  BY <1>5, <1>6, FS_CardinalityType
<1>8. Policy[capability] \in Nat
  BY EvidenceAssumption DEF CapabilityNames
<1>9. Cardinality(counted) >= Policy[capability]
  BY DEF Enabled
<1> HIDE DEF counted, countedMore
<1>10. Cardinality(countedMore) >= Policy[capability]
  BY <1>6, <1>7, <1>8, <1>9
<1> QED
  BY <1>10 DEF Enabled, countedMore

\* Declarations are only added.
LEMMA DeclarationsStay ==
    ASSUME [Next]_vars
    PROVE  declarations \subseteq declarations'
<1>1. CASE ViewNext
  BY <1>1 DEF ViewNext, AddEvidence, RemoveEvidence, ProposeRegion
<1>2. CASE UNCHANGED viewVars
  BY <1>2 DEF viewVars
<1>3. ViewNext \/ UNCHANGED viewVars
  BY DEF Next, CreateReview, CreateProposal, ReviewProposal, ApproveProposal,
         BuildPublication, ApplyTransition, RegistryChange, vars
<1> QED
  BY <1>1, <1>2, <1>3

-----------------------------------------------------------------------------
(* Proposals and publications.                                             *)

\* How a step changes a proposal, its approvals and its publications.
LEMMA ProposalStep ==
    ASSUME TypeOK, [Next]_vars, NEW p \in Proposals
    PROVE  /\ \/ proposals'[p].status = proposals[p].status
              \/ proposals'[p].status = "under-review" /\ Exists(p)
              \/ proposals'[p].status = "drafted" /\ ~Exists(p)
              \/ /\ proposals'[p].status = "approved"
                 /\ Approvable(p)
                 /\ \E h \in Reviewers : Event("approval", p, h) \in audit_events'
              \/ proposals'[p].status = "published" /\ BuildPublication(p)
           /\ \A h \in Reviewers :
                Event("approval", p, h) \in audit_events' =>
                    Event("approval", p, h) \in audit_events \/ Approvable(p)
           /\ publications' # publications => \E q \in Proposals : BuildPublication(q)
<1> USE DEF Event
<1>1. proposals \in [Proposals -> ProposalRecords]
  BY DEF TypeOK
<1>2. ASSUME NEW s \in ReviewSubjects, NEW h \in Reviewers, NEW t \in ReviewTypes,
             NEW d \in Decisions, CreateReview(s, h, t, d)
      PROVE  /\ proposals' = proposals /\ publications' = publications
             /\ \A g \in Reviewers : Event("approval", p, g) \in audit_events' =>
                                        Event("approval", p, g) \in audit_events
  BY <1>2 DEF CreateReview
<1>3. ASSUME NEW q \in Proposals, NEW h \in Reviewers, CreateProposal(q, h)
      PROVE  /\ publications' = publications
             /\ q # p => proposals'[p] = proposals[p]
             /\ q = p => proposals'[p].status = "drafted" /\ ~Exists(p)
             /\ \A g \in Reviewers : Event("approval", p, g) \in audit_events' =>
                                        Event("approval", p, g) \in audit_events
  BY <1>1, <1>3 DEF CreateProposal
<1>4. ASSUME NEW q \in Proposals, NEW h \in Reviewers, NEW d \in Decisions,
             ReviewProposal(q, h, d)
      PROVE  /\ publications' = publications
             /\ q # p => proposals'[p] = proposals[p]
             /\ q = p => proposals'[p].status = "under-review" /\ Exists(p)
             /\ \A g \in Reviewers : Event("approval", p, g) \in audit_events' =>
                                        Event("approval", p, g) \in audit_events
  BY <1>1, <1>4 DEF ReviewProposal, ProposalRecords, StatusAfterReview
<1>5. ASSUME NEW q \in Proposals, NEW h \in Reviewers, ApproveProposal(q, h)
      PROVE  /\ publications' = publications
             /\ q # p => proposals'[p] = proposals[p]
             /\ q = p => /\ proposals'[p].status = "approved"
                         /\ Approvable(p)
                         /\ Event("approval", p, h) \in audit_events'
             /\ \A g \in Reviewers : Event("approval", p, g) \in audit_events' =>
                                Event("approval", p, g) \in audit_events \/ q = p
  BY <1>1, <1>5 DEF ApproveProposal, ProposalRecords
<1>6. ASSUME NEW q \in Proposals, BuildPublication(q)
      PROVE  /\ q # p => proposals'[p] = proposals[p]
             /\ q = p => proposals'[p].status = "published"
             /\ \A g \in Reviewers : Event("approval", p, g) \in audit_events' =>
                                        Event("approval", p, g) \in audit_events
  BY <1>1, <1>6 DEF BuildPublication, ProposalRecords
<1>7. ASSUME NEW s \in Subjects, NEW to \in Stages, NEW a \in Actors,
             ApplyTransition(s, to, a)
      PROVE  /\ proposals' = proposals /\ publications' = publications
             /\ \A g \in Reviewers : Event("approval", p, g) \in audit_events' =>
                                        Event("approval", p, g) \in audit_events
  BY <1>7 DEF ApplyTransition
<1>8. CASE RegistryChange \/ UNCHANGED vars
  BY <1>8 DEF RegistryChange, vars, ledgerVars
<1> QED
  BY <1>2, <1>3, <1>4, <1>5, <1>6, <1>7, <1>8 DEF Next

LEMMA RecordedStep ==
    ASSUME TypeOK, ApprovedStatusIsRecorded, [Next]_vars
    PROVE  ApprovedStatusIsRecorded'
<1> SUFFICES ASSUME NEW p \in Proposals, proposals'[p].status = "approved"
             PROVE  ApprovalRecorded(p)'
  BY DEF ApprovedStatusIsRecorded
<1>1. CASE proposals[p].status = "approved"
  BY <1>1, ApprovalsStay DEF ApprovedStatusIsRecorded
<1>2. CASE proposals[p].status # "approved"
  <2>1. /\ Approvable(p)
        /\ \E h \in Reviewers : Event("approval", p, h) \in audit_events'
    BY <1>2, ProposalStep
  <2>2. ProposalApprovals(p)' # {}
    BY <2>1, ApprovalsStay DEF Approvable
  <2> QED
    BY <2>1, <2>2 DEF ApprovalRecorded
<1> QED
  BY <1>1, <1>2

LEMMA ApprovalsStep ==
    ASSUME TypeOK, ApprovalsAreOfProposals, [Next]_vars
    PROVE  ApprovalsAreOfProposals'
<1> SUFFICES ASSUME NEW p \in Proposals, NEW h \in Reviewers,
                    (Event("approval", p, h) \in audit_events)'
             PROVE  Exists(p)'
  BY DEF ApprovalsAreOfProposals
<1>1. Event("approval", p, h) \in audit_events \/ Approvable(p)
  BY ProposalStep DEF Event
<1>2. Exists(p)
  BY <1>1 DEF ApprovalsAreOfProposals, Approvable, Exists
<1> QED
  BY <1>2, HistoryStep

\* What a recorded proposal supports, it goes on supporting.
LEMMA SupportStays ==
    ASSUME TypeOK, ApprovalsAreOfProposals, [Next]_vars,
           NEW p \in Proposals, ApprovalRecorded(p)
    PROVE  /\ Exists(p) /\ ApprovalRecorded(p)'
           /\ proposals'[p].devices = proposals[p].devices
           /\ proposals'[p].bundles = proposals[p].bundles
<1>1. Exists(p)
  BY DEF ApprovalsAreOfProposals, ApprovalRecorded
<1>2. Frozen(p)' = Frozen(p)
  BY <1>1, HistoryStep
<1> QED
  BY <1>1, <1>2, ApprovalsStay DEF Frozen

LEMMA ApprovedStep ==
    ASSUME TypeOK, ApprovedStatusIsRecorded, ApprovalsAreOfProposals,
           ApprovedSubjectsWereApproved, [Next]_vars
    PROVE  ApprovedSubjectsWereApproved'
<1> DEFINE Backed(s) == \E p \in Proposals : Supports(p, s) /\ ApprovalRecorded(p)
<1>1. ASSUME NEW s \in Subjects, Backed(s) PROVE Backed(s)'
  BY <1>1, SupportStays DEF Supports
<1>2. CASE lifecycle' = lifecycle
  BY <1>1, <1>2 DEF ApprovedSubjectsWereApproved, Reached
<1>3. ASSUME NEW s \in Subjects, NEW to \in Stages, NEW a \in Actors,
             ApplyTransition(s, to, a)
      PROVE  ApprovedSubjectsWereApproved'
  <2>1. /\ lifecycle[s] \in Stages \cup {NoStage}
        /\ AllowedMove(lifecycle[s], to)
        /\ lifecycle'[s] = to
        /\ \A x \in Subjects \ {s} : lifecycle'[x] = lifecycle[x]
    BY <1>3 DEF ApplyTransition, TypeOK
  <2>2. to = "approved" => Backed(s)
    BY <1>3 DEF ApplyTransition, StageEvidence, ApprovedStatusIsRecorded
  <2>3. to = "published" => Backed(s)
    BY <2>1, MovesStepByStep, StageNumbers DEF ApprovedSubjectsWereApproved, Reached
  <2>4. StageIndex[to] >= 7 => Backed(s)
    BY <2>1, <2>2, <2>3, MovesStepByStep
  <2> QED
    BY <1>1, <2>1, <2>4, StageNumbers DEF ApprovedSubjectsWereApproved, Reached
<1> QED
  BY <1>2, <1>3, LifecycleStep

LEMMA StatusStep ==
    ASSUME TypeOK, StatusMatchesPublications, [Next]_vars
    PROVE  StatusMatchesPublications'
<1> DEFINE Built(p) == \E pub \in publications : pub.proposal = p
<1> SUFFICES ASSUME NEW p \in Proposals
             PROVE  /\ proposals'[p].status = "published" => Built(p)'
                    /\ Built(p)' => proposals'[p].status \notin {"absent", "drafted"}
  BY DEF StatusMatchesPublications
<1>1. Built(p) => Built(p)'
  BY HistoryStep
<1>2. ASSUME NEW q \in Proposals, BuildPublication(q)
      PROVE  /\ Built(p)' => Built(p) \/ q = p
             /\ q = p => Built(p)'
             /\ q = p => proposals'[p].status = "published"
  <2> DEFINE built == [proposal |-> q,
                       build |-> Cardinality(publications) + 1,
                       reviews |-> {r \in reviews : r.subject = q \/ Supports(q, r.subject)},
                       bundles |-> proposals[q].bundles,
                       devices |-> proposals[q].devices,
                       reviewer_ids |-> proposals[q].reviewer_ids,
                       thresholds |-> proposals[q].thresholds]
  <2>1. publications' = publications \cup {built}
    BY <1>2 DEF BuildPublication, WithPublication
  <2>2. built.proposal = q
    OBVIOUS
  <2>3. q = p => proposals'[p].status = "published"
    BY <1>2 DEF BuildPublication, TypeOK, ProposalRecords
  <2> HIDE DEF built
  <2> QED
    BY <2>1, <2>2, <2>3
<1>3. CASE \E q \in Proposals : BuildPublication(q)
  <2> PICK q \in Proposals : BuildPublication(q)
    BY <1>3
  <2>1. CASE q = p
    BY <1>2, <2>1
  <2>2. CASE q # p
    <3>1. proposals'[p] = proposals[p]
      BY <2>2 DEF BuildPublication, TypeOK
    <3> QED
      BY <1>1, <1>2, <2>2, <3>1 DEF StatusMatchesPublications
  <2> QED
    BY <2>1, <2>2
<1>4. CASE ~ \E q \in Proposals : BuildPublication(q)
  <2>1. publications' = publications
    BY <1>4, ProposalStep
  <2>2. \/ proposals'[p].status = proposals[p].status
        \/ proposals'[p].status \in {"under-review", "approved"}
        \/ proposals'[p].status = "drafted" /\ proposals[p].status = "absent"
    BY <1>4, ProposalStep DEF Exists
  <2> QED
    BY <2>1, <2>2 DEF StatusMatchesPublications
<1> QED
  BY <1>3, <1>4

LEMMA BackedStep ==
    ASSUME TypeOK, ApprovedStatusIsRecorded, ApprovalsAreOfProposals,
           PublicationsAreBacked, [Next]_vars
    PROVE  PublicationsAreBacked'
<1> DEFINE Backed(pub) ==
        /\ pub.reviews \subseteq reviews
        /\ ProposalApprovals(pub.proposal) \cap pub.reviews # {}
        /\ ApprovalRecorded(pub.proposal)
        /\ pub.devices = proposals[pub.proposal].devices
        /\ pub.bundles = proposals[pub.proposal].bundles
<1>1. ASSUME NEW pub \in publications PROVE Backed(pub)'
  <2>1. Backed(pub)
    BY DEF PublicationsAreBacked
  <2>2. pub.proposal \in Proposals
    BY DEF TypeOK, PublicationRecords
  <2>3. /\ ApprovalRecorded(pub.proposal)'
        /\ proposals'[pub.proposal].devices = proposals[pub.proposal].devices
        /\ proposals'[pub.proposal].bundles = proposals[pub.proposal].bundles
    BY <2>1, <2>2, SupportStays
  <2>4. ProposalApprovals(pub.proposal)' \cap pub.reviews # {}
    BY <2>1, <2>2, ApprovalsStay
  <2>5. pub.reviews \subseteq reviews'
    BY <2>1, HistoryStep
  <2> QED
    BY <2>1, <2>3, <2>4, <2>5
<1>2. ASSUME NEW p \in Proposals, BuildPublication(p),
             NEW pub \in publications' \ publications
      PROVE  Backed(pub)'
  <2> DEFINE cited == {r \in reviews : r.subject = p \/ Supports(p, r.subject)}
  <2>1. /\ pub.proposal = p
        /\ pub.reviews = cited
        /\ pub.devices = proposals[p].devices
        /\ pub.bundles = proposals[p].bundles
    BY <1>2 DEF BuildPublication, WithPublication
  <2>2. ApprovalRecorded(p)
    BY <1>2 DEF BuildPublication, ApprovedStatusIsRecorded
  <2>3. /\ ApprovalRecorded(p)'
        /\ proposals'[p].devices = proposals[p].devices
        /\ proposals'[p].bundles = proposals[p].bundles
    BY <2>2, SupportStays
  <2>4. reviews' = reviews
    BY <1>2 DEF BuildPublication
  <2>5. ProposalApprovals(p)' \cap cited # {}
    BY <2>3, <2>4 DEF ApprovalRecorded, ProposalApprovals, Approvals, ReviewsOf
  <2> QED
    BY <2>1, <2>3, <2>4, <2>5
<1>3. publications' # publications => \E p \in Proposals : BuildPublication(p)
  <2>1. CASE Proposals = {}
    <3>1. publications = {}
      BY <2>1 DEF TypeOK, PublicationRecords
    <3>2. publications' = {}
      BY <2>1, TypeStep DEF TypeOK, PublicationRecords
    <3> QED
      BY <3>1, <3>2
  <2>2. CASE Proposals # {}
    BY <2>2, ProposalStep
  <2> QED
    BY <2>1, <2>2
<1>4. \A pub \in publications' : Backed(pub)'
  BY <1>1, <1>2, <1>3
<1> QED
  BY <1>4 DEF PublicationsAreBacked

\* The thresholds of a draft outlast the registry they were evaluated on.
LEMMA DraftStep ==
    ASSUME TypeOK, DraftThresholdsHold, [Next]_vars
    PROVE  DraftThresholdsHold'
<1> DEFINE Holds(t, devs) == IF t \in {"review_enabled", "proposal_enabled"}
                             THEN EnabledNow(t)
                             ELSE Cardinality(devs) >= Policy[t]
           DraftHolds(p) == \A t \in proposals[p].thresholds :
                                Holds(t, proposals[p].devices)
<1>1. \A t, devs : Holds(t, devs) => Holds(t, devs)'
  <2>1. ASSUME NEW t \in {"review_enabled", "proposal_enabled"}, EnabledNow(t)
        PROVE  EnabledNow(t)'
    BY <2>1, DeclarationsStay, MoreDeclarationsKeepThresholds DEF EnabledNow
  <2> QED
    BY <2>1
<1>2. ASSUME NEW p \in Proposals, Exists(p)
      PROVE  DraftHolds(p)'
  <2>1. /\ proposals'[p].thresholds = proposals[p].thresholds
        /\ proposals'[p].devices = proposals[p].devices
    BY <1>2, HistoryStep DEF Frozen
  <2>2. \A t \in proposals[p].thresholds : Holds(t, proposals[p].devices)
    BY <1>2 DEF DraftThresholdsHold
  <2> QED
    BY <1>1, <2>1, <2>2
<1>3. ASSUME NEW p \in Proposals, ~Exists(p), Exists(p)'
      PROVE  DraftHolds(p)'
  <2>1. \E h \in Reviewers : CreateProposal(p, h)
    BY <1>3 DEF Next, CreateReview, CreateProposal, ReviewProposal, ApproveProposal,
        Approvable, BuildPublication, ApplyTransition, RegistryChange, Exists, vars,
        ledgerVars, TypeOK
  <2>2. /\ proposals'[p].devices = BundleDevices(bundles)
        /\ proposals'[p].thresholds = {t \in CapabilityNames : EnabledNow(t)}
    BY <2>1 DEF CreateProposal, TypeOK
  <2>3. ASSUME NEW t \in CapabilityNames, EnabledNow(t)
        PROVE  Holds(t, BundleDevices(bundles))
    BY <2>3 DEF EnabledNow, Enabled, CountedFor
  <2> QED
    BY <1>1, <2>2, <2>3
<1> QED
  BY <1>2, <1>3 DEF DraftThresholdsHold

-----------------------------------------------------------------------------
(* The invariant, and what follows from it.                                *)

\* The parts of IInv hold initially and are kept by every step.
THEOREM LedgerInvariant == Spec => []IInv
<1>1. Init => IInv
  <2> SUFFICES ASSUME Init PROVE IInv
    OBVIOUS
  <2>1. TypeOK
    BY TypeInit
  <2>2. \A s \in Subjects : StageIndex[lifecycle[s]] = 0
    BY StageNumbers DEF Init
  <2>3. /\ PromotedSubjectsWereReviewed
        /\ PromotionTookAPerson
        /\ ApprovedSubjectsWereApproved
    BY <2>2, StageNumbers DEF PromotedSubjectsWereReviewed, PromotionTookAPerson,
        ApprovedSubjectsWereApproved, Reached
  <2>4. /\ ApprovedStatusIsRecorded
        /\ ApprovalsAreOfProposals
        /\ PublicationsAreBacked
        /\ StatusMatchesPublications
        /\ DraftThresholdsHold
    BY DEF Init, NoProposal, Exists, DraftThresholdsHold, ApprovedStatusIsRecorded, ApprovalsAreOfProposals,
           PublicationsAreBacked, StatusMatchesPublications
  <2> QED
    BY <2>1, <2>3, <2>4 DEF IInv
<1>2. IInv /\ [Next]_vars => IInv'
  BY TypeStep, ReviewedStep, PersonStep, RecordedStep, ApprovalsStep,
     ApprovedStep, BackedStep, StatusStep, DraftStep DEF IInv
<1> QED
  BY <1>1, <1>2, PTL DEF Spec

\* Past imported, a subject always has an approving review of its own.
THEOREM PromotionNeedsReview == Spec => []PromotedSubjectsWereReviewed
BY LedgerInvariant, PTL DEF IInv

\* Past imported, a subject was always moved on by a person.
THEOREM PromotionNeedsPerson == Spec => []PromotionTookAPerson
BY LedgerInvariant, PTL DEF IInv

\* An approved subject always belongs to a reviewed and approved proposal.
THEOREM ApprovalIsBacked == Spec => []ApprovedSubjectsWereApproved
BY LedgerInvariant, PTL DEF IInv

\* A publication always cites an approving review, and the evidence of its
\* proposal.
THEOREM PublicationIsBacked == Spec => []PublicationsAreBacked
BY LedgerInvariant, PTL DEF IInv

\* Published is always the work of a build, and no build is ever forgotten.
THEOREM PublishedMeansBuilt == Spec => []StatusMatchesPublications
BY LedgerInvariant, PTL DEF IInv

\* A proposal is approved only while the registry meets every threshold the
\* draft claimed, though it may hold other evidence by then.
THEOREM ApprovalMeetsDraft == Spec => ApprovalKeepsDraftThresholds
<1> DEFINE Kept == \A p \in Proposals :
        proposals[p].status # "approved" /\ proposals'[p].status = "approved" =>
            \A t \in proposals[p].thresholds : EnabledNow(t)
<1>1. ASSUME IInv, [Next]_vars PROVE Kept
  <2> USE DEF IInv
  <2> SUFFICES ASSUME NEW p \in Proposals, proposals[p].status # "approved",
                      proposals'[p].status = "approved",
                      NEW t \in proposals[p].thresholds
               PROVE  EnabledNow(t)
    OBVIOUS
  <2>1. Approvable(p)
    BY <1>1, ProposalStep
  <2>2. /\ Exists(p)
        /\ proposals[p].devices \subseteq BundleDevices(bundles)
    BY <2>1 DEF Approvable, Exists
  <2>3. CASE t \in {"review_enabled", "proposal_enabled"}
    BY <1>1, <2>2, <2>3 DEF DraftThresholdsHold
  <2>4. CASE t \notin {"review_enabled", "proposal_enabled"}
    <3>1. t \in CapabilityNames
      BY <1>1 DEF TypeOK, ProposalRecords
    <3>2. Cardinality(proposals[p].devices) >= Policy[t]
      BY <1>1, <2>2, <2>4 DEF DraftThresholdsHold
    <3>3. IsFiniteSet(BundleDevices(bundles))
      BY <1>1, ViewOperators, EvidenceAssumption, FS_Subset DEF TypeOK, ViewTypeOK
    <3>4. /\ Cardinality(proposals[p].devices) <= Cardinality(BundleDevices(bundles))
          /\ IsFiniteSet(proposals[p].devices)
      BY <2>2, <3>3, FS_Subset
    <3>5. /\ Cardinality(proposals[p].devices) \in Nat
          /\ Cardinality(BundleDevices(bundles)) \in Nat
      BY <3>3, <3>4, FS_CardinalityType
    <3>6. Policy[t] \in Nat
      BY <3>1, EvidenceAssumption
    <3>7. Cardinality(BundleDevices(bundles)) >= Policy[t]
      BY <3>2, <3>4, <3>5, <3>6
    <3> QED
      BY <2>4, <3>7 DEF EnabledNow, Enabled, CountedFor
  <2> QED
    BY <2>3, <2>4
<1>2. IInv /\ [Next]_vars => [Kept]_vars
  BY <1>1
<1> QED
  BY <1>2, LedgerInvariant, PTL DEF Spec, ApprovalKeepsDraftThresholds

=============================================================================
