----------------------------- MODULE Governance -----------------------------
(***************************************************************************)
(* The governance ledger: lifecycle transitions, reviews, catalog          *)
(* proposals and publications, decided against the evidence registry.      *)
(*                                                                         *)
(* One action is one CLI command that loads the ledger and the registry,   *)
(* applies the operation and writes the new ledger; GovernanceStore looks  *)
(* inside that command.  A refused command changes nothing and has no      *)
(* action.  Reviewer ids and rationales are never blank here.              *)
(*                                                                         *)
(* Abstractions: transitions is kept as each subject's authoritative       *)
(* stage, audit_events as the set of (event, subject, actor) it contains;  *)
(* record ids, digests and timestamps are left out, so repeating a         *)
(* decision word for word adds no second record.  record_registry_mutation *)
(* appends an audit event and nothing else: it is in GovernanceStore.      *)
(***************************************************************************)
EXTENDS EvidenceView, Sequences

CONSTANTS
    Subjects,       \* what a lifecycle is kept for: bundle or device ids
    People,         \* actors that are not in NON_HUMAN_ACTORS
    Reviewers,      \* ids that draft, review and approve
    Proposals,      \* ids of the proposals that may be created
    MaxReviews,     \* bound: review records
    MaxPublications \* bound: publication records

VARIABLES
    lifecycle,      \* authoritative_stage of each subject
    reviews,        \* review records
    proposals,      \* proposal records by id
    publications,   \* publication records
    audit_events    \* (type, subject, actor) of the audit events so far

ledgerVars == <<lifecycle, reviews, proposals, publications, audit_events>>
vars == <<viewVars, ledgerVars>>

-----------------------------------------------------------------------------
(* Records.                                                                *)

STAGE_ORDER ==
    <<"observed", "sanitized", "imported", "reviewed",
      "correlated", "candidate", "approved", "published">>

Stages == {STAGE_ORDER[i] : i \in 1..8}
NoStage == "none"

\* Position in STAGE_ORDER; a subject without transitions stands before it.
StageIndex ==
    [stage \in Stages \cup {NoStage} |->
        CASE stage = "observed"   -> 1
          [] stage = "sanitized"  -> 2
          [] stage = "imported"   -> 3
          [] stage = "reviewed"   -> 4
          [] stage = "correlated" -> 5
          [] stage = "candidate"  -> 6
          [] stage = "approved"   -> 7
          [] stage = "published"  -> 8
          [] OTHER                -> 0]

\* Only transitions look at NON_HUMAN_ACTORS; reviews and approvals take any
\* id, so Reviewers may have the tool among them.
Tool == "tool"
Builder == "publication-builder"
Actors == People \cup {Tool}

ReviewSubjects == Subjects \cup Proposals

\* Two members stand for each enumeration: the code asks only whether a review
\* is of type proposal and whether it approves.
ReviewTypes == {"evidence", "proposal"}
Decisions == {"approve", "withdrawn"}

ReviewRecords ==
    [subject : ReviewSubjects, reviewer : Reviewers,
     type : ReviewTypes, decision : Decisions]

ProposalStatuses == {"absent", "drafted", "under-review", "approved", "published"}

ProposalRecords ==
    [status : ProposalStatuses, entries : SUBSET Regions,
     bundles : SUBSET Bundles, devices : SUBSET Devices,
     reviewer_ids : SUBSET Reviewers, thresholds : SUBSET CapabilityNames]

NoProposal ==
    [status |-> "absent", entries |-> {}, bundles |-> {}, devices |-> {},
     reviewer_ids |-> {}, thresholds |-> {}]

\* publication_id is a hash of the proposal and its entries, so proposal
\* stands for it; build numbers the builds (built_utc).
PublicationRecords ==
    [proposal : Proposals, build : Nat, reviews : SUBSET ReviewRecords,
     bundles : SUBSET Bundles, devices : SUBSET Devices,
     reviewer_ids : SUBSET Reviewers, thresholds : SUBSET CapabilityNames]

EventTypes ==
    {"review", "proposal", "approval", "publication",
     "lifecycle-transition"}

AuditEvents ==
    [type : EventTypes, subject : ReviewSubjects, actor : Actors \cup Reviewers \cup {Builder}]

Event(type, subject, actor) ==
    [type |-> type, subject |-> subject, actor |-> actor]

ASSUME GovernanceAssumption ==
    /\ Tool \notin People
    /\ Subjects \cap Proposals = {}
    /\ MaxReviews \in Nat /\ MaxPublications \in Nat

TypeOK ==
    /\ ViewTypeOK
    /\ lifecycle \in [Subjects -> Stages \cup {NoStage}]
    /\ reviews \subseteq ReviewRecords
    /\ proposals \in [Proposals -> ProposalRecords]
    /\ publications \subseteq PublicationRecords
    /\ IsFiniteSet(publications)
    /\ audit_events \subseteq AuditEvents

-----------------------------------------------------------------------------
(* What the operations ask of the ledger and the registry.                 *)

EnabledNow(capability) == Enabled(capability, bundles, declarations)

Exists(p) == proposals[p].status # "absent"

ReviewsOf(s) == {r \in reviews : r.subject = s}
Approvals(s) == {r \in ReviewsOf(s) : r.decision = "approve"}
ProposalApprovals(p) == {r \in Approvals(p) : r.type = "proposal"}

Supports(p, s) == s \in proposals[p].devices \cup proposals[p].bundles

StageCapability(stage) ==
    CASE stage = "correlated" -> "correlation_enabled"
      [] stage = "candidate"  -> "review_enabled"
      [] stage \in {"approved", "published"} -> "proposal_enabled"
      [] OTHER -> "stability_enabled"

HUMAN_GATED_STAGES == {"reviewed", "candidate", "approved", "published"}

\* Faulty variant of AllowedMove: an off-by-one lets a stage be skipped.
AllowedMoveSkipping(from, to) ==
    IF from = NoStage THEN to = "observed"
    ELSE StageIndex[to] <= StageIndex[from] + 2

\* The first stage is observed; later moves advance one step, repeat the
\* stage, or fall back any number of steps.
AllowedMove(from, to) ==
    IF from = NoStage THEN to = "observed"
    ELSE StageIndex[to] <= StageIndex[from] + 1

\* Faulty variant of HumanGated: only the final stages are gated.
HumanGatedLate(from, to) ==
    \/ to \in {"approved", "published"}
    \/ from # NoStage /\ StageIndex[to] < StageIndex[from]

HumanGated(from, to) ==
    \/ to \in HUMAN_GATED_STAGES
    \/ from # NoStage /\ StageIndex[to] < StageIndex[from]

\* Faulty variant of StageEvidence: a draft proposal is enough for approved.
StageEvidenceOfDraft(s, to) ==
    /\ to \in {"reviewed", "candidate"} => Approvals(s) # {}
    /\ to = "approved" => \E p \in Proposals : Supports(p, s)
    /\ to = "published" => publications # {}

\* What a stage requires beside its capability.
StageEvidence(s, to) ==
    /\ to \in {"reviewed", "candidate"} => Approvals(s) # {}
    /\ to = "approved" =>
        \E p \in Proposals : proposals[p].status = "approved" /\ Supports(p, s)
    /\ to = "published" => publications # {}

\* Faulty variants of Approvable: any review will do; lost evidence is ignored.
ApprovableUnreviewed(p) ==
    /\ proposals[p].status \in {"drafted", "under-review"}
    /\ EnabledNow("proposal_enabled")
    /\ ReviewsOf(p) # {}
    /\ proposals[p].devices \subseteq BundleDevices(bundles)

ApprovableStale(p) ==
    /\ proposals[p].status \in {"drafted", "under-review"}
    /\ EnabledNow("proposal_enabled")
    /\ ProposalApprovals(p) # {}

\* What approve_proposal asks: no conflict check, and a draft may be approved.
Approvable(p) ==
    /\ proposals[p].status \in {"drafted", "under-review"}
    /\ EnabledNow("proposal_enabled")
    /\ ProposalApprovals(p) # {}
    /\ proposals[p].devices \subseteq BundleDevices(bundles)

\* Faulty variant of StatusAfterReview: a withdrawal sends the proposal back to
\* its author.
StatusBackToDraft(decision) ==
    IF decision = "withdrawn" THEN "drafted" ELSE "under-review"

\* The decision does not matter, nor does the status it had.
StatusAfterReview(decision) == "under-review"

\* Faulty variant of WithPublication: a rebuild replaces the earlier record,
\* which has the same publication_id.
WithPublicationOnce(pub) ==
    {old \in publications : old.proposal # pub.proposal} \cup {pub}

WithPublication(pub) == publications \cup {pub}

-----------------------------------------------------------------------------
(* Operations.                                                             *)

Init ==
    /\ ViewInit
    /\ lifecycle = [s \in Subjects |-> NoStage]
    /\ reviews = {}
    /\ proposals = [p \in Proposals |-> NoProposal]
    /\ publications = {}
    /\ audit_events = {}

\* A proposal's id is a hash of its contents: no review names it before it exists.
CreateReview(subject, reviewer, type, decision) ==
    LET review == [subject |-> subject, reviewer |-> reviewer,
                   type |-> type, decision |-> decision]
    IN  /\ subject \in Proposals => Exists(subject)
        /\ Cardinality(reviews \cup {review}) <= MaxReviews
        /\ reviews' = reviews \cup {review}
        /\ audit_events' = audit_events \cup {Event("review", subject, reviewer)}
        /\ UNCHANGED <<viewVars, lifecycle, proposals, publications>>

\* Entries are drafted from every candidate of the registry, whatever its
\* status; the radios are all those with an active bundle.
CreateProposal(p, reviewer) ==
    /\ ~Exists(p)
    /\ candidates # {}
    /\ proposals' = [proposals EXCEPT ![p] =
            [status |-> "drafted",
             entries |-> {c.region : c \in candidates},
             bundles |-> UNION {c.bundles : c \in candidates},
             devices |-> BundleDevices(bundles),
             reviewer_ids |-> {reviewer},
             thresholds |-> {t \in CapabilityNames : EnabledNow(t)}]]
    /\ audit_events' = audit_events \cup {Event("proposal", p, reviewer)}
    /\ UNCHANGED <<viewVars, lifecycle, reviews, publications>>

\* proposal-review: create_review, then submit_proposal_review, which puts a
\* proposal of any status under review.
ReviewProposal(p, reviewer, decision) ==
    LET review == [subject |-> p, reviewer |-> reviewer,
                   type |-> "proposal", decision |-> decision]
    IN  /\ Exists(p)
        /\ Cardinality(reviews \cup {review}) <= MaxReviews
        /\ reviews' = reviews \cup {review}
        /\ proposals' = [proposals EXCEPT
                ![p].status = StatusAfterReview(decision),
                ![p].reviewer_ids = @ \cup {reviewer}]
        /\ audit_events' = audit_events \cup
                {Event("review", p, reviewer), Event("proposal", p, reviewer)}
        /\ UNCHANGED <<viewVars, lifecycle, publications>>

\* The stored proposal gets the status alone: the approver's id is added only
\* to the proposal object handed back to the caller.
ApproveProposal(p, reviewer) ==
    /\ Approvable(p)
    /\ proposals' = [proposals EXCEPT ![p].status = "approved"]
    /\ audit_events' = audit_events \cup {Event("approval", p, reviewer)}
    /\ UNCHANGED <<viewVars, lifecycle, reviews, publications>>

BuildPublication(p) ==
    /\ proposals[p].status = "approved"
    /\ ReviewsOf(p) # {}
    /\ Cardinality(publications) < MaxPublications
    /\ publications' = WithPublication(
            [proposal |-> p,
             build |-> Cardinality(publications) + 1,
             reviews |-> {r \in reviews : r.subject = p \/ Supports(p, r.subject)},
             bundles |-> proposals[p].bundles,
             devices |-> proposals[p].devices,
             reviewer_ids |-> proposals[p].reviewer_ids,
             thresholds |-> proposals[p].thresholds])
    /\ proposals' = [proposals EXCEPT ![p].status = "published"]
    /\ audit_events' = audit_events \cup {Event("publication", p, Builder)}
    /\ UNCHANGED <<viewVars, lifecycle, reviews>>

\* governance-transition; the actor is the reviewer unless it is the tool.
ApplyTransition(s, to, actor) ==
    /\ AllowedMove(lifecycle[s], to)
    /\ HumanGated(lifecycle[s], to) => actor \in People
    /\ EnabledNow(StageCapability(to))
    /\ StageEvidence(s, to)
    /\ lifecycle' = [lifecycle EXCEPT ![s] = to]
    /\ audit_events' = audit_events \cup {Event("lifecycle-transition", s, actor)}
    /\ UNCHANGED <<viewVars, reviews, proposals, publications>>

RegistryChange == ViewNext /\ UNCHANGED ledgerVars

Next ==
    \/ \E s \in ReviewSubjects, h \in Reviewers, t \in ReviewTypes, d \in Decisions :
            CreateReview(s, h, t, d)
    \/ \E p \in Proposals, h \in Reviewers : CreateProposal(p, h)
    \/ \E p \in Proposals, h \in Reviewers, d \in Decisions : ReviewProposal(p, h, d)
    \/ \E p \in Proposals, h \in Reviewers : ApproveProposal(p, h)
    \/ \E p \in Proposals : BuildPublication(p)
    \/ \E s \in Subjects, to \in Stages, a \in Actors : ApplyTransition(s, to, a)
    \/ RegistryChange

Spec == Init /\ [][Next]_vars

-----------------------------------------------------------------------------
(* Safety.                                                                 *)

Reached(s, stage) == StageIndex[lifecycle[s]] >= StageIndex[stage]

\* A subject that ever got past imported has an approving review of its own,
\* whatever detours its lifecycle took since (apply_transition's gates).
PromotedSubjectsWereReviewed ==
    \A s \in Subjects : Reached(s, "reviewed") => Approvals(s) # {}

\* Tools alone never bring a subject past imported: a person made one of the
\* transitions (the human gate of apply_transition).
PromotionTookAPerson ==
    \A s \in Subjects : Reached(s, "reviewed") =>
        \E h \in People : Event("lifecycle-transition", s, h) \in audit_events

ApprovalRecorded(p) ==
    /\ ProposalApprovals(p) # {}
    /\ \E h \in Reviewers : Event("approval", p, h) \in audit_events

\* An approved subject is evidence of a proposal that was itself reviewed and
\* approved, even when that proposal has since been reopened or published.
ApprovedSubjectsWereApproved ==
    \A s \in Subjects : Reached(s, "approved") =>
        \E p \in Proposals : Supports(p, s) /\ ApprovalRecorded(p)

\* A publication cites reviews that are still in the ledger, an approving one
\* of its proposal among them, and the evidence its proposal was drafted on.
PublicationsAreBacked ==
    \A pub \in publications :
        /\ pub.reviews \subseteq reviews
        /\ ProposalApprovals(pub.proposal) \cap pub.reviews # {}
        /\ ApprovalRecorded(pub.proposal)
        /\ pub.devices = proposals[pub.proposal].devices
        /\ pub.bundles = proposals[pub.proposal].bundles

\* A proposal is published exactly by a build, and once built it never looks
\* like a draft again.
StatusMatchesPublications ==
    \A p \in Proposals :
        LET built == \E pub \in publications : pub.proposal = p
        IN  /\ proposals[p].status = "published" => built
            /\ built => proposals[p].status \notin {"absent", "drafted"}

\* When a proposal is approved, every threshold it claimed when drafted holds
\* in the registry of that moment: bundles may have come and gone, yet its
\* radios must all be active and declarations are never lost.
ApprovalKeepsDraftThresholds ==
    [][\A p \in Proposals :
        proposals[p].status # "approved" /\ proposals'[p].status = "approved" =>
            \A t \in proposals[p].thresholds : EnabledNow(t)]_vars

\* Strengthenings that make the invariants above inductive: the status approved
\* has its review and its event, and approvals are of proposals that exist.
ApprovedStatusIsRecorded ==
    \A p \in Proposals : proposals[p].status = "approved" => ApprovalRecorded(p)

ApprovalsAreOfProposals ==
    \A p \in Proposals, h \in Reviewers :
        Event("approval", p, h) \in audit_events => Exists(p)

\* A threshold claimed by a draft is still met by the inspections there are, or
\* would be met by the draft's own radios.
DraftThresholdsHold ==
    \A p \in Proposals : Exists(p) => \A t \in proposals[p].thresholds :
        IF t \in {"review_enabled", "proposal_enabled"} THEN EnabledNow(t)
        ELSE Cardinality(proposals[p].devices) >= Policy[t]

IInv ==
    /\ TypeOK
    /\ PromotedSubjectsWereReviewed
    /\ PromotionTookAPerson
    /\ ApprovedStatusIsRecorded
    /\ ApprovalsAreOfProposals
    /\ ApprovedSubjectsWereApproved
    /\ PublicationsAreBacked
    /\ StatusMatchesPublications
    /\ DraftThresholdsHold

Frozen(p) == <<proposals[p].entries, proposals[p].bundles,
               proposals[p].devices, proposals[p].thresholds>>

\* Nothing rewrites history: reviews, publications and audit events are only
\* added, and what a proposal was drafted on never changes.
HistoryOnlyGrows ==
    [][/\ reviews \subseteq reviews'
       /\ publications \subseteq publications'
       /\ audit_events \subseteq audit_events'
       /\ \A p \in Proposals : Exists(p) =>
            /\ Exists(p)'
            /\ Frozen(p)' = Frozen(p)]_vars

-----------------------------------------------------------------------------
(* What the documentation says and the code does not do: it is refuted.    *)

\* "Inspected radios additionally carry a self-inspected or independently
\* reviewed declaration.  Verified radios carry an independently reviewed
\* declaration on an evidence-bearing device" (_device_counts): a subject
\* gets to a stage only while enough inspected or verified radios still have a
\* bundle.
StagesCountRadiosWithEvidence ==
    [][\A s \in Subjects : lifecycle'[s] # lifecycle[s] =>
        /\ lifecycle'[s] = "candidate" =>
                Cardinality(InspectedDevices(declarations) \cap BundleDevices(bundles))
                    >= Policy["review_enabled"]
        /\ lifecycle'[s] \in {"approved", "published"} =>
                Cardinality(VerifiedDevices(declarations) \cap BundleDevices(bundles))
                    >= Policy["proposal_enabled"]]_vars

\* "Any contradiction blocks a proposal" (docs/evidence-policy.md): no proposal
\* is approved while the registry reports a blocking conflict.
ContradictionBlocksApproval ==
    [][\A p \in Proposals :
        proposals[p].status # "approved" /\ proposals'[p].status = "approved" =>
            ~Contradicted(bundles, declarations)]_vars
=============================================================================
