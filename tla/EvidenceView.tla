---------------------------- MODULE EvidenceView ----------------------------
(***************************************************************************)
(* The registry as the rest of the system sees it: the active bundles, the *)
(* declarations ever made and the candidates last proposed.  This is the   *)
(* abstract specification of the evidence registry (EvidenceRegistry       *)
(* implements it) and the environment in which governance decides.         *)
(***************************************************************************)
EXTENDS Evidence

VARIABLES
    bundles,        \* active bundle ids
    declarations,   \* every declaration imported so far
    candidates      \* proposed regions with their supporting bundles

viewVars == <<bundles, declarations, candidates>>

CandidateRecords == [region : Regions, bundles : SUBSET Bundles]

ViewTypeOK ==
    /\ bundles \subseteq Bundles
    /\ declarations \subseteq Declarations
    /\ candidates \subseteq CandidateRecords

ViewInit ==
    /\ bundles = {}
    /\ declarations = {}
    /\ candidates = {}

\* One add or import brings new bundles in, with the declarations they carry.
AddEvidence(new) ==
    /\ new # {}
    /\ new \cap bundles = {}
    /\ bundles' = bundles \cup new
    /\ declarations' = declarations \cup UNION {File[b].declarations : b \in new}
    /\ UNCHANGED candidates

\* Removal deletes the active bundle; its declarations and the candidates it
\* supported stay.
RemoveEvidence(b) ==
    /\ b \in bundles
    /\ bundles' = bundles \ {b}
    /\ UNCHANGED <<declarations, candidates>>

ProposeRegion(r) ==
    /\ candidates' = {c \in candidates : c.region # r}
                        \cup {[region |-> r, bundles |-> Supporting(bundles, r)]}
    /\ UNCHANGED <<bundles, declarations>>

ViewNext ==
    \/ \E new \in SUBSET Bundles : AddEvidence(new)
    \/ \E b \in Bundles : RemoveEvidence(b)
    \/ \E r \in Regions : ProposeRegion(r)

ViewSpec == ViewInit /\ [][ViewNext]_viewVars
=============================================================================
