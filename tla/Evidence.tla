------------------------------ MODULE Evidence ------------------------------
(***************************************************************************)
(* The data of the offline evidence registry and the pure functions that   *)
(* read it: which radios the evidence covers (governance/policy.py), which *)
(* contradictions it holds (detect_conflicts) and what a discriminator     *)
(* region is supported by (propose_discriminator).                         *)
(*                                                                         *)
(* A bundle file is named by its bundle_id; File says what the file holds. *)
(* Digests, labels, JSON and timestamps that nothing below compares are    *)
(* left out.                                                               *)
(***************************************************************************)
EXTENDS Integers, FiniteSets

CONSTANTS
    Bundles,        \* bundle ids of the sanitized bundle files
    Devices,        \* device ids: hashes of pseudonymous labels
    NoDevice,       \* device_id = None: a bundle with no device label
    Regions,        \* driver, probe, offset and length of a discriminator
    Values,         \* declared values, and byte values of a region
    Fingerprints,   \* electronic fingerprint ids
    File,           \* what each bundle file holds
    Policy          \* the device counts of EvidencePolicy

CapabilityNames ==
    {"stability_enabled", "comparison_enabled", "correlation_enabled",
     "review_enabled", "proposal_enabled"}

VerificationStatuses ==
    {"unverified", "self-inspected", "independently-reviewed",
     "conflicting", "withdrawn"}

DeclarationFields == {"mcu", "pcb_revision", "hardware_revision", "model"}

(***************************************************************************)
(* A declaration_id is the hash of the whole declaration, its status       *)
(* included: a declaration is its own identity, and withdrawing one makes  *)
(* another record.                                                         *)
(***************************************************************************)
Declarations ==
    [device : Devices, field : DeclarationFields, value : Values,
     status : VerificationStatuses, time : Nat]

(***************************************************************************)
(* captured: the earliest created_utc of the captures;                     *)
(* off_scope: the regions whose driver the captures match and whose probe   *)
(* they do not;                                                            *)
(* region[r]: the byte values propose_discriminator finds at region r;     *)
(* where they come from is in EvidenceBundle (RegionValues).               *)
(***************************************************************************)
BundleFiles ==
    [device : Devices \cup {NoDevice}, declarations : SUBSET Declarations,
     fingerprint : Fingerprints, captured : Nat, off_scope : SUBSET Regions,
     region : [Regions -> SUBSET Values]]

ASSUME EvidenceAssumption ==
    /\ IsFiniteSet(Devices)
    /\ NoDevice \notin Devices
    /\ Policy \in [CapabilityNames -> Nat]
    /\ File \in [Bundles -> BundleFiles]
    /\ \A b \in Bundles : \A d \in File[b].declarations :
            d.device = File[b].device

-----------------------------------------------------------------------------
(* What the evidence covers.                                               *)

InspectedStatuses == {"self-inspected", "independently-reviewed"}
HardwareFields == {"mcu", "pcb_revision", "hardware_revision"}

Active(decls) == {d \in decls : d.status # "withdrawn"}

\* Radios with an active bundle; registry.bundles with a device_id.
BundleDevices(bs) == {File[b].device : b \in bs} \ {NoDevice}

DeclaredWith(decls, statuses) ==
    {dev \in Devices : \E d \in Active(decls) :
        d.device = dev /\ d.status \in statuses /\ d.field \in HardwareFields}

InspectedDevices(decls) == DeclaredWith(decls, InspectedStatuses)
VerifiedDevices(decls)  == DeclaredWith(decls, {"independently-reviewed"})

\* The radios a capability of evaluate_thresholds counts.
CountedFor(capability, bs, decls) ==
    CASE capability = "proposal_enabled" -> VerifiedDevices(decls)
      [] capability = "review_enabled"   -> InspectedDevices(decls)
      [] OTHER                           -> BundleDevices(bs)

Enabled(capability, bs, decls) ==
    Cardinality(CountedFor(capability, bs, decls)) >= Policy[capability]

-----------------------------------------------------------------------------
(* Contradictions: every conflict detect_conflicts reports is blocking.    *)

DeclaredValues(decls, devs, fields, statuses) ==
    {d.value : d \in {x \in Active(decls) : /\ x.device \in devs
                                            /\ x.field \in fields
                                            /\ x.status \in statuses}}

Several(S) == \E x, y \in S : x # y

\* device_mcu_conflict and device_pcb_conflict, by device and field.
HardwareConflicts(decls) ==
    {c \in Devices \X {"mcu", "pcb_revision"} :
        Several(DeclaredValues(decls, {c[1]}, {c[2]}, VerificationStatuses))}

BundlesOf(bs, dev) == {b \in bs : File[b].device = dev}

\* declaration_precedes_evidence: declared before any capture of the radio.
EarlyDeclarations(bs, decls) ==
    {d \in Active(decls) :
        /\ BundlesOf(bs, d.device) # {}
        /\ \A b \in BundlesOf(bs, d.device) : d.time < File[b].captured}

\* fingerprint_hardware_conflict: one fingerprint, contradictory inspections.
FingerprintConflicts(bs, decls) ==
    {fp \in {File[b].fingerprint : b \in bs} :
        \E field \in {"mcu", "pcb_revision"} :
            Several(DeclaredValues(decls,
                BundleDevices({b \in bs : File[b].fingerprint = fp}),
                {field}, InspectedStatuses))}

Contradicted(bs, decls) ==
    \/ HardwareConflicts(decls) # {}
    \/ EarlyDeclarations(bs, decls) # {}
    \/ FingerprintConflicts(bs, decls) # {}

-----------------------------------------------------------------------------
(* A discriminator region.                                                 *)

\* The bundles in scope whose captures reach the region.
Supporting(bs, r) == {b \in bs : File[b].region[r] # {}}

ObservedValues(bs, r) == UNION {File[b].region[r] : b \in bs}

MINIMUM_CORRELATION_DEVICES == 3

DeclaredGroups(decls) ==
    {<<d.field, d.value>> : d \in {x \in decls : /\ x.status \in InspectedStatuses
                                                 /\ x.field \in HardwareFields}}

\* _candidate_correlations: at least two byte values and two declared groups.
Correlates(bs, decls, r) ==
    Several(ObservedValues(bs, r)) /\ Several(DeclaredGroups(decls))

CandidateStatus(bs, decls, r) ==
    LET radios == Cardinality(BundleDevices(Supporting(bs, r))) IN
    IF Contradicted(bs, decls) \/ \E b \in bs : r \in File[b].off_scope THEN "contradicted"
    ELSE IF radios >= MINIMUM_CORRELATION_DEVICES /\ Correlates(bs, decls, r) THEN "correlated"
    ELSE IF radios >= 2 THEN "candidate"
    ELSE "insufficient-evidence"
=============================================================================
