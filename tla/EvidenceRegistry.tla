--------------------------- MODULE EvidenceRegistry ---------------------------
(***************************************************************************)
(* The evidence registry: the record EvidenceRegistry of                   *)
(* evidence_registry.py, kept in one file, and the commands that replace   *)
(* it by another (cli.py).  A command loads the file, changes the registry *)
(* in memory, one bundle after the other, and replaces the file once; it   *)
(* can be refused or killed on the way, which leaves the file as it was.   *)
(* Nothing keeps two commands from doing so at once; ExternalLock says     *)
(* whether the callers do (public-api.md).                                 *)
(*                                                                         *)
(* Of the four declared_* fields of a device, which are handled alike, the *)
(* MCU's is kept.  Digests, timestamps and the wording of event details    *)
(* are left out.  What a bundle file holds while it is read, and what an   *)
(* import looks at, is in EvidencePipeline.                                *)
(***************************************************************************)
EXTENDS Evidence, Sequences, SequencesExt

CONSTANTS
    MetadataClaim,  \* the declared_mcu of a bundle's capture metadata, if any
    Processes,      \* commands that run side by side
    ExternalLock,   \* do the callers let one command at a time work on it?
    MaxEvents       \* bound: review events

VARIABLES
    registry,   \* the registry in the file
    pc,         \* where each command stands
    mem         \* the registry it has in memory

vars == <<registry, pc, mem>>

\* A value that may be missing is a set with at most one member.
Maybe(S) == {{}} \cup {{x} : x \in S}

ASSUME RegistryAssumption ==
    /\ MetadataClaim \in [Bundles -> Maybe(Values)]
    /\ ExternalLock \in BOOLEAN
    /\ MaxEvents \in Nat

CandidateStatuses ==
    {"contradicted", "correlated", "candidate", "insufficient-evidence"}

DeviceRecords ==
    [declared_mcu : Maybe(Values), bundle_ids : SUBSET Bundles,
     electronic_fingerprints : SUBSET Fingerprints]

CandidateRecords ==
    [region : Regions, bundles : SUBSET Bundles, devices : SUBSET Devices,
     contradicting : SUBSET Bundles, values : SUBSET Values,
     status : CandidateStatuses]

ReviewEvents ==
    [action : {"bundle-added", "bundle-removed"}, subject : Bundles]
        \cup [action : {"candidate-proposed"}, subject : Regions]

Event(action, subject) == [action |-> action, subject |-> subject]

DeviceMaps == UNION {[known -> DeviceRecords] : known \in SUBSET Devices}

Registries ==
    [bundles : SUBSET Bundles,
     devices : DeviceMaps,
     declarations : SUBSET Declarations,
     candidates : SUBSET CandidateRecords,
     review_events : Seq(ReviewEvents)]

NewRegistry ==
    [bundles |-> {}, devices |-> << >>, declarations |-> {},
     candidates |-> {}, review_events |-> << >>]

Steps == {"idle", "loaded", "adding", "importing", "changed"}

TypeOK ==
    /\ registry \in Registries
    /\ pc \in [Processes -> Steps]
    /\ mem \in [Processes -> Registries]

-----------------------------------------------------------------------------
(* Devices.                                                                *)

\* _apply_declarations: the one value the active declarations of a bundle
\* agree on, or else what the capture metadata says.
DeclaredMcu(b) ==
    LET declared == {d.value : d \in {x \in Active(File[b].declarations) :
                                            x.field = "mcu"}}
    IN  IF \E v \in Values : declared = {v} THEN declared ELSE MetadataClaim[b]

DeviceRecord(b) ==
    [declared_mcu |-> DeclaredMcu(b), bundle_ids |-> {b},
     electronic_fingerprints |-> {File[b].fingerprint}]

\* Faulty variants of MergeDevice: the newest claim wins; the index of the
\* device's bundles is not extended.
MergeDeviceNewest(existing, incoming) ==
    [declared_mcu |-> IF incoming.declared_mcu # {} THEN incoming.declared_mcu
                      ELSE existing.declared_mcu,
     bundle_ids |-> existing.bundle_ids \cup incoming.bundle_ids,
     electronic_fingerprints |-> existing.electronic_fingerprints
                                    \cup incoming.electronic_fingerprints]

MergeDeviceUnindexed(existing, incoming) ==
    [MergeDeviceNewest(existing, incoming) EXCEPT !.bundle_ids = existing.bundle_ids]

\* The first claim wins; bundles and fingerprints accumulate.
MergeDevice(existing, incoming) ==
    [declared_mcu |-> IF existing.declared_mcu # {} THEN existing.declared_mcu
                      ELSE incoming.declared_mcu,
     bundle_ids |-> existing.bundle_ids \cup incoming.bundle_ids,
     electronic_fingerprints |-> existing.electronic_fingerprints
                                    \cup incoming.electronic_fingerprints]

WithDeviceOf(devices, b) ==
    LET dev == File[b].device IN
    IF dev = NoDevice THEN devices
    ELSE [x \in DOMAIN devices \cup {dev} |->
            IF x # dev THEN devices[x]
            ELSE IF dev \in DOMAIN devices
                 THEN MergeDevice(devices[dev], DeviceRecord(b))
                 ELSE DeviceRecord(b)]

-----------------------------------------------------------------------------
(* Registry to registry.                                                   *)

\* add_evidence_bundle of a bundle that is not active.
Added(reg, b) ==
    [reg EXCEPT !.bundles = @ \cup {b},
                !.devices = WithDeviceOf(@, b),
                !.declarations = @ \cup File[b].declarations,
                !.review_events = Append(@, Event("bundle-added", b))]

\* Faulty variant of AddedIfNew: exact duplicates are recorded again.
AddedAlways(reg, b) == Added(reg, b)

\* add_evidence_bundle with reject_duplicates=False.
AddedIfNew(reg, b) == IF b \in reg.bundles THEN reg ELSE Added(reg, b)

\* Devices keep their records and claims; only the index forgets the bundle.
Unindexed(devices, b) ==
    [dev \in DOMAIN devices |-> [devices[dev] EXCEPT !.bundle_ids = @ \ {b}]]

\* Faulty variant of Removed: the claims the bundle brought go with it.
RemovedWithClaims(reg, b) ==
    [reg EXCEPT !.bundles = @ \ {b},
                !.devices = Unindexed(@, b),
                !.declarations = @ \ File[b].declarations,
                !.review_events = Append(@, Event("bundle-removed", b))]

Removed(reg, b) ==
    [reg EXCEPT !.bundles = @ \ {b},
                !.devices = Unindexed(@, b),
                !.review_events = Append(@, Event("bundle-removed", b))]

Candidate(bs, decls, r) ==
    [region |-> r,
     bundles |-> Supporting(bs, r),
     devices |-> BundleDevices(Supporting(bs, r)),
     contradicting |-> {b \in bs : r \in File[b].off_scope} \cup
                       UNION {BundlesOf(bs, d.device) : d \in EarlyDeclarations(bs, decls)},
     values |-> ObservedValues(bs, r),
     status |-> CandidateStatus(bs, decls, r)]

\* Faulty variant of Proposed: the candidate stands beside what it was before.
ProposedBeside(reg, r) ==
    [reg EXCEPT !.candidates = @ \cup {Candidate(reg.bundles, reg.declarations, r)},
                !.review_events = Append(@, Event("candidate-proposed", r))]

\* candidate_id is a hash of the region: a new proposal replaces the old one.
Proposed(reg, r) ==
    [reg EXCEPT !.candidates = {c \in @ : c.region # r}
                    \cup {Candidate(reg.bundles, reg.declarations, r)},
                !.review_events = Append(@, Event("candidate-proposed", r))]

-----------------------------------------------------------------------------
(* Commands.                                                               *)

Init ==
    /\ registry = NewRegistry
    /\ pc = [p \in Processes |-> "idle"]
    /\ mem = [p \in Processes |-> NewRegistry]

\* Faulty variant of Load: the lock is not taken.
LoadUnlocked(p) ==
    /\ pc[p] = "idle"
    /\ pc' = [pc EXCEPT ![p] = "loaded"]
    /\ mem' = [mem EXCEPT ![p] = registry]
    /\ UNCHANGED registry

Load(p) ==
    /\ pc[p] = "idle"
    /\ ExternalLock => \A q \in Processes : pc[q] = "idle"
    /\ pc' = [pc EXCEPT ![p] = "loaded"]
    /\ mem' = [mem EXCEPT ![p] = registry]
    /\ UNCHANGED registry

Change(p, step, reg) ==
    /\ Len(reg.review_events) <= MaxEvents
    /\ pc' = [pc EXCEPT ![p] = step]
    /\ mem' = [mem EXCEPT ![p] = reg]
    /\ UNCHANGED registry

\* registry-add, bundle by bundle as its command line names them.  A duplicate,
\* of the registry or of the command line, ends the command.
RegistryAdd(p, b) ==
    /\ pc[p] \in {"loaded", "adding"}
    /\ b \notin mem[p].bundles
    /\ Change(p, "adding", Added(mem[p], b))

\* registry-import-contribution --yes, bundle by bundle; duplicates are skipped.
ImportContribution(p, b) ==
    /\ pc[p] \in {"loaded", "importing"}
    /\ Change(p, "importing", AddedIfNew(mem[p], b))

RegistryRemove(p, b) ==
    /\ pc[p] = "loaded"
    /\ b \in mem[p].bundles
    /\ Change(p, "changed", Removed(mem[p], b))

ProposeDiscriminator(p, r) ==
    /\ pc[p] = "loaded"
    /\ Change(p, "changed", Proposed(mem[p], r))

Stop(p) ==
    /\ pc' = [pc EXCEPT ![p] = "idle"]
    /\ mem' = [mem EXCEPT ![p] = NewRegistry]

\* write_registry: the file is replaced in one step.
Replace(p) ==
    /\ pc[p] \in {"adding", "importing", "changed"}
    /\ registry' = mem[p]
    /\ Stop(p)

\* The command is refused, is killed, or only looks.
End(p) == pc[p] # "idle" /\ Stop(p) /\ UNCHANGED registry

Next ==
    \E p \in Processes :
        \/ Load(p) \/ Replace(p) \/ End(p)
        \/ \E b \in Bundles :
            RegistryAdd(p, b) \/ ImportContribution(p, b) \/ RegistryRemove(p, b)
        \/ \E r \in Regions : ProposeDiscriminator(p, r)

Spec == Init /\ [][Next]_vars

-----------------------------------------------------------------------------
(* Safety: the review events are the history of the registry, so what the  *)
(* registry holds is checked against a replay of them.                     *)

\* The bundles active before event n, by the log.
ActiveBefore(log, n) ==
    {b \in Bundles : \E i \in 1..(n - 1) :
        /\ log[i] = Event("bundle-added", b)
        /\ \A j \in i..(n - 1) : log[j] # Event("bundle-removed", b)}

\* The declarations imported before event n, by the log.
DeclaredBefore(log, n) ==
    UNION {File[b].declarations : b \in
        {x \in Bundles : \E i \in 1..(n - 1) : log[i] = Event("bundle-added", x)}}

LogExplains(reg) ==
    LET log == reg.review_events IN
    /\ reg.bundles = ActiveBefore(log, Len(log) + 1)
    /\ reg.declarations = DeclaredBefore(log, Len(log) + 1)
    /\ \A n \in DOMAIN log : \A b \in Bundles :
            /\ log[n] = Event("bundle-added", b) => b \notin ActiveBefore(log, n)
            /\ log[n] = Event("bundle-removed", b) => b \in ActiveBefore(log, n)

\* The log explains the registry: the active bundles and the declarations are
\* those of its replay, a bundle is added only while absent and removed only
\* while active ("audit event retained", evidence-registry.md).
LogExplainsRegistry == LogExplains(registry)

IndexIsExact(reg) ==
    /\ BundleDevices(reg.bundles) \subseteq DOMAIN reg.devices
    /\ \A dev \in DOMAIN reg.devices :
            reg.devices[dev].bundle_ids = BundlesOf(reg.bundles, dev)

\* A device record lists exactly the active bundles of its label, whatever was
\* added, merged and removed; a shared fingerprint merges no devices.
DeviceIndexExact == IndexIsExact(registry)

\* The events that brought a device a claim about its MCU.
Claims(log, dev) ==
    {i \in DOMAIN log : \E b \in Bundles :
        log[i] = Event("bundle-added", b) /\ File[b].device = dev /\ DeclaredMcu(b) # {}}

ClaimsStand(reg) ==
    \A dev \in DOMAIN reg.devices :
        LET claims == Claims(reg.review_events, dev)
            mcu == reg.devices[dev].declared_mcu
        IN  /\ claims = {} <=> mcu = {}
            /\ \A i \in claims : (\A j \in claims : i <= j) =>
                    mcu = DeclaredMcu(reg.review_events[i].subject)

\* The declared MCU of a device is what the first bundle with a claim said,
\* even after that bundle was removed and others contradict it.
FirstClaimStands == ClaimsStand(registry)

ProposedAt(log, r) == {i \in DOMAIN log : log[i] = Event("candidate-proposed", r)}

CandidatesOf(reg, r) == {c \in reg.candidates : c.region = r}

AreSnapshots(reg) ==
    \A r \in Regions :
        LET log == reg.review_events
            proposals == ProposedAt(log, r)
        IN  /\ proposals = {} => CandidatesOf(reg, r) = {}
            /\ \A last \in proposals : (\A j \in proposals : j <= last) =>
                    CandidatesOf(reg, r) =
                        {Candidate(ActiveBefore(log, last), DeclaredBefore(log, last), r)}

\* A region has one candidate, and it is what the evidence of the moment it
\* was last proposed supports; it may be stale now but it was never wrong.
CandidatesAreSnapshots == AreSnapshots(registry)

\* A contradiction between declarations of one device is never cleared, not
\* even by removing the bundles that made it, and events are only appended.
ConflictsAreNeverCleared ==
    [][/\ IsPrefix(registry.review_events, registry'.review_events)
       /\ HardwareConflicts(registry.declarations)
            \subseteq HardwareConflicts(registry'.declarations)]_vars

-----------------------------------------------------------------------------
(* Refinement: the registry implements the view governance has of it.      *)

View == INSTANCE EvidenceView WITH
    bundles <- registry.bundles,
    declarations <- registry.declarations,
    candidates <- {[region |-> c.region, bundles |-> c.bundles] :
                        c \in registry.candidates}

\* Under a lock every command is one step of EvidenceView or none, however many
\* bundles it added; devices, the log and what is in memory are invisible.
ImplementsView == View!ViewSpec
=============================================================================
