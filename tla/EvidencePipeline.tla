--------------------------- MODULE EvidencePipeline ---------------------------
(***************************************************************************)
(* From captures to candidates: the commands that export bundles, pack     *)
(* them into a contribution, add and import them to a registry file and    *)
(* propose a discriminator on it (cli.py, contribution.py,                 *)
(* evidence_registry.py), run side by side and killed at any point.        *)
(*                                                                         *)
(* A command reads its inputs one after the other while other commands and *)
(* anybody else replace them; the replacement of a file is one step.       *)
(* contribution-create and registry-add open a bundle twice, an import its *)
(* package.  ExternalLock says whether the callers let one command at a    *)
(* time work on the registry (public-api.md).                              *)
(*                                                                         *)
(* EvidenceRegistry has the devices, declarations and conflicts of a       *)
(* registry; here it is its bundles, candidates and events.                *)
(***************************************************************************)
EXTENDS Contribution

CONSTANTS
    Processes,          \* commands that run side by side
    ExportLists,        \* the captures an export may be given, in order
    BundlePaths,
    FoundBundles,       \* what others leave at the bundle paths
    FoundPackages,      \* packages that others made, damaged or not
    DeclarationLists,   \* declarations a contribution may carry
    DeviceLabels,       \* what registry-add is given for a radio, or NoLabel
    Regions,            \* offsets of discriminators, of length one
    ExternalLock,
    MaxEvents           \* bound: review events

VARIABLES
    bundles,    \* the bundle files
    package,    \* the contribution package
    registry,   \* the registry file
    pc,         \* where each command stands
    todo,       \* what it still has to add or pack
    packed,     \* the bundles it has packed
    mem,        \* the registry it has in memory
    ours        \* the package is one that contribution-create made

vars == <<bundles, package, registry, pc, todo, packed, mem, ours>>

\* read_capture takes only sound captures.
ASSUME PipelineAssumption ==
    /\ ExportLists \subseteq Seq(Captures) \ {<< >>}
    /\ \A captures \in ExportLists : \A i \in DOMAIN captures : captures[i].sound
    /\ FoundBundles \subseteq Bundles \cup {NoBundle}
    /\ FoundPackages \subseteq Packages \cup {NoPackage}
    /\ DeclarationLists \subseteq Seq(Declarations)
    /\ DeviceLabels \subseteq Labels \cup {NoLabel}
    /\ Regions \subseteq Nat /\ MaxEvents \in Nat /\ ExternalLock \in BOOLEAN

CandidateRecords ==
    [offset : Regions, bundles : SUBSET Bundles, values : SUBSET Octets]

Events ==
    [action : {"bundle-added", "bundle-removed"}, subject : Bundles]
        \cup [action : {"candidate-proposed"}, subject : Regions]

\* imported: the bundles with a contribution_id.
Registries ==
    [bundles : SUBSET Bundles, imported : SUBSET Bundles,
     candidates : SUBSET CandidateRecords, events : Seq(Events)]

NewRegistry == [bundles |-> {}, imported |-> {}, candidates |-> {}, events |-> << >>]

\* What is still to be added comes with the label of its radio.
Files == [path : BundlePaths, label : Labels \cup {NoLabel}]
Additions == [bundle : Bundles, label : Labels \cup {NoLabel}]

OnRegistry == {"loaded", "adding", "valid", "planning", "importing", "changed"}
Steps == {"idle", "packing", "checked"} \cup OnRegistry

TypeOK ==
    /\ bundles \in [BundlePaths -> Bundles \cup {NoBundle}]
    /\ package \in Packages \cup {NoPackage}
    /\ registry \in Registries
    /\ pc \in [Processes -> Steps]
    /\ todo \in [Processes -> Seq(BundlePaths) \cup Seq(Files) \cup Seq(Additions)]
    /\ packed \in [Processes -> Seq(Bundles)]
    /\ mem \in [Processes -> Registries]
    /\ ours \in BOOLEAN

-----------------------------------------------------------------------------
(* Registry to registry.                                                   *)

\* The captures are not labelled with several radios, and the declarations,
\* if they get a radio, are whole.
Recordable(b, label) ==
    /\ Cardinality(SourceLabels(b)) <= 1
    /\ label # NoLabel \/ (\E i \in DOMAIN b.captures : Label(b.captures[i]) # NoLabel) =>
            \A i \in DOMAIN b.declarations : b.declarations[i].complete

\* Faulty variant of Addable: what a review passed is not looked at again.
AddableAsReviewed(b, label) == Recordable(b, label)

\* add_evidence_bundle of a file that nobody else has.
Addable(b, label) == ValidateBundle(b) /\ Recordable(b, label)

Event(action, subject) == [action |-> action, subject |-> subject]

Added(reg, b) ==
    [reg EXCEPT !.bundles = @ \cup {b}, !.events = Append(@, Event("bundle-added", b))]

\* A duplicate is skipped.
Imported(reg, b) ==
    IF b \in reg.bundles THEN reg
    ELSE [Added(reg, b) EXCEPT !.imported = @ \cup {b}]

Removed(reg, b) ==
    [reg EXCEPT !.bundles = @ \ {b}, !.imported = @ \ {b},
                !.events = Append(@, Event("bundle-removed", b))]

Candidate(reg, offset) ==
    LET supporting == {b \in reg.bundles : RegionValues(b, offset) # {}} IN
    [offset |-> offset, bundles |-> supporting,
     values |-> UNION {RegionValues(b, offset) : b \in supporting}]

Proposed(reg, offset) ==
    [reg EXCEPT !.candidates = {c \in @ : c.offset # offset} \cup {Candidate(reg, offset)},
                !.events = Append(@, Event("candidate-proposed", offset))]

-----------------------------------------------------------------------------
Init ==
    /\ bundles \in [BundlePaths -> FoundBundles]
    /\ package \in FoundPackages
    /\ registry = NewRegistry
    /\ pc = [p \in Processes |-> "idle"]
    /\ todo = [p \in Processes |-> << >>]
    /\ packed = [p \in Processes |-> << >>]
    /\ mem = [p \in Processes |-> NewRegistry]
    /\ ours = FALSE

Goto(p, step) == pc' = [pc EXCEPT ![p] = step]

\* The end of a command, done, refused or killed; it forgets everything.
Stop(p) ==
    /\ Goto(p, "idle")
    /\ todo' = [todo EXCEPT ![p] = << >>]
    /\ packed' = [packed EXCEPT ![p] = << >>]
    /\ mem' = [mem EXCEPT ![p] = NewRegistry]

\* evidence-export: a bundle takes the place of what was at its path.
Export(path, captures) ==
    /\ bundles' = [bundles EXCEPT ![path] = Exported(captures)]
    /\ UNCHANGED <<package, registry, pc, todo, packed, mem, ours>>

\* Others replace a bundle file, damage it or take it away.
Overwrite(path) ==
    /\ \E b \in FoundBundles : bundles' = [bundles EXCEPT ![path] = b]
    /\ UNCHANGED <<package, registry, pc, todo, packed, mem, ours>>

\* A package comes from elsewhere, over the one that is there.
Receive ==
    /\ package' \in FoundPackages
    /\ ours' = FALSE
    /\ UNCHANGED <<bundles, registry, pc, todo, packed, mem>>

Paths == {<<x>> : x \in BundlePaths} \cup {<<x, y>> : x, y \in BundlePaths}

-----------------------------------------------------------------------------
(* contribution-create.                                                    *)

StartPacking(p) ==
    /\ pc[p] = "idle"
    /\ \E paths \in Paths : todo' = [todo EXCEPT ![p] = paths]
    /\ Goto(p, "packing")
    /\ UNCHANGED <<bundles, package, registry, packed, mem, ours>>

\* validate_bundle reads the file; one that is not valid ends the command...
Check(p) ==
    /\ pc[p] = "packing" /\ todo[p] # << >>
    /\ ValidateBundle(bundles[Head(todo[p])])
    /\ Goto(p, "checked")
    /\ UNCHANGED <<bundles, package, registry, todo, packed, mem, ours>>

\* ... and what is packed is read again, and is not looked at any more.
Pack(p) ==
    /\ pc[p] = "checked" /\ bundles[Head(todo[p])] # NoBundle
    /\ packed' = [packed EXCEPT ![p] = Packed(@, bundles[Head(todo[p])])]
    /\ todo' = [todo EXCEPT ![p] = Tail(@)]
    /\ Goto(p, "packing")
    /\ UNCHANGED <<bundles, package, registry, mem, ours>>

PlacePackage(p) ==
    /\ pc[p] = "packing" /\ todo[p] = << >>
    /\ \E declarations \in DeclarationLists, notes \in {"text", "url"} :
            package' = Contribution(packed[p], declarations, notes)
    /\ ours' = TRUE
    /\ Stop(p)
    /\ UNCHANGED <<bundles, registry>>

-----------------------------------------------------------------------------
(* The commands on the registry.                                           *)

Load(p) ==
    /\ pc[p] = "idle"
    /\ ExternalLock => \A q \in Processes : pc[q] \notin OnRegistry
    /\ Goto(p, "loaded")
    /\ mem' = [mem EXCEPT ![p] = registry]
    /\ UNCHANGED <<bundles, package, registry, todo, packed, ours>>

StartAdding(p) ==
    /\ pc[p] = "loaded"
    /\ \E paths \in Paths, label \in DeviceLabels :
            todo' = [todo EXCEPT ![p] = [i \in DOMAIN paths |-> [path |-> paths[i], label |-> label]]]
    /\ Goto(p, "adding")
    /\ UNCHANGED <<bundles, package, registry, packed, mem, ours>>

\* _bundle_record validates the file...
Validate(p) ==
    /\ pc[p] = "adding" /\ todo[p] # << >>
    /\ ValidateBundle(bundles[Head(todo[p]).path])
    /\ Goto(p, "valid")
    /\ UNCHANGED <<bundles, package, registry, todo, packed, mem, ours>>

\* ... and reads it again: only its labels and declarations are still looked
\* at.  A duplicate ends the command.
Add(p) ==
    /\ pc[p] = "valid" /\ Len(mem[p].events) < MaxEvents
    /\ LET b == bundles[Head(todo[p]).path] IN
        /\ b # NoBundle /\ Recordable(b, Head(todo[p]).label)
        /\ b \notin mem[p].bundles
        /\ mem' = [mem EXCEPT ![p] = Added(@, b)]
    /\ todo' = [todo EXCEPT ![p] = Tail(@)]
    /\ Goto(p, "adding")
    /\ UNCHANGED <<bundles, package, registry, packed, ours>>

\* registry-import-contribution reviews the package...
Review(p) ==
    /\ pc[p] = "loaded"
    /\ Classification(package) # "rejected"
    /\ Goto(p, "planning")
    /\ UNCHANGED <<bundles, package, registry, todo, packed, mem, ours>>

\* ... and opens it again: if it is another by now, it must have what its own
\* manifest names, and no more than that is looked at.
Reopen(p) ==
    /\ pc[p] = "planning"
    /\ package.archive
    /\ \A i \in DOMAIN package.manifest :
        /\ Named(package, package.manifest[i]) # {}
        /\ Content(package, package.manifest[i]) # NoBundle
    /\ todo' = [todo EXCEPT ![p] = Planned(package)]
    /\ Goto(p, "importing")
    /\ UNCHANGED <<bundles, package, registry, packed, mem, ours>>

\* What was unpacked is validated as it is added.
Import(p) ==
    /\ pc[p] = "importing" /\ todo[p] # << >>
    /\ Len(mem[p].events) < MaxEvents
    /\ LET add == Head(todo[p]) IN
        /\ Addable(add.bundle, add.label)
        /\ mem' = [mem EXCEPT ![p] = Imported(@, add.bundle)]
    /\ todo' = [todo EXCEPT ![p] = Tail(@)]
    /\ UNCHANGED <<bundles, package, registry, pc, packed, ours>>

RemoveBundle(p) ==
    /\ pc[p] = "loaded"
    /\ Len(mem[p].events) < MaxEvents
    /\ \E b \in mem[p].bundles : mem' = [mem EXCEPT ![p] = Removed(@, b)]
    /\ Goto(p, "changed")
    /\ UNCHANGED <<bundles, package, registry, todo, packed, ours>>

Propose(p) ==
    /\ pc[p] = "loaded"
    /\ Len(mem[p].events) < MaxEvents
    /\ \E offset \in Regions : mem' = [mem EXCEPT ![p] = Proposed(@, offset)]
    /\ Goto(p, "changed")
    /\ UNCHANGED <<bundles, package, registry, todo, packed, ours>>

\* write_registry, when there is nothing left to add.
Replace(p) ==
    /\ pc[p] = "changed" \/ (pc[p] \in {"adding", "importing"} /\ todo[p] = << >>)
    /\ registry' = mem[p]
    /\ Stop(p)
    /\ UNCHANGED <<bundles, package, ours>>

\* A command is refused, is killed, or only looks: a dry run.
End(p) ==
    /\ pc[p] # "idle"
    /\ Stop(p)
    /\ UNCHANGED <<bundles, package, registry, ours>>

Next ==
    \/ \E path \in BundlePaths, captures \in ExportLists : Export(path, captures)
    \/ \E path \in BundlePaths : Overwrite(path)
    \/ Receive
    \/ \E p \in Processes :
        \/ StartPacking(p) \/ Check(p) \/ Pack(p) \/ PlacePackage(p)
        \/ Load(p)
        \/ StartAdding(p) \/ Validate(p) \/ Add(p)
        \/ Review(p) \/ Reopen(p) \/ Import(p)
        \/ RemoveBundle(p) \/ Propose(p)
        \/ Replace(p) \/ End(p)

Spec == Init /\ [][Next]_vars

-----------------------------------------------------------------------------
(* Safety.                                                                 *)

\* No bundle in the registry is of two radios; and whatever happens to a
\* package between its review and its import, one that was imported is valid.
\* Of a bundle that registry-add took this cannot be said: it is validated
\* first and read again afterwards.
ImportedEvidenceIsSound ==
    /\ \A b \in registry.bundles : Cardinality(SourceLabels(b)) <= 1
    /\ \A b \in registry.imported : b \in registry.bundles /\ ValidateBundle(b)

Undeclared(b) == [b EXCEPT !.declarations = << >>]

\* What was observed in a capture, whenever and of whichever radio.
Observed(c) == <<c.response, c.checksum, c.protocol>>

SameEvidence(cs, ds) == {Observed(c) : c \in Range(cs)} = {Observed(d) : d \in Range(ds)}

\* As many captures, each one of cs.
Retold(cs) == [DOMAIN cs -> Range(cs)]

\* "Timestamps, ..., user labels, and variable payload values do not
\* contribute" (electronic-fingerprints.md): a registered export has the
\* fingerprint of its captures as they were before they lost labels and times,
\* and of any others in which the same was observed, however often; their
\* order matters for the protocol alone, and there it does.
FingerprintsAreOfTheEvidence ==
    \A b \in registry.bundles, exported \in ExportLists :
        Undeclared(b) = Exported(exported) =>
            \A captures \in Retold(exported) :
                SameEvidence(exported, captures) =>
                    (b.fingerprint = Fingerprint(captures)
                        <=> Protocol(exported) = Protocol(captures))

\* A package that contribution-create made is rejected by the review exactly
\* when its notes begin with an address or one of its bundles was replaced by
\* an invalid one between its validation and its packing; no choice or order
\* of bundles makes one that is refused.
OwnContributionsAreSafe ==
    ours => (Classification(package) = "rejected" <=>
                \/ package.notes = "url"
                \/ \E b \in Range(package.manifest) : ~ValidateBundle(b))

-----------------------------------------------------------------------------
(* What the documentation says and the code does not do; refuted.          *)

\* "A registry candidate records ... decoded response region, ..., observed
\* values" (discriminator-review.md).
CandidateValuesWereObserved ==
    \A candidate \in registry.candidates : \A v \in candidate.values :
        \E b \in candidate.bundles : \E i \in DOMAIN b.captures :
            LET payload == Payload(b.captures[i]) IN
            candidate.offset \in DOMAIN payload /\ payload[candidate.offset] = v
=============================================================================
