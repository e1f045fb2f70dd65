-------------------------------- MODULE Advisory --------------------------------
(***************************************************************************)
(* Firmware advice (drivers/quansheng/advisory.py) from the packaged       *)
(* catalogs (catalog.py) and from what the owner of a radio declares about *)
(* it.  Nothing that is received from the radio takes part in a verdict.   *)
(*                                                                         *)
(* A behaviour is one firmware-advice command.  Texts are compared after   *)
(* _normalize, so a name stands for all the spellings of it.               *)
(***************************************************************************)
EXTENDS Naturals, FiniteSets

CONSTANTS
    Ids,               \* ids of hardware records, numbered in their sorted order
    Labels,            \* revisions and PCB markings
    KnownMcus,         \* KNOWN_MCUS
    Mcus,              \* those that a file or an owner may name
    HardwareCatalogs,  \* contents of hardware_catalog.json
    FirmwareCatalogs,  \* contents of firmware_catalog.json: sets of entries
    None               \* what is not declared

VARIABLES
    hardware,          \* the packaged hardware records, by id
    firmware,          \* the packaged firmware entries
    advice,            \* the advice of the command
    exit               \* its exit code, or None

vars == <<hardware, firmware, advice, exit>>

Exits == {0, 2, 3}

\* The sets that the fields of a file are drawn from.
Records ==
    [revision : Labels, markings : SUBSET Labels \ {{}}, mcu : Mcus]

ASSUME AdvisoryAssumption ==
    /\ Ids \subseteq Nat /\ Ids \cap Labels = {}
    /\ None \notin Ids \cup Labels \cup Mcus \cup Exits
    /\ KnownMcus \subseteq Mcus
    /\ \A h \in HardwareCatalogs :
        /\ DOMAIN h \subseteq Ids /\ IsFiniteSet(DOMAIN h)
        /\ \A r \in DOMAIN h : h[r] \in Records
    /\ \A f \in FirmwareCatalogs : \A e \in f : e.mcus \subseteq Mcus

\* What an owner may declare; a marketed model decides nothing.
Inputs ==
    [revision : Ids \cup Labels \cup {None}, pcb : Labels \cup {None}, mcu : Mcus \cup {None}]

NoAdvice == [made |-> FALSE]

-----------------------------------------------------------------------------
(* The catalogs.                                                           *)

LoadsHardware(h) == \A r \in DOMAIN h : h[r].mcu \in KnownMcus

LoadsEntry(h, e) ==
    /\ e.mcus \subseteq KnownMcus
    /\ e.supported \cup e.unsupported \subseteq DOMAIN h
    /\ e.supported \cap e.unsupported = {}

\* A project has no more than one entry for a revision.
LoadsFirmware(h, f) ==
    /\ LoadsHardware(h)
    /\ \A e \in f : LoadsEntry(h, e)
    /\ \A e1, e2 \in f :
        e1.project = e2.project /\ e1.supported \cap e2.supported # {} => e1 = e2

-----------------------------------------------------------------------------
(* The hardware that a declaration means: a set of one record or of none.  *)

Names(h, r) == {r, h[r].revision} \cup h[r].markings

Named(h, name) == {r \in DOMAIN h : name \in Names(h, r)}

Marked(h, marking) == {r \in DOMAIN h : marking \in h[r].markings}

\* The first record of that name.
RecordForRevision(h, name) ==
    {r \in Named(h, name) : \A s \in Named(h, name) : r <= s}

\* The only record with that marking.
RecordForPcb(h, marking) ==
    IF Cardinality(Marked(h, marking)) = 1 THEN Marked(h, marking) ELSE {}

\* The declared revision goes before the marking.
Revision(h, i) ==
    LET supplied == RecordForRevision(h, i.revision) IN
    IF supplied # {} THEN supplied ELSE RecordForPcb(h, i.pcb)

Mcu(h, i) == IF i.mcu # None THEN {i.mcu} ELSE {h[r].mcu : r \in Revision(h, i)}

\* Faulty variant of Conflicting: the marking is not compared with the revision.
ConflictingMcu(h, i) == \E r \in Revision(h, i) : i.mcu \notin {None, h[r].mcu}

Conflicting(h, i) ==
    \/ \E s \in RecordForRevision(h, i.revision), p \in RecordForPcb(h, i.pcb) : s # p
    \/ \E r \in Revision(h, i) : i.mcu \notin {None, h[r].mcu}

Declared(i) == i.revision # None \/ i.pcb # None \/ i.mcu # None

-----------------------------------------------------------------------------
(* The advice.                                                             *)

\* Faulty variant of Rejects: an unsupported revision with a supported MCU passes.
RejectsMcu(e, h, i) == \E m \in Mcu(h, i) : m \notin e.mcus

Rejects(e, h, i) ==
    \/ \E r \in Revision(h, i) : r \in e.unsupported \/ h[r].mcu \notin e.mcus
    \/ \E m \in Mcu(h, i) : m \notin e.mcus

Supports(e, h, i) == Revision(h, i) \cap e.supported # {} \/ Mcu(h, i) \cap e.mcus # {}

Decision(e, h, i) ==
    IF Conflicting(h, i) THEN "conflicting-evidence"
    ELSE IF Rejects(e, h, i) THEN "incompatible"
    ELSE IF Declared(i) /\ Supports(e, h, i) THEN "compatible-by-declared-hardware"
    ELSE "unknown"

RevisionScope(h, i) ==
    IF Conflicting(h, i) THEN "conflicting"
    ELSE IF i.pcb # None /\ RecordForPcb(h, i.pcb) # {} THEN "database-inference"
    ELSE IF i.revision # None THEN "user-supplied" ELSE "unknown"

McuScope(h, i) ==
    IF Conflicting(h, i) THEN "conflicting"
    ELSE IF i.mcu # None THEN "user-supplied"
    ELSE IF Revision(h, i) # {} THEN "database-inference" ELSE "unknown"

\* Scopes of the capture (transport, protocol, firmware) and of the model
\* concern nothing but themselves and are left out.
BuildAdvisory(h, f, i) ==
    LET verdict == [e \in f |-> Decision(e, h, i)] IN
    [made |-> TRUE, input |-> i, verdict |-> verdict, conflicting |-> Conflicting(h, i),
     revision |-> RevisionScope(h, i), mcu |-> McuScope(h, i),
     compatibility |->
        IF Conflicting(h, i) THEN "conflicting"
        ELSE IF \E e \in f : verdict[e] = "compatible-by-declared-hardware"
             THEN "user-supplied" ELSE "unknown"]

-----------------------------------------------------------------------------
(* The command.                                                            *)

Init ==
    /\ hardware \in HardwareCatalogs
    /\ firmware \in FirmwareCatalogs
    /\ advice = NoAdvice
    /\ exit = None

\* The capture cannot be read, or a catalog is refused.
CaptureRefused ==
    /\ exit = None
    /\ exit' = 3
    /\ UNCHANGED <<hardware, firmware, advice>>

CatalogRefused ==
    /\ exit = None
    /\ ~LoadsFirmware(hardware, firmware)
    /\ exit' = 3
    /\ UNCHANGED <<hardware, firmware, advice>>

FirmwareAdvice(i) ==
    /\ exit = None
    /\ LoadsFirmware(hardware, firmware)
    /\ advice' = BuildAdvisory(hardware, firmware, i)
    /\ exit' = IF advice'.conflicting THEN 2 ELSE 0
    /\ UNCHANGED <<hardware, firmware>>

Next == CaptureRefused \/ CatalogRefused \/ \E i \in Inputs : FirmwareAdvice(i)

Spec == Init /\ [][Next]_vars

-----------------------------------------------------------------------------
(* Properties: the advice against the radio that is declared, of which the *)
(* program sees nothing.                                                   *)

\* What is declared is true of a radio with the hardware r.
TrueOf(r, i) ==
    /\ i.revision \in Names(hardware, r) \cup {None}
    /\ i.pcb \in hardware[r].markings \cup {None}
    /\ i.mcu \in {hardware[r].mcu, None}

\* No other hardware has the name that is declared for the revision.
RevisionIsUnique(i) == Cardinality(Named(hardware, i.revision)) <= 1

MarkingIsUnique(i) == Cardinality(Marked(hardware, i.pcb)) = 1

\* To one who declares nothing that is untrue, and no revision by a name that
\* several have, the advice speaks the truth: firmware it calls compatible
\* supports his MCU and does not exclude his revision, unless he named the MCU
\* alone; firmware it calls incompatible does not support one of them; and it
\* finds no conflict (build_advisory and _entry_decision, whose order of
\* reasons matters).
VerdictsAreTrueOfTheRadio ==
    advice.made =>
        LET i == advice.input IN
        \A r \in DOMAIN hardware :
            TrueOf(r, i) /\ RevisionIsUnique(i) =>
                /\ ~advice.conflicting
                /\ \A e \in firmware :
                    /\ advice.verdict[e] = "compatible-by-declared-hardware" =>
                        /\ hardware[r].mcu \in e.mcus
                        /\ i.revision # None \/ MarkingIsUnique(i) => r \notin e.unsupported
                    /\ advice.verdict[e] = "incompatible" =>
                        hardware[r].mcu \notin e.mcus \/ r \in e.unsupported

\* Declarations that are understood, and that no hardware of the catalog can
\* satisfy together, are never resolved: no firmware gets a verdict, no scope
\* keeps its confidence, and the command does not succeed (build_advisory,
\* firmware_advice_command).
ContradictionsAreNotResolved ==
    advice.made =>
        LET i == advice.input
            understood ==
                /\ i.revision # None \/ i.pcb # None
                /\ i.revision # None => Cardinality(Named(hardware, i.revision)) = 1
                /\ i.pcb # None => MarkingIsUnique(i)
        IN  understood /\ (\A r \in DOMAIN hardware : ~TrueOf(r, i)) =>
                /\ \A e \in firmware : advice.verdict[e] = "conflicting-evidence"
                /\ {advice.revision, advice.mcu, advice.compatibility} = {"conflicting"}
                /\ exit = 2
=============================================================================
