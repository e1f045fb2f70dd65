---------------------------- MODULE AdvisoryProofs ----------------------------
(***************************************************************************)
(* Firmware advice, for all catalogs that load and all declarations.       *)
(***************************************************************************)
EXTENDS Advisory, FiniteSetTheorems, TLAPS

LEMMA Alone ==
    ASSUME NEW S, IsFiniteSet(S), NEW x \in S, Cardinality(S) <= 1
    PROVE  S = {x}
<1>1. Cardinality({x}) = 1 /\ IsFiniteSet({x})
  BY FS_Singleton
<1>2. Cardinality({x}) <= Cardinality(S) /\ (Cardinality({x}) = Cardinality(S) => {x} = S)
  BY FS_Subset
<1>3. Cardinality(S) \in Nat
  BY FS_CardinalityType
<1> QED BY <1>1, <1>2, <1>3

LEMMA OnlyOne ==
    ASSUME NEW S, IsFiniteSet(S), Cardinality(S) = 1
    PROVE  \E x \in S : S = {x}
<1>1. S # {}
  BY FS_EmptySet
<1>2. PICK x \in S : TRUE
  BY <1>1
<1> QED BY <1>2, Alone

\* What the loaders make sure of, as far as a verdict depends on it.
LEMMA CatalogFacts ==
    ASSUME NEW h \in HardwareCatalogs
    PROVE  /\ DOMAIN h \subseteq Nat
           /\ \A name : IsFiniteSet(Named(h, name)) /\ IsFiniteSet(Marked(h, name))
           /\ Named(h, None) = {} /\ Marked(h, None) = {}
<1>1. DOMAIN h \subseteq Ids /\ IsFiniteSet(DOMAIN h) /\ \A r \in DOMAIN h : h[r] \in Records
  BY AdvisoryAssumption
<1>2. ASSUME NEW name
      PROVE  IsFiniteSet(Named(h, name)) /\ IsFiniteSet(Marked(h, name))
  BY <1>1, FS_Subset DEF Named, Marked
<1>3. \A r \in DOMAIN h : h[r].revision \in Labels /\ h[r].markings \subseteq Labels
  BY <1>1 DEF Records
<1>4. None \notin Ids \cup Labels /\ Ids \subseteq Nat
  BY AdvisoryAssumption
<1> QED BY <1>1, <1>2, <1>3, <1>4 DEF Named, Marked, Names

\* A name that one record has means it; the first of one is it.
LEMMA FirstOfOne ==
    ASSUME NEW h \in HardwareCatalogs, NEW name, NEW r, Named(h, name) = {r}
    PROVE  RecordForRevision(h, name) = {r}
<1>1. r \in Nat
  BY CatalogFacts DEF Named
<1> QED BY <1>1 DEF RecordForRevision

-----------------------------------------------------------------------------
(* To one who declares nothing that is untrue.                             *)

\* The hardware that is meant is that of the radio, if any is.
LEMMA TrueDeclarationsMeanTheRadio ==
    ASSUME hardware \in HardwareCatalogs, NEW i, NEW r \in DOMAIN hardware,
           TrueOf(r, i), RevisionIsUnique(i)
    PROVE  /\ RecordForRevision(hardware, i.revision) \subseteq {r}
           /\ RecordForPcb(hardware, i.pcb) \subseteq {r}
           /\ i.revision # None => RecordForRevision(hardware, i.revision) = {r}
           /\ MarkingIsUnique(i) => RecordForPcb(hardware, i.pcb) = {r}
<1>1. i.revision # None => RecordForRevision(hardware, i.revision) = {r}
  <2> SUFFICES ASSUME i.revision # None PROVE RecordForRevision(hardware, i.revision) = {r}
    OBVIOUS
  <2>1. r \in Named(hardware, i.revision)
    BY DEF TrueOf, Named
  <2>2. Named(hardware, i.revision) = {r}
    BY <2>1, CatalogFacts, Alone DEF RevisionIsUnique
  <2> QED BY <2>2, FirstOfOne
<1>2. i.revision = None => RecordForRevision(hardware, i.revision) = {}
  BY CatalogFacts DEF RecordForRevision
<1>3. i.pcb = None => ~MarkingIsUnique(i) /\ RecordForPcb(hardware, i.pcb) = {}
  <2>1. Cardinality({}) = 0
    BY FS_EmptySet
  <2> QED BY <2>1, CatalogFacts DEF MarkingIsUnique, RecordForPcb
<1>4. ASSUME i.pcb # None, MarkingIsUnique(i)
      PROVE  RecordForPcb(hardware, i.pcb) = {r}
  <2>1. r \in Marked(hardware, i.pcb)
    BY <1>4 DEF TrueOf, Marked
  <2>2. Cardinality(Marked(hardware, i.pcb)) = 1
    BY <1>4 DEF MarkingIsUnique
  <2>3. Marked(hardware, i.pcb) = {r}
    BY <2>1, <2>2, CatalogFacts, Alone
  <2> QED BY <2>2, <2>3 DEF RecordForPcb
<1>5. ~MarkingIsUnique(i) => RecordForPcb(hardware, i.pcb) = {}
  BY DEF MarkingIsUnique, RecordForPcb
<1> QED BY <1>1, <1>2, <1>3, <1>4, <1>5

\* There is no conflict, and every entry is judged by the radio.
LEMMA TrueDeclarationsAreJudged ==
    ASSUME hardware \in HardwareCatalogs, NEW i, NEW r \in DOMAIN hardware,
           TrueOf(r, i), RevisionIsUnique(i), NEW e
    PROVE  LET verdict == Decision(e, hardware, i) IN
           /\ ~Conflicting(hardware, i)
           /\ verdict = "compatible-by-declared-hardware" =>
                /\ hardware[r].mcu \in e.mcus
                /\ i.revision # None \/ MarkingIsUnique(i) => r \notin e.unsupported
           /\ verdict = "incompatible" => hardware[r].mcu \notin e.mcus \/ r \in e.unsupported
<1>1. /\ RecordForRevision(hardware, i.revision) \subseteq {r}
      /\ RecordForPcb(hardware, i.pcb) \subseteq {r}
      /\ i.revision # None => RecordForRevision(hardware, i.revision) = {r}
      /\ MarkingIsUnique(i) => RecordForPcb(hardware, i.pcb) = {r}
  BY TrueDeclarationsMeanTheRadio
<1>2. /\ Revision(hardware, i) \subseteq {r}
      /\ i.revision # None \/ MarkingIsUnique(i) => Revision(hardware, i) = {r}
  BY <1>1 DEF Revision
<1>3. i.mcu \in {hardware[r].mcu, None}
  BY DEF TrueOf
<1>4. Mcu(hardware, i) \subseteq {hardware[r].mcu}
  BY <1>2, <1>3 DEF Mcu
<1>5. ~Conflicting(hardware, i)
  BY <1>1, <1>2, <1>3 DEF Conflicting
<1>6. ASSUME Decision(e, hardware, i) = "compatible-by-declared-hardware"
      PROVE  /\ hardware[r].mcu \in e.mcus
             /\ i.revision # None \/ MarkingIsUnique(i) => r \notin e.unsupported
  <2>1. ~Rejects(e, hardware, i) /\ Supports(e, hardware, i)
    BY <1>6 DEF Decision
  <2>2. hardware[r].mcu \in e.mcus
    BY <1>2, <1>4, <2>1 DEF Rejects, Supports
  <2>3. i.revision # None \/ MarkingIsUnique(i) => r \notin e.unsupported
    BY <1>2, <2>1 DEF Rejects
  <2> QED BY <2>2, <2>3
<1>7. ASSUME Decision(e, hardware, i) = "incompatible"
      PROVE  hardware[r].mcu \notin e.mcus \/ r \in e.unsupported
  <2>1. Rejects(e, hardware, i)
    BY <1>7 DEF Decision
  <2> QED BY <1>2, <1>4, <2>1 DEF Rejects
<1> QED BY <1>5, <1>6, <1>7

-----------------------------------------------------------------------------
(* Declarations that no hardware can satisfy.                              *)

LEMMA ContradictionsAreConflicts ==
    ASSUME hardware \in HardwareCatalogs, NEW i,
           i.revision # None \/ i.pcb # None,
           i.revision # None => Cardinality(Named(hardware, i.revision)) = 1,
           i.pcb # None => MarkingIsUnique(i),
           \A r \in DOMAIN hardware : ~TrueOf(r, i)
    PROVE  Conflicting(hardware, i)
<1>1. ASSUME i.revision # None
      PROVE  \E s \in DOMAIN hardware :
                /\ i.revision \in Names(hardware, s)
                /\ RecordForRevision(hardware, i.revision) = {s}
  <2>1. PICK s \in Named(hardware, i.revision) : Named(hardware, i.revision) = {s}
    BY <1>1, CatalogFacts, OnlyOne
  <2>2. s \in DOMAIN hardware /\ i.revision \in Names(hardware, s)
    BY <2>1 DEF Named
  <2> QED BY <2>1, <2>2, FirstOfOne
<1>2. ASSUME i.pcb # None
      PROVE  \E p \in DOMAIN hardware :
                i.pcb \in hardware[p].markings /\ RecordForPcb(hardware, i.pcb) = {p}
  <2>1. Cardinality(Marked(hardware, i.pcb)) = 1
    BY <1>2 DEF MarkingIsUnique
  <2>2. PICK p \in Marked(hardware, i.pcb) : Marked(hardware, i.pcb) = {p}
    BY <2>1, CatalogFacts, OnlyOne
  <2> QED BY <2>1, <2>2 DEF Marked, RecordForPcb
<1>3. i.revision = None => RecordForRevision(hardware, i.revision) = {}
  BY CatalogFacts DEF RecordForRevision
<1>4. CASE i.revision # None
  <2>1. PICK s \in DOMAIN hardware :
          /\ i.revision \in Names(hardware, s)
          /\ RecordForRevision(hardware, i.revision) = {s}
    BY <1>1, <1>4
  <2>2. Revision(hardware, i) = {s}
    BY <2>1 DEF Revision
  <2>3. CASE i.pcb \in hardware[s].markings \cup {None}
    <3>1. i.mcu \notin {None, hardware[s].mcu}
      BY <2>1, <2>3 DEF TrueOf
    <3> QED BY <2>2, <3>1 DEF Conflicting
  <2>4. CASE i.pcb \notin hardware[s].markings \cup {None}
    BY <1>2, <2>1, <2>4 DEF Conflicting
  <2> QED BY <2>3, <2>4
<1>5. CASE i.revision = None
  <2>1. PICK p \in DOMAIN hardware :
          i.pcb \in hardware[p].markings /\ RecordForPcb(hardware, i.pcb) = {p}
    BY <1>2, <1>5
  <2>2. Revision(hardware, i) = {p}
    BY <1>3, <1>5, <2>1 DEF Revision
  <2>3. i.mcu \notin {None, hardware[p].mcu}
    BY <1>5, <2>1 DEF TrueOf
  <2> QED BY <2>2, <2>3 DEF Conflicting
<1> QED BY <1>4, <1>5

-----------------------------------------------------------------------------
(* The command.                                                            *)

AdvisoryInv ==
    /\ hardware \in HardwareCatalogs
    /\ advice.made =>
        /\ advice = BuildAdvisory(hardware, firmware, advice.input)
        /\ exit = IF advice.conflicting THEN 2 ELSE 0

\* The command ends with its advice.
LEMMA AdvisoryInit == Init => AdvisoryInv
BY DEF Init, AdvisoryInv, NoAdvice

LEMMA AdvisoryStep == AdvisoryInv /\ [Next]_vars => AdvisoryInv'
<1> SUFFICES ASSUME AdvisoryInv, [Next]_vars PROVE AdvisoryInv'
  OBVIOUS
<1>1. CASE CaptureRefused \/ CatalogRefused
  <2>1. exit = None /\ hardware' = hardware /\ advice' = advice
    BY <1>1 DEF CaptureRefused, CatalogRefused
  <2>2. None \notin {0, 2}
    BY AdvisoryAssumption DEF Exits
  <2>3. ~advice.made
    BY <2>1, <2>2 DEF AdvisoryInv
  <2> QED BY <2>1, <2>3 DEF AdvisoryInv
<1>2. ASSUME NEW i \in Inputs, FirmwareAdvice(i) PROVE AdvisoryInv'
  <2>1. /\ advice' = BuildAdvisory(hardware, firmware, i)
        /\ exit' = IF advice'.conflicting THEN 2 ELSE 0
        /\ hardware' = hardware /\ firmware' = firmware
    BY <1>2 DEF FirmwareAdvice
  <2>2. advice'.input = i
    BY <2>1 DEF BuildAdvisory
  <2>3. advice' = BuildAdvisory(hardware', firmware', advice'.input)
    BY <2>1, <2>2
  <2> QED BY <2>1, <2>3 DEF AdvisoryInv
<1>3. CASE UNCHANGED vars
  BY <1>3 DEF vars, AdvisoryInv
<1> QED BY <1>1, <1>2, <1>3 DEF Next

\* For all catalogs that load: if what is declared is true of a radio, and no
\* revision is declared by a name that several records share, then it is in no
\* conflict and the verdicts are true of that radio; except that firmware
\* called compatible is only claimed not to exclude the radio if a revision was
\* declared, or a marking of one record (of an MCU alone it says nothing).
THEOREM VerdictsAreTrue == Spec => []VerdictsAreTrueOfTheRadio
<1>1. AdvisoryInv => VerdictsAreTrueOfTheRadio
  <2> SUFFICES ASSUME AdvisoryInv, advice.made, NEW r \in DOMAIN hardware,
                      TrueOf(r, advice.input), RevisionIsUnique(advice.input)
               PROVE  /\ ~advice.conflicting
                      /\ \A e \in firmware :
                          /\ advice.verdict[e] = "compatible-by-declared-hardware" =>
                              /\ hardware[r].mcu \in e.mcus
                              /\ advice.input.revision # None \/ MarkingIsUnique(advice.input)
                                    => r \notin e.unsupported
                          /\ advice.verdict[e] = "incompatible" =>
                              hardware[r].mcu \notin e.mcus \/ r \in e.unsupported
    BY DEF VerdictsAreTrueOfTheRadio
  <2> DEFINE i == advice.input
  <2>1. /\ hardware \in HardwareCatalogs
        /\ advice.conflicting = Conflicting(hardware, i)
        /\ \A e \in firmware : advice.verdict[e] = Decision(e, hardware, i)
    BY DEF AdvisoryInv, BuildAdvisory
  <2> HIDE DEF i
  <2>2. TrueOf(r, i) /\ RevisionIsUnique(i)
    BY DEF i
  <2>3. ~Conflicting(hardware, i)
    BY <2>1, <2>2, TrueDeclarationsAreJudged
  <2>4. ASSUME NEW e \in firmware
        PROVE  /\ advice.verdict[e] = "compatible-by-declared-hardware" =>
                    /\ hardware[r].mcu \in e.mcus
                    /\ i.revision # None \/ MarkingIsUnique(i) => r \notin e.unsupported
               /\ advice.verdict[e] = "incompatible" =>
                    hardware[r].mcu \notin e.mcus \/ r \in e.unsupported
    BY <2>1, <2>2, TrueDeclarationsAreJudged
  <2> QED BY <2>1, <2>3, <2>4 DEF i
<1> QED BY AdvisoryInit, AdvisoryStep, <1>1, PTL DEF Spec

\* Declarations that are understood (a revision or a marking at least, each that
\* of exactly one record) and that no hardware of the catalog satisfies get no
\* verdict from any entry, and the command does not succeed.  A name or marking
\* that no record has, or several, is not covered: beside it others still count.
THEOREM ContradictionsGetNoVerdict == Spec => []ContradictionsAreNotResolved
<1>1. AdvisoryInv => ContradictionsAreNotResolved
  <2> SUFFICES ASSUME AdvisoryInv, advice.made,
                      advice.input.revision # None \/ advice.input.pcb # None,
                      advice.input.revision # None =>
                        Cardinality(Named(hardware, advice.input.revision)) = 1,
                      advice.input.pcb # None => MarkingIsUnique(advice.input),
                      \A r \in DOMAIN hardware : ~TrueOf(r, advice.input)
               PROVE  /\ \A e \in firmware : advice.verdict[e] = "conflicting-evidence"
                      /\ {advice.revision, advice.mcu, advice.compatibility} = {"conflicting"}
                      /\ exit = 2
    BY DEF ContradictionsAreNotResolved
  <2> DEFINE i == advice.input
  <2>1. Conflicting(hardware, i)
    BY ContradictionsAreConflicts DEF AdvisoryInv
  <2>2. /\ advice.conflicting = Conflicting(hardware, i)
        /\ advice.revision = RevisionScope(hardware, i)
        /\ advice.mcu = McuScope(hardware, i)
        /\ \A e \in firmware : advice.verdict[e] = Decision(e, hardware, i)
        /\ Conflicting(hardware, i) => advice.compatibility = "conflicting"
    BY DEF AdvisoryInv, BuildAdvisory
  <2>3. exit = 2
    BY <2>1, <2>2 DEF AdvisoryInv
  <2> HIDE DEF i
  <2> QED BY <2>1, <2>2, <2>3 DEF RevisionScope, McuScope, Decision
<1> QED BY AdvisoryInit, AdvisoryStep, <1>1, PTL DEF Spec
=============================================================================
