------------------------ MODULE EvidenceRegistryProofs ------------------------
(***************************************************************************)
(* Theorems about EvidenceRegistry, for any number of commands, bundles,   *)
(* radios, regions and events.                                             *)
(***************************************************************************)
EXTENDS EvidenceRegistry, TLAPS

-----------------------------------------------------------------------------
(* The log.                                                                *)

\* An event goes behind those of a log and leaves them as they are.
LEMMA AppendFacts ==
    ASSUME NEW S, NEW log \in Seq(S), NEW e \in S
    PROVE  /\ Append(log, e) \in Seq(S)
           /\ Len(log) \in Nat
           /\ Len(Append(log, e)) = Len(log) + 1
           /\ DOMAIN log = 1..Len(log)
           /\ DOMAIN Append(log, e) = 1..(Len(log) + 1)
           /\ \A i \in 1..Len(log) : Append(log, e)[i] = log[i]
           /\ Append(log, e)[Len(log) + 1] = e
OBVIOUS

LEMMA EventType ==
    /\ \A b \in Bundles : /\ Event("bundle-added", b) \in ReviewEvents
                          /\ Event("bundle-removed", b) \in ReviewEvents
    /\ \A r \in Regions : Event("candidate-proposed", r) \in ReviewEvents
BY DEF Event, ReviewEvents

LEMMA EventsDiffer ==
    ASSUME NEW x, NEW y
    PROVE  /\ Event("bundle-added", x) # Event("bundle-removed", y)
           /\ Event("bundle-added", x) # Event("candidate-proposed", y)
           /\ Event("bundle-removed", x) # Event("candidate-proposed", y)
           /\ Event("bundle-added", x) = Event("bundle-added", y) => x = y
           /\ Event("bundle-removed", x) = Event("bundle-removed", y) => x = y
           /\ Event("candidate-proposed", x) = Event("candidate-proposed", y) => x = y
BY DEF Event

\* The past is not changed by a new event.
LEMMA PastStays ==
    ASSUME NEW log \in Seq(ReviewEvents), NEW e \in ReviewEvents, NEW n \in 1..(Len(log) + 1)
    PROVE  /\ ActiveBefore(Append(log, e), n) = ActiveBefore(log, n)
           /\ DeclaredBefore(Append(log, e), n) = DeclaredBefore(log, n)
<1>1. \A i \in 1..(n - 1) : Append(log, e)[i] = log[i]
  BY AppendFacts
<1>2. \A i \in 1..(n - 1) : \A j \in i..(n - 1) : Append(log, e)[j] = log[j]
  BY <1>1
<1> QED
  BY <1>1, <1>2 DEF ActiveBefore, DeclaredBefore

\* An addition makes its bundle active and brings its declarations.
LEMMA AfterAddition ==
    ASSUME NEW log \in Seq(ReviewEvents), NEW b \in Bundles
    PROVE  LET grown == Append(log, Event("bundle-added", b)) IN
           /\ ActiveBefore(grown, Len(grown) + 1) = ActiveBefore(log, Len(log) + 1) \cup {b}
           /\ DeclaredBefore(grown, Len(grown) + 1) =
                DeclaredBefore(log, Len(log) + 1) \cup File[b].declarations
<1> DEFINE e == Event("bundle-added", b)
           grown == Append(log, e)
<1>1. e \in ReviewEvents
  BY EventType
<1>2. /\ Len(log) \in Nat /\ Len(grown) = Len(log) + 1
      /\ \A i \in 1..Len(log) : grown[i] = log[i]
      /\ grown[Len(log) + 1] = e
  BY <1>1, AppendFacts
<1>3. \A x : e # Event("bundle-removed", x)
  BY EventsDiffer
<1>4. \A x : e = Event("bundle-added", x) => x = b
  BY EventsDiffer
<1> HIDE DEF grown, e
<1>5. ActiveBefore(grown, Len(grown) + 1) = ActiveBefore(log, Len(log) + 1) \cup {b}
  <2>1. ASSUME NEW x \in ActiveBefore(grown, Len(grown) + 1), x # b
        PROVE  x \in ActiveBefore(log, Len(log) + 1)
    <3>1. x \in Bundles
      BY <2>1 DEF ActiveBefore
    <3>2. PICK i \in 1..(Len(log) + 1) :
            /\ grown[i] = Event("bundle-added", x)
            /\ \A j \in i..(Len(log) + 1) : grown[j] # Event("bundle-removed", x)
      BY <1>2, <2>1 DEF ActiveBefore
    <3>3. i # Len(log) + 1
      BY <1>2, <1>4, <2>1, <3>2
    <3>4. i \in 1..Len(log)
      BY <1>2, <3>3
    <3>5. log[i] = Event("bundle-added", x)
      BY <1>2, <3>2, <3>4
    <3>6. \A j \in i..Len(log) : log[j] # Event("bundle-removed", x)
      BY <1>2, <3>2, <3>4
    <3> QED
      BY <1>2, <3>1, <3>4, <3>5, <3>6 DEF ActiveBefore
  <2>2. ASSUME NEW x \in ActiveBefore(log, Len(log) + 1)
        PROVE  x \in ActiveBefore(grown, Len(grown) + 1)
    <3>1. x \in Bundles
      BY <2>2 DEF ActiveBefore
    <3>2. PICK i \in 1..Len(log) :
            /\ log[i] = Event("bundle-added", x)
            /\ \A j \in i..Len(log) : log[j] # Event("bundle-removed", x)
      BY <1>2, <2>2 DEF ActiveBefore
    <3>3. \A j \in i..(Len(log) + 1) : grown[j] # Event("bundle-removed", x)
      <4> SUFFICES ASSUME NEW j \in i..(Len(log) + 1)
                   PROVE  grown[j] # Event("bundle-removed", x)
        OBVIOUS
      <4>1. CASE j = Len(log) + 1
        BY <1>2, <1>3, <4>1
      <4>2. CASE j # Len(log) + 1
        <5>1. j \in i..Len(log) /\ j \in 1..Len(log)
          BY <1>2, <4>2
        <5> QED
          BY <1>2, <3>2, <5>1
      <4> QED
        BY <4>1, <4>2
    <3>4. i \in 1..(Len(log) + 1) /\ grown[i] = Event("bundle-added", x)
      BY <1>2, <3>2
    <3> QED
      BY <1>2, <3>1, <3>3, <3>4 DEF ActiveBefore
  <2>3. b \in ActiveBefore(grown, Len(grown) + 1)
    <3>1. grown[Len(log) + 1] = Event("bundle-added", b)
      BY <1>2 DEF e
    <3>2. \A j \in (Len(log) + 1)..(Len(log) + 1) : grown[j] # Event("bundle-removed", b)
      BY <1>2, <1>3
    <3>3. Len(log) + 1 \in 1..(Len(log) + 1)
      BY <1>2
    <3> QED
      BY <1>2, <3>1, <3>2, <3>3 DEF ActiveBefore
  <2> QED
    BY <2>1, <2>2, <2>3
<1>6. DeclaredBefore(grown, Len(grown) + 1) =
        DeclaredBefore(log, Len(log) + 1) \cup File[b].declarations
  <2>1. ASSUME NEW x \in Bundles
        PROVE  (\E i \in 1..(Len(log) + 1) : grown[i] = Event("bundle-added", x))
                <=> (x = b \/ \E i \in 1..Len(log) : log[i] = Event("bundle-added", x))
    <3>1. CASE x = b
      <4>1. Len(log) + 1 \in 1..(Len(log) + 1) /\ grown[Len(log) + 1] = Event("bundle-added", b)
        BY <1>2 DEF e
      <4> QED
        BY <3>1, <4>1
    <3>2. CASE x # b
      <4>1. grown[Len(log) + 1] # Event("bundle-added", x)
        BY <1>2, <1>4, <3>2
      <4>2. ASSUME NEW i \in 1..(Len(log) + 1), grown[i] = Event("bundle-added", x)
            PROVE  i \in 1..Len(log) /\ log[i] = Event("bundle-added", x)
        BY <1>2, <4>1, <4>2
      <4>3. ASSUME NEW i \in 1..Len(log), log[i] = Event("bundle-added", x)
            PROVE  i \in 1..(Len(log) + 1) /\ grown[i] = Event("bundle-added", x)
        BY <1>2, <4>3
      <4> QED
        BY <3>2, <4>2, <4>3
    <3> QED
      BY <3>1, <3>2
  <2>2. Len(grown) + 1 - 1 = Len(log) + 1 /\ Len(log) + 1 - 1 = Len(log)
    BY <1>2
  <2> QED
    BY <2>1, <2>2 DEF DeclaredBefore
<1> QED
  BY <1>5, <1>6 DEF grown, e

\* An event that adds no bundle brings no declarations, and ends the activity
\* of the bundle it removes, if it removes one.
LEMMA AfterOther ==
    ASSUME NEW log \in Seq(ReviewEvents), NEW e \in ReviewEvents,
           NEW gone \in SUBSET Bundles,
           \A x \in Bundles : e # Event("bundle-added", x),
           \A x \in Bundles : e = Event("bundle-removed", x) <=> x \in gone
    PROVE  LET grown == Append(log, e) IN
           /\ ActiveBefore(grown, Len(grown) + 1) = ActiveBefore(log, Len(log) + 1) \ gone
           /\ DeclaredBefore(grown, Len(grown) + 1) = DeclaredBefore(log, Len(log) + 1)
<1> DEFINE grown == Append(log, e)
<1>1. /\ Len(log) \in Nat /\ Len(grown) = Len(log) + 1
      /\ \A i \in 1..Len(log) : grown[i] = log[i]
      /\ grown[Len(log) + 1] = e
  BY AppendFacts
<1> HIDE DEF grown
<1>2. ActiveBefore(grown, Len(grown) + 1) = ActiveBefore(log, Len(log) + 1) \ gone
  <2>1. ASSUME NEW x \in ActiveBefore(grown, Len(grown) + 1)
        PROVE  x \in ActiveBefore(log, Len(log) + 1) \ gone
    <3>1. x \in Bundles
      BY <2>1 DEF ActiveBefore
    <3>2. PICK i \in 1..(Len(log) + 1) :
            /\ grown[i] = Event("bundle-added", x)
            /\ \A j \in i..(Len(log) + 1) : grown[j] # Event("bundle-removed", x)
      BY <1>1, <2>1 DEF ActiveBefore
    <3>3. i \in 1..Len(log)
      BY <1>1, <3>1, <3>2
    <3>4. log[i] = Event("bundle-added", x)
      BY <1>1, <3>2, <3>3
    <3>5. \A j \in i..Len(log) : log[j] # Event("bundle-removed", x)
      BY <1>1, <3>2, <3>3
    <3>6. grown[Len(log) + 1] # Event("bundle-removed", x)
      BY <1>1, <3>2, <3>3
    <3>7. x \notin gone
      BY <1>1, <3>1, <3>6
    <3> QED
      BY <1>1, <3>1, <3>3, <3>4, <3>5, <3>7 DEF ActiveBefore
  <2>2. ASSUME NEW x \in ActiveBefore(log, Len(log) + 1) \ gone
        PROVE  x \in ActiveBefore(grown, Len(grown) + 1)
    <3>1. x \in Bundles
      BY <2>2 DEF ActiveBefore
    <3>2. PICK i \in 1..Len(log) :
            /\ log[i] = Event("bundle-added", x)
            /\ \A j \in i..Len(log) : log[j] # Event("bundle-removed", x)
      BY <1>1, <2>2 DEF ActiveBefore
    <3>3. \A j \in i..(Len(log) + 1) : grown[j] # Event("bundle-removed", x)
      <4> SUFFICES ASSUME NEW j \in i..(Len(log) + 1)
                   PROVE  grown[j] # Event("bundle-removed", x)
        OBVIOUS
      <4>1. CASE j = Len(log) + 1
        BY <1>1, <2>2, <3>1, <4>1
      <4>2. CASE j # Len(log) + 1
        <5>1. j \in i..Len(log) /\ j \in 1..Len(log)
          BY <1>1, <4>2
        <5> QED
          BY <1>1, <3>2, <5>1
      <4> QED
        BY <4>1, <4>2
    <3>4. i \in 1..(Len(log) + 1) /\ grown[i] = Event("bundle-added", x)
      BY <1>1, <3>2
    <3> QED
      BY <1>1, <3>1, <3>3, <3>4 DEF ActiveBefore
  <2> QED
    BY <2>1, <2>2
<1>3. DeclaredBefore(grown, Len(grown) + 1) = DeclaredBefore(log, Len(log) + 1)
  <2>1. ASSUME NEW x \in Bundles
        PROVE  (\E i \in 1..(Len(log) + 1) : grown[i] = Event("bundle-added", x))
                <=> \E i \in 1..Len(log) : log[i] = Event("bundle-added", x)
    <3>1. ASSUME NEW i \in 1..(Len(log) + 1), grown[i] = Event("bundle-added", x)
          PROVE  i \in 1..Len(log) /\ log[i] = Event("bundle-added", x)
      BY <1>1, <3>1
    <3>2. ASSUME NEW i \in 1..Len(log), log[i] = Event("bundle-added", x)
          PROVE  i \in 1..(Len(log) + 1) /\ grown[i] = Event("bundle-added", x)
      BY <1>1, <3>2
    <3> QED
      BY <3>1, <3>2
  <2>2. Len(grown) + 1 - 1 = Len(log) + 1 /\ Len(log) + 1 - 1 = Len(log)
    BY <1>1
  <2> QED
    BY <2>1, <2>2 DEF DeclaredBefore
<1> QED
  BY <1>2, <1>3 DEF grown

-----------------------------------------------------------------------------
(* The types of registries.                                                *)

LEMMA DeviceMapIs ==
    \A f : f \in DeviceMaps <=> \E known \in SUBSET Devices : f \in [known -> DeviceRecords]
BY DEF DeviceMaps

LEMMA DeviceRecordType == \A b \in Bundles : DeviceRecord(b) \in DeviceRecords
<1> SUFFICES ASSUME NEW b \in Bundles PROVE DeviceRecord(b) \in DeviceRecords
  OBVIOUS
<1>1. File[b].fingerprint \in Fingerprints
  BY EvidenceAssumption DEF BundleFiles
<1>2. DeclaredMcu(b) \in Maybe(Values)
  BY RegistryAssumption DEF DeclaredMcu, Maybe
<1> QED
  BY <1>1, <1>2 DEF DeviceRecord, DeviceRecords

LEMMA MergeDeviceType ==
    ASSUME NEW x \in DeviceRecords, NEW y \in DeviceRecords
    PROVE  /\ MergeDevice(x, y) \in DeviceRecords
           /\ MergeDevice(x, y).bundle_ids = x.bundle_ids \cup y.bundle_ids
           /\ MergeDevice(x, y).declared_mcu =
                IF x.declared_mcu # {} THEN x.declared_mcu ELSE y.declared_mcu
BY DEF MergeDevice, DeviceRecords

LEMMA FileType ==
    ASSUME NEW b \in Bundles
    PROVE  /\ File[b].device \in Devices \cup {NoDevice}
           /\ File[b].declarations \in SUBSET Declarations
           /\ \A r \in Regions : File[b].region[r] \in SUBSET Values
BY EvidenceAssumption DEF BundleFiles

LEMMA WithDeviceOfType ==
    ASSUME NEW devices \in DeviceMaps, NEW b \in Bundles
    PROVE  WithDeviceOf(devices, b) \in DeviceMaps
<1> DEFINE dev == File[b].device
<1>1. PICK known \in SUBSET Devices : devices \in [known -> DeviceRecords]
  BY DeviceMapIs
<1>2. CASE dev = NoDevice
  BY <1>2 DEF WithDeviceOf
<1>3. CASE dev # NoDevice
  <2>1. dev \in Devices
    BY <1>3, FileType
  <2>2. WithDeviceOf(devices, b) \in [known \cup {dev} -> DeviceRecords]
    <3> SUFFICES ASSUME NEW x \in known \cup {dev}
                 PROVE  (IF x # dev THEN devices[x]
                         ELSE IF dev \in DOMAIN devices
                              THEN MergeDevice(devices[dev], DeviceRecord(b))
                              ELSE DeviceRecord(b)) \in DeviceRecords
      BY <1>1, <1>3 DEF WithDeviceOf
    <3> QED
      BY <1>1, DeviceRecordType, MergeDeviceType
  <2> QED
    BY <1>1, <2>1, <2>2, DeviceMapIs
<1> QED
  BY <1>2, <1>3

\* What each operation makes of the fields of a registry.
LEMMA AddedFields ==
    ASSUME NEW reg \in Registries, NEW b \in Bundles
    PROVE  /\ Added(reg, b) \in Registries
           /\ Added(reg, b).bundles = reg.bundles \cup {b}
           /\ Added(reg, b).devices = WithDeviceOf(reg.devices, b)
           /\ Added(reg, b).declarations = reg.declarations \cup File[b].declarations
           /\ Added(reg, b).candidates = reg.candidates
           /\ Added(reg, b).review_events = Append(reg.review_events, Event("bundle-added", b))
<1>1. /\ WithDeviceOf(reg.devices, b) \in DeviceMaps
      /\ File[b].declarations \in SUBSET Declarations
      /\ Append(reg.review_events, Event("bundle-added", b)) \in Seq(ReviewEvents)
  BY WithDeviceOfType, FileType, EventType, AppendFacts DEF Registries
<1> QED
  BY <1>1 DEF Added, Registries

LEMMA UnindexedType ==
    ASSUME NEW devices \in DeviceMaps, NEW b \in Bundles
    PROVE  /\ Unindexed(devices, b) \in DeviceMaps
           /\ DOMAIN Unindexed(devices, b) = DOMAIN devices
           /\ \A dev \in DOMAIN devices :
                /\ Unindexed(devices, b)[dev].bundle_ids = devices[dev].bundle_ids \ {b}
                /\ Unindexed(devices, b)[dev].declared_mcu = devices[dev].declared_mcu
<1>1. PICK known \in SUBSET Devices : devices \in [known -> DeviceRecords]
  BY DeviceMapIs
<1>2. ASSUME NEW dev \in known
      PROVE  /\ [devices[dev] EXCEPT !.bundle_ids = @ \ {b}] \in DeviceRecords
             /\ [devices[dev] EXCEPT !.bundle_ids = @ \ {b}].bundle_ids =
                    devices[dev].bundle_ids \ {b}
             /\ [devices[dev] EXCEPT !.bundle_ids = @ \ {b}].declared_mcu =
                    devices[dev].declared_mcu
  BY <1>1 DEF DeviceRecords
<1>3. Unindexed(devices, b) \in [known -> DeviceRecords]
  BY <1>1, <1>2 DEF Unindexed
<1>4. Unindexed(devices, b) \in DeviceMaps
  BY <1>3, DeviceMapIs
<1> QED
  BY <1>1, <1>2, <1>4 DEF Unindexed

LEMMA RemovedFields ==
    ASSUME NEW reg \in Registries, NEW b \in Bundles
    PROVE  /\ Removed(reg, b) \in Registries
           /\ Removed(reg, b).bundles = reg.bundles \ {b}
           /\ Removed(reg, b).devices = Unindexed(reg.devices, b)
           /\ Removed(reg, b).declarations = reg.declarations
           /\ Removed(reg, b).candidates = reg.candidates
           /\ Removed(reg, b).review_events = Append(reg.review_events, Event("bundle-removed", b))
<1>1. /\ Unindexed(reg.devices, b) \in DeviceMaps
      /\ Append(reg.review_events, Event("bundle-removed", b)) \in Seq(ReviewEvents)
  BY UnindexedType, EventType, AppendFacts DEF Registries
<1> QED
  BY <1>1 DEF Removed, Registries

LEMMA CandidateType ==
    ASSUME NEW bs \in SUBSET Bundles, NEW decls \in SUBSET Declarations, NEW r \in Regions
    PROVE  /\ Candidate(bs, decls, r) \in CandidateRecords
           /\ Candidate(bs, decls, r).region = r
           /\ Candidate(bs, decls, r).bundles = Supporting(bs, r)
<1>1. Supporting(bs, r) \in SUBSET Bundles
  BY DEF Supporting
<1>2. BundleDevices(Supporting(bs, r)) \in SUBSET Devices
  BY <1>1, FileType DEF BundleDevices
<1>3. ({b \in bs : r \in File[b].off_scope} \cup
        UNION {BundlesOf(bs, d.device) : d \in EarlyDeclarations(bs, decls)}) \in SUBSET Bundles
  BY DEF BundlesOf
<1>4. ObservedValues(bs, r) \in SUBSET Values
  BY FileType DEF ObservedValues
<1>5. CandidateStatus(bs, decls, r) \in CandidateStatuses
  BY DEF CandidateStatus, CandidateStatuses
<1> QED
  BY <1>1, <1>2, <1>3, <1>4, <1>5 DEF Candidate, CandidateRecords

LEMMA ProposedFields ==
    ASSUME NEW reg \in Registries, NEW r \in Regions
    PROVE  /\ Proposed(reg, r) \in Registries
           /\ Proposed(reg, r).bundles = reg.bundles
           /\ Proposed(reg, r).devices = reg.devices
           /\ Proposed(reg, r).declarations = reg.declarations
           /\ Proposed(reg, r).candidates = {c \in reg.candidates : c.region # r}
                                \cup {Candidate(reg.bundles, reg.declarations, r)}
           /\ Proposed(reg, r).review_events =
                Append(reg.review_events, Event("candidate-proposed", r))
<1>1. Candidate(reg.bundles, reg.declarations, r) \in CandidateRecords
  BY CandidateType DEF Registries
<1>2. Append(reg.review_events, Event("candidate-proposed", r)) \in Seq(ReviewEvents)
  BY EventType, AppendFacts DEF Registries
<1> QED
  BY <1>1, <1>2 DEF Proposed, Registries

-----------------------------------------------------------------------------
(* A registry and its log.                                                 *)

\* The devices of all bundles ever added are known.
DevicesAreKept(reg) ==
    \A i \in DOMAIN reg.review_events : \A b \in Bundles :
        reg.review_events[i] = Event("bundle-added", b) /\ File[b].device # NoDevice
            => File[b].device \in DOMAIN reg.devices

Sound(reg) ==
    /\ reg \in Registries
    /\ LogExplains(reg)
    /\ IndexIsExact(reg)
    /\ DevicesAreKept(reg)
    /\ ClaimsStand(reg)
    /\ AreSnapshots(reg)

LEMMA NewRegistrySound == Sound(NewRegistry)
<1>1. NewRegistry.devices \in [{} -> DeviceRecords] /\ DOMAIN NewRegistry.devices = {}
  BY DEF NewRegistry
<1>2. NewRegistry \in Registries
  <2>1. NewRegistry.devices \in DeviceMaps
    BY <1>1, DeviceMapIs
  <2> QED
    BY <2>1 DEF NewRegistry, Registries
<1>3. /\ NewRegistry.review_events = << >> /\ Len(NewRegistry.review_events) = 0
      /\ DOMAIN NewRegistry.review_events = {}
      /\ NewRegistry.bundles = {} /\ NewRegistry.declarations = {} /\ NewRegistry.candidates = {}
  BY DEF NewRegistry
<1> HIDE DEF NewRegistry
<1>4. LogExplains(NewRegistry)
  <2>1. 1..(0 + 1 - 1) = {}
    OBVIOUS
  <2>2. ActiveBefore(NewRegistry.review_events, 1) = {}
    BY <2>1 DEF ActiveBefore
  <2>3. DeclaredBefore(NewRegistry.review_events, 1) = {}
    BY <2>1 DEF DeclaredBefore
  <2> QED
    BY <1>3, <2>2, <2>3 DEF LogExplains
<1>5. IndexIsExact(NewRegistry)
  BY <1>1, <1>3 DEF IndexIsExact, BundleDevices
<1>6. DevicesAreKept(NewRegistry) /\ ClaimsStand(NewRegistry)
  BY <1>1, <1>3 DEF DevicesAreKept, ClaimsStand
<1>7. AreSnapshots(NewRegistry)
  BY <1>3 DEF AreSnapshots, ProposedAt, CandidatesOf
<1> QED
  BY <1>2, <1>4, <1>5, <1>6, <1>7 DEF Sound

\* A new event keeps the log explained, if the bundles and declarations are
\* what it makes of them.
LEMMA GrownLogExplains ==
    ASSUME NEW reg, Sound(reg), NEW e \in ReviewEvents, NEW new \in Registries,
           new.review_events = Append(reg.review_events, e),
           new.bundles = ActiveBefore(new.review_events, Len(new.review_events) + 1),
           new.declarations = DeclaredBefore(new.review_events, Len(new.review_events) + 1),
           \A b \in Bundles : e = Event("bundle-added", b) => b \notin reg.bundles,
           \A b \in Bundles : e = Event("bundle-removed", b) => b \in reg.bundles
    PROVE  LogExplains(new)
<1> DEFINE log == reg.review_events
           grown == new.review_events
<1>1. log \in Seq(ReviewEvents)
  BY DEF Sound, Registries
<1>2. /\ Len(log) \in Nat /\ Len(grown) = Len(log) + 1
      /\ DOMAIN log = 1..Len(log) /\ DOMAIN grown = 1..(Len(log) + 1)
      /\ \A i \in 1..Len(log) : grown[i] = log[i]
      /\ grown[Len(log) + 1] = e
  BY <1>1, AppendFacts
<1>3. \A n \in 1..(Len(log) + 1) : ActiveBefore(grown, n) = ActiveBefore(log, n)
  BY <1>1, PastStays
<1>4. reg.bundles = ActiveBefore(log, Len(log) + 1)
  BY DEF Sound, LogExplains
<1>5. ASSUME NEW n \in DOMAIN grown, NEW b \in Bundles
      PROVE  /\ grown[n] = Event("bundle-added", b) => b \notin ActiveBefore(grown, n)
             /\ grown[n] = Event("bundle-removed", b) => b \in ActiveBefore(grown, n)
  <2>1. CASE n = Len(log) + 1
    <3>1. ActiveBefore(grown, n) = reg.bundles
      BY <1>2, <1>3, <1>4, <2>1
    <3> QED
      BY <1>2, <2>1, <3>1
  <2>2. CASE n # Len(log) + 1
    <3>1. n \in DOMAIN log /\ n \in 1..(Len(log) + 1) /\ grown[n] = log[n]
      BY <1>2, <2>2
    <3>2. /\ log[n] = Event("bundle-added", b) => b \notin ActiveBefore(log, n)
          /\ log[n] = Event("bundle-removed", b) => b \in ActiveBefore(log, n)
      BY <3>1 DEF Sound, LogExplains
    <3> QED
      BY <1>3, <3>1, <3>2
  <2> QED
    BY <2>1, <2>2
<1> QED
  BY <1>5 DEF LogExplains

\* An event that is no proposal leaves the candidates what they were.
LEMMA SnapshotsStay ==
    ASSUME NEW reg, Sound(reg), NEW e \in ReviewEvents, NEW new \in Registries,
           new.review_events = Append(reg.review_events, e),
           new.candidates = reg.candidates,
           \A r \in Regions : e # Event("candidate-proposed", r)
    PROVE  AreSnapshots(new)
<1> DEFINE log == reg.review_events
           grown == new.review_events
<1>1. log \in Seq(ReviewEvents)
  BY DEF Sound, Registries
<1>2. /\ Len(log) \in Nat
      /\ DOMAIN log = 1..Len(log) /\ DOMAIN grown = 1..(Len(log) + 1)
      /\ \A i \in 1..Len(log) : grown[i] = log[i]
      /\ grown[Len(log) + 1] = e
  BY <1>1, AppendFacts
<1> SUFFICES ASSUME NEW r \in Regions
             PROVE  /\ ProposedAt(grown, r) = {} => CandidatesOf(new, r) = {}
                    /\ \A last \in ProposedAt(grown, r) :
                        (\A j \in ProposedAt(grown, r) : j <= last) =>
                            CandidatesOf(new, r) =
                                {Candidate(ActiveBefore(grown, last), DeclaredBefore(grown, last), r)}
  BY DEF AreSnapshots
<1>3. ProposedAt(grown, r) = ProposedAt(log, r)
  BY <1>2 DEF ProposedAt
<1>4. CandidatesOf(new, r) = CandidatesOf(reg, r)
  BY DEF CandidatesOf
<1>5. \A last \in ProposedAt(log, r) :
        /\ ActiveBefore(grown, last) = ActiveBefore(log, last)
        /\ DeclaredBefore(grown, last) = DeclaredBefore(log, last)
  <2>1. \A last \in ProposedAt(log, r) : last \in 1..(Len(log) + 1)
    BY <1>2 DEF ProposedAt
  <2> QED
    BY <1>1, <2>1, PastStays
<1> QED
  BY <1>3, <1>4, <1>5 DEF Sound, AreSnapshots

\* An event that adds no bundle leaves the devices and their claims.
LEMMA ClaimsStay ==
    ASSUME NEW reg, Sound(reg), NEW e \in ReviewEvents, NEW new \in Registries,
           new.review_events = Append(reg.review_events, e),
           DOMAIN new.devices = DOMAIN reg.devices,
           \A dev \in DOMAIN reg.devices :
                new.devices[dev].declared_mcu = reg.devices[dev].declared_mcu,
           \A b \in Bundles : e # Event("bundle-added", b)
    PROVE  DevicesAreKept(new) /\ ClaimsStand(new)
<1> DEFINE log == reg.review_events
           grown == new.review_events
<1>1. log \in Seq(ReviewEvents)
  BY DEF Sound, Registries
<1>2. /\ Len(log) \in Nat
      /\ DOMAIN log = 1..Len(log) /\ DOMAIN grown = 1..(Len(log) + 1)
      /\ \A i \in 1..Len(log) : grown[i] = log[i]
      /\ grown[Len(log) + 1] = e
  BY <1>1, AppendFacts
<1>3. DevicesAreKept(new)
  <2> SUFFICES ASSUME NEW i \in DOMAIN grown, NEW b \in Bundles,
                      grown[i] = Event("bundle-added", b), File[b].device # NoDevice
               PROVE  File[b].device \in DOMAIN new.devices
    BY DEF DevicesAreKept
  <2>1. i \in DOMAIN log /\ log[i] = Event("bundle-added", b)
    BY <1>2
  <2> QED
    BY <2>1 DEF Sound, DevicesAreKept
<1>4. ASSUME NEW dev \in DOMAIN new.devices
      PROVE  /\ Claims(grown, dev) = {} <=> new.devices[dev].declared_mcu = {}
             /\ \A i \in Claims(grown, dev) : (\A j \in Claims(grown, dev) : i <= j) =>
                    new.devices[dev].declared_mcu = DeclaredMcu(grown[i].subject)
  <2>1. Claims(grown, dev) = Claims(log, dev)
    BY <1>2 DEF Claims
  <2>2. \A i \in Claims(log, dev) : grown[i] = log[i]
    BY <1>2 DEF Claims
  <2>3. dev \in DOMAIN reg.devices
    OBVIOUS
  <2> QED
    BY <2>1, <2>2, <2>3 DEF Sound, ClaimsStand
<1> QED
  BY <1>3, <1>4 DEF ClaimsStand

LEMMA AddedSound ==
    ASSUME NEW reg, Sound(reg), NEW b \in Bundles, b \notin reg.bundles
    PROVE  Sound(Added(reg, b))
<1> DEFINE new == Added(reg, b)
           log == reg.review_events
           grown == new.review_events
           e == Event("bundle-added", b)
           dev == File[b].device
<1>1. reg \in Registries /\ log \in Seq(ReviewEvents)
  BY DEF Sound, Registries
<1>2. e \in ReviewEvents
  BY EventType
<1>3. /\ new \in Registries
      /\ new.bundles = reg.bundles \cup {b}
      /\ new.devices = WithDeviceOf(reg.devices, b)
      /\ new.declarations = reg.declarations \cup File[b].declarations
      /\ new.candidates = reg.candidates
      /\ grown = Append(log, e)
  BY <1>1, AddedFields
<1>4. /\ Len(log) \in Nat
      /\ DOMAIN log = 1..Len(log) /\ DOMAIN grown = 1..(Len(log) + 1)
      /\ \A i \in 1..Len(log) : grown[i] = log[i]
      /\ grown[Len(log) + 1] = e
  BY <1>1, <1>2, <1>3, AppendFacts
<1>5. PICK known \in SUBSET Devices : reg.devices \in [known -> DeviceRecords]
  BY <1>1, DeviceMapIs DEF Registries
<1> HIDE DEF new
<1>6. LogExplains(new)
  <2>1. /\ new.bundles = ActiveBefore(grown, Len(grown) + 1)
        /\ new.declarations = DeclaredBefore(grown, Len(grown) + 1)
    BY <1>1, <1>3, AfterAddition DEF Sound, LogExplains
  <2>2. \A x \in Bundles : e = Event("bundle-added", x) => x \notin reg.bundles
    BY EventsDiffer
  <2>3. \A x \in Bundles : e = Event("bundle-removed", x) => x \in reg.bundles
    BY EventsDiffer
  <2> HIDE DEF e
  <2> QED
    BY <1>2, <1>3, <2>1, <2>2, <2>3, GrownLogExplains
<1>7. AreSnapshots(new)
  <2>1. \A r \in Regions : e # Event("candidate-proposed", r)
    BY EventsDiffer
  <2> HIDE DEF e
  <2> QED
    BY <1>2, <1>3, <2>1, SnapshotsStay
<1>8. \A x \in Bundles : e = Event("bundle-added", x) => x = b
  BY EventsDiffer
<1>9. DeviceRecord(b) \in DeviceRecords /\ DeviceRecord(b).bundle_ids = {b}
      /\ DeviceRecord(b).declared_mcu = DeclaredMcu(b)
  BY DeviceRecordType DEF DeviceRecord
<1>10. e.subject = b
  BY DEF Event
<1> HIDE DEF e
<1>11. CASE dev = NoDevice
  <2>1. new.devices = reg.devices
    BY <1>3, <1>11 DEF WithDeviceOf
  <2>2. \A d \in known : d # NoDevice
    BY EvidenceAssumption
  <2>3. IndexIsExact(new)
    <3>1. BundleDevices(new.bundles) = BundleDevices(reg.bundles)
      BY <1>3, <1>11 DEF BundleDevices
    <3>2. \A d \in known : BundlesOf(new.bundles, d) = BundlesOf(reg.bundles, d)
      BY <1>3, <1>11, <2>2 DEF BundlesOf
    <3> QED
      BY <1>5, <2>1, <3>1, <3>2 DEF Sound, IndexIsExact
  <2>4. DevicesAreKept(new)
    <3> SUFFICES ASSUME NEW i \in DOMAIN grown, NEW x \in Bundles,
                        grown[i] = Event("bundle-added", x), File[x].device # NoDevice
                 PROVE  File[x].device \in DOMAIN new.devices
      BY DEF DevicesAreKept
    <3>1. i \in DOMAIN log /\ log[i] = Event("bundle-added", x)
      BY <1>4, <1>8, <1>11
    <3> QED
      BY <2>1, <3>1 DEF Sound, DevicesAreKept
  <2>5. ClaimsStand(new)
    <3> SUFFICES ASSUME NEW d \in known
                 PROVE  /\ Claims(grown, d) = {} <=> new.devices[d].declared_mcu = {}
                        /\ \A i \in Claims(grown, d) : (\A j \in Claims(grown, d) : i <= j) =>
                                new.devices[d].declared_mcu = DeclaredMcu(grown[i].subject)
      BY <1>5, <2>1 DEF ClaimsStand
    <3>1. Claims(grown, d) = Claims(log, d)
      BY <1>4, <1>8, <1>11, <2>2 DEF Claims
    <3>2. \A i \in Claims(log, d) : grown[i] = log[i]
      BY <1>4 DEF Claims
    <3> QED
      BY <1>5, <2>1, <3>1, <3>2 DEF Sound, ClaimsStand
  <2> QED
    BY <1>3, <1>6, <1>7, <2>3, <2>4, <2>5 DEF Sound, new
<1>12. CASE dev # NoDevice
  <2>1. dev \in Devices
    BY <1>12, FileType
  <2>2. DOMAIN new.devices = known \cup {dev}
    BY <1>3, <1>5, <1>12 DEF WithDeviceOf
  <2>3. \A d \in known \ {dev} : new.devices[d] = reg.devices[d]
    BY <1>3, <1>5, <1>12 DEF WithDeviceOf
  <2>4. dev \in known => new.devices[dev] = MergeDevice(reg.devices[dev], DeviceRecord(b))
    BY <1>3, <1>5, <1>12 DEF WithDeviceOf
  <2>5. dev \notin known => new.devices[dev] = DeviceRecord(b)
    BY <1>3, <1>5, <1>12 DEF WithDeviceOf
  <2>6. dev \in known =>
            /\ new.devices[dev].bundle_ids = reg.devices[dev].bundle_ids \cup {b}
            /\ new.devices[dev].declared_mcu =
                 IF reg.devices[dev].declared_mcu # {} THEN reg.devices[dev].declared_mcu
                 ELSE DeclaredMcu(b)
    BY <1>5, <1>9, <2>4, MergeDeviceType
  <2>7. IndexIsExact(new)
    <3>1. BundleDevices(new.bundles) \subseteq BundleDevices(reg.bundles) \cup {dev}
      BY <1>3 DEF BundleDevices
    <3>2. ASSUME NEW d \in known \ {dev}
          PROVE  new.devices[d].bundle_ids = BundlesOf(new.bundles, d)
      <4>1. BundlesOf(new.bundles, d) = BundlesOf(reg.bundles, d)
        BY <1>3 DEF BundlesOf
      <4> QED
        BY <1>5, <2>3, <4>1 DEF Sound, IndexIsExact
    <3>3. BundlesOf(new.bundles, dev) = BundlesOf(reg.bundles, dev) \cup {b}
      BY <1>3 DEF BundlesOf
    <3>4. CASE dev \in known
      BY <1>5, <2>2, <2>6, <3>1, <3>2, <3>3, <3>4 DEF Sound, IndexIsExact
    <3>5. CASE dev \notin known
      <4>1. BundlesOf(reg.bundles, dev) = {}
        BY <1>5, <1>12, <3>5 DEF Sound, IndexIsExact, BundleDevices, BundlesOf
      <4>2. new.devices[dev].bundle_ids = {b}
        BY <1>9, <2>5, <3>5
      <4> QED
        BY <1>5, <2>2, <3>1, <3>2, <3>3, <4>1, <4>2 DEF Sound, IndexIsExact
    <3> QED
      BY <3>4, <3>5
  <2>8. DevicesAreKept(new)
    <3> SUFFICES ASSUME NEW i \in DOMAIN grown, NEW x \in Bundles,
                        grown[i] = Event("bundle-added", x), File[x].device # NoDevice
                 PROVE  File[x].device \in DOMAIN new.devices
      BY DEF DevicesAreKept
    <3>1. CASE i = Len(log) + 1
      BY <1>4, <1>8, <2>2, <3>1
    <3>2. CASE i # Len(log) + 1
      <4>1. i \in DOMAIN log /\ log[i] = Event("bundle-added", x)
        BY <1>4, <3>2
      <4> QED
        BY <1>5, <2>2, <4>1 DEF Sound, DevicesAreKept
    <3> QED
      BY <3>1, <3>2
  <2>9. ClaimsStand(new)
    <3> SUFFICES ASSUME NEW d \in known \cup {dev}
                 PROVE  /\ Claims(grown, d) = {} <=> new.devices[d].declared_mcu = {}
                        /\ \A i \in Claims(grown, d) : (\A j \in Claims(grown, d) : i <= j) =>
                                new.devices[d].declared_mcu = DeclaredMcu(grown[i].subject)
      BY <2>2 DEF ClaimsStand
    <3>1. \A i \in Claims(log, d) : i \in 1..Len(log) /\ grown[i] = log[i]
      BY <1>4 DEF Claims
    <3>2. d \in known =>
            /\ Claims(log, d) = {} <=> reg.devices[d].declared_mcu = {}
            /\ \A i \in Claims(log, d) : (\A j \in Claims(log, d) : i <= j) =>
                    reg.devices[d].declared_mcu = DeclaredMcu(log[i].subject)
      BY <1>5 DEF Sound, ClaimsStand
    <3>3. d \notin known => Claims(log, d) = {}
      <4> SUFFICES ASSUME NEW i \in DOMAIN log, NEW x \in Bundles,
                          log[i] = Event("bundle-added", x), File[x].device = d
                   PROVE  d \in known
        BY DEF Claims
      <4>1. d # NoDevice
        BY <2>1, EvidenceAssumption
      <4> QED
        BY <1>5, <4>1 DEF Sound, DevicesAreKept
    <3>4. CASE d # dev \/ DeclaredMcu(b) = {}
      <4>1. Claims(grown, d) = Claims(log, d)
        BY <1>4, <1>8, <3>4 DEF Claims
      <4>2. d \in known => new.devices[d].declared_mcu = reg.devices[d].declared_mcu
        BY <2>3, <2>6, <3>4
      <4>3. d \notin known => new.devices[d].declared_mcu = {}
        BY <1>9, <2>5, <3>4
      <4> QED
        BY <3>1, <3>2, <3>3, <4>1, <4>2, <4>3
    <3>5. CASE d = dev /\ DeclaredMcu(b) # {}
      <4>1. Claims(grown, d) = Claims(log, d) \cup {Len(log) + 1}
        <5>1. Len(log) + 1 \in Claims(grown, d)
          BY <1>4, <3>5 DEF Claims, e
        <5>2. ASSUME NEW i \in Claims(grown, d), i # Len(log) + 1
              PROVE  i \in Claims(log, d)
          BY <1>4, <5>2 DEF Claims
        <5>3. Claims(log, d) \subseteq Claims(grown, d)
          BY <1>4 DEF Claims
        <5> QED
          BY <5>1, <5>2, <5>3
      <4>2. CASE Claims(log, d) = {}
        <5>1. new.devices[d].declared_mcu = DeclaredMcu(b)
          BY <1>9, <2>5, <2>6, <3>2, <3>5, <4>2
        <5> QED
          BY <1>4, <1>10, <3>5, <4>1, <4>2, <5>1
      <4>3. CASE Claims(log, d) # {}
        <5>1. d \in known /\ reg.devices[d].declared_mcu # {}
          BY <3>2, <3>3, <4>3
        <5>2. new.devices[d].declared_mcu = reg.devices[d].declared_mcu
          BY <2>6, <3>5, <5>1
        <5>3. ASSUME NEW i \in Claims(grown, d), \A j \in Claims(grown, d) : i <= j
              PROVE  new.devices[d].declared_mcu = DeclaredMcu(grown[i].subject)
          <6>1. i # Len(log) + 1
            BY <1>4, <3>1, <4>1, <4>3, <5>3
          <6>2. i \in Claims(log, d) /\ \A j \in Claims(log, d) : i <= j
            BY <4>1, <5>3, <6>1
          <6> QED
            BY <3>1, <3>2, <5>1, <5>2, <6>2
        <5> QED
          BY <4>1, <5>1, <5>2, <5>3
      <4> QED
        BY <4>2, <4>3
    <3> QED
      BY <3>4, <3>5
  <2> QED
    BY <1>3, <1>6, <1>7, <2>7, <2>8, <2>9 DEF Sound, new
<1> QED
  BY <1>11, <1>12 DEF new

LEMMA AddedIfNewSound ==
    ASSUME NEW reg, Sound(reg), NEW b \in Bundles
    PROVE  Sound(AddedIfNew(reg, b))
BY AddedSound DEF AddedIfNew

LEMMA RemovedSound ==
    ASSUME NEW reg, Sound(reg), NEW b \in Bundles, b \in reg.bundles
    PROVE  Sound(Removed(reg, b))
<1> DEFINE new == Removed(reg, b)
           log == reg.review_events
           grown == new.review_events
           e == Event("bundle-removed", b)
<1>1. reg \in Registries /\ log \in Seq(ReviewEvents)
  BY DEF Sound, Registries
<1>2. e \in ReviewEvents
  BY EventType
<1>3. /\ new \in Registries
      /\ new.bundles = reg.bundles \ {b}
      /\ new.devices = Unindexed(reg.devices, b)
      /\ new.declarations = reg.declarations
      /\ new.candidates = reg.candidates
      /\ grown = Append(log, e)
  BY <1>1, RemovedFields
<1>4. /\ DOMAIN new.devices = DOMAIN reg.devices
      /\ \A dev \in DOMAIN reg.devices :
            /\ new.devices[dev].bundle_ids = reg.devices[dev].bundle_ids \ {b}
            /\ new.devices[dev].declared_mcu = reg.devices[dev].declared_mcu
  BY <1>1, <1>3, UnindexedType DEF Registries
<1> HIDE DEF new
<1>5. /\ \A x \in Bundles : e # Event("bundle-added", x)
      /\ \A x \in Bundles : e = Event("bundle-removed", x) <=> x \in {b}
      /\ \A r \in Regions : e # Event("candidate-proposed", r)
  BY EventsDiffer
<1> HIDE DEF e
<1>6. LogExplains(new)
  <2>1. /\ new.bundles = ActiveBefore(grown, Len(grown) + 1)
        /\ new.declarations = DeclaredBefore(grown, Len(grown) + 1)
    <3>1. {b} \in SUBSET Bundles
      OBVIOUS
    <3>2. /\ ActiveBefore(grown, Len(grown) + 1) = ActiveBefore(log, Len(log) + 1) \ {b}
          /\ DeclaredBefore(grown, Len(grown) + 1) = DeclaredBefore(log, Len(log) + 1)
      <4> DEFINE gone == {b}
      <4> HIDE DEF grown, log
      <4>1. log \in Seq(ReviewEvents) /\ grown = Append(log, e) /\ gone \in SUBSET Bundles
        BY <1>1, <1>3, <3>1
      <4>2. /\ \A x \in Bundles : e # Event("bundle-added", x)
            /\ \A x \in Bundles : e = Event("bundle-removed", x) <=> x \in gone
        BY <1>5
      <4> HIDE DEF gone
      <4>3. /\ ActiveBefore(grown, Len(grown) + 1) = ActiveBefore(log, Len(log) + 1) \ gone
            /\ DeclaredBefore(grown, Len(grown) + 1) = DeclaredBefore(log, Len(log) + 1)
        BY <1>2, <4>1, <4>2, AfterOther
      <4> QED
        BY <4>3 DEF gone
    <3> QED
      BY <1>3, <3>2 DEF Sound, LogExplains
  <2>2. \A x \in Bundles : e = Event("bundle-removed", x) => x \in reg.bundles
    BY <1>5
  <2>3. \A x \in Bundles : e = Event("bundle-added", x) => x \notin reg.bundles
    BY <1>5
  <2> QED
    BY <1>2, <1>3, <2>1, <2>2, <2>3, GrownLogExplains
<1>7. IndexIsExact(new)
  <2>1. BundleDevices(new.bundles) \subseteq BundleDevices(reg.bundles)
    BY <1>3 DEF BundleDevices
  <2>2. \A dev : BundlesOf(new.bundles, dev) = BundlesOf(reg.bundles, dev) \ {b}
    BY <1>3 DEF BundlesOf
  <2> QED
    BY <1>4, <2>1, <2>2 DEF Sound, IndexIsExact
<1>8. AreSnapshots(new)
  BY <1>2, <1>3, <1>5, SnapshotsStay
<1>9. DevicesAreKept(new) /\ ClaimsStand(new)
  BY <1>2, <1>3, <1>4, <1>5, ClaimsStay
<1> QED
  BY <1>3, <1>6, <1>7, <1>8, <1>9 DEF Sound, new

LEMMA ProposedSound ==
    ASSUME NEW reg, Sound(reg), NEW r \in Regions
    PROVE  Sound(Proposed(reg, r))
<1> DEFINE new == Proposed(reg, r)
           log == reg.review_events
           grown == new.review_events
           e == Event("candidate-proposed", r)
<1>1. reg \in Registries /\ log \in Seq(ReviewEvents)
  BY DEF Sound, Registries
<1>2. e \in ReviewEvents
  BY EventType
<1>3. /\ new \in Registries
      /\ new.bundles = reg.bundles
      /\ new.devices = reg.devices
      /\ new.declarations = reg.declarations
      /\ new.candidates = {c \in reg.candidates : c.region # r}
                            \cup {Candidate(reg.bundles, reg.declarations, r)}
      /\ grown = Append(log, e)
  BY <1>1, ProposedFields
<1>4. /\ Len(log) \in Nat
      /\ DOMAIN log = 1..Len(log) /\ DOMAIN grown = 1..(Len(log) + 1)
      /\ \A i \in 1..Len(log) : grown[i] = log[i]
      /\ grown[Len(log) + 1] = e
  BY <1>1, <1>2, <1>3, AppendFacts
<1> HIDE DEF new
<1>5. /\ \A x \in Bundles : e # Event("bundle-added", x)
      /\ \A x \in Bundles : e = Event("bundle-removed", x) <=> x \in {}
      /\ \A x \in Regions : e = Event("candidate-proposed", x) => x = r
  BY EventsDiffer
<1>6. LogExplains(new)
  <2>1. /\ new.bundles = ActiveBefore(grown, Len(grown) + 1)
        /\ new.declarations = DeclaredBefore(grown, Len(grown) + 1)
    <3>1. {} \in SUBSET Bundles
      OBVIOUS
    <3>2. /\ ActiveBefore(grown, Len(grown) + 1) = ActiveBefore(log, Len(log) + 1) \ {}
          /\ DeclaredBefore(grown, Len(grown) + 1) = DeclaredBefore(log, Len(log) + 1)
      <4> DEFINE gone == {}
      <4> HIDE DEF grown, log, e
      <4>1. log \in Seq(ReviewEvents) /\ grown = Append(log, e) /\ gone \in SUBSET Bundles
        BY <1>1, <1>3, <3>1
      <4>2. /\ \A x \in Bundles : e # Event("bundle-added", x)
            /\ \A x \in Bundles : e = Event("bundle-removed", x) <=> x \in gone
        BY <1>5
      <4> HIDE DEF gone
      <4>3. /\ ActiveBefore(grown, Len(grown) + 1) = ActiveBefore(log, Len(log) + 1) \ gone
            /\ DeclaredBefore(grown, Len(grown) + 1) = DeclaredBefore(log, Len(log) + 1)
        BY <1>2, <4>1, <4>2, AfterOther
      <4> QED
        BY <4>3 DEF gone
    <3> QED
      BY <1>3, <3>2 DEF Sound, LogExplains
  <2> HIDE DEF e
  <2> QED
    BY <1>2, <1>3, <1>5, <2>1, GrownLogExplains
<1>7. IndexIsExact(new)
  BY <1>3 DEF Sound, IndexIsExact
<1>8. DevicesAreKept(new) /\ ClaimsStand(new)
  <2> HIDE DEF e
  <2> QED
    BY <1>2, <1>3, <1>5, ClaimsStay
<1>9. AreSnapshots(new)
  <2> SUFFICES ASSUME NEW x \in Regions
               PROVE  /\ ProposedAt(grown, x) = {} => CandidatesOf(new, x) = {}
                      /\ \A last \in ProposedAt(grown, x) :
                          (\A j \in ProposedAt(grown, x) : j <= last) =>
                              CandidatesOf(new, x) = {Candidate(ActiveBefore(grown, last),
                                                                DeclaredBefore(grown, last), x)}
    BY DEF AreSnapshots
  <2>1. \A last \in 1..(Len(log) + 1) :
          /\ ActiveBefore(grown, last) = ActiveBefore(log, last)
          /\ DeclaredBefore(grown, last) = DeclaredBefore(log, last)
    BY <1>1, <1>2, <1>3, PastStays
  <2>2. Candidate(reg.bundles, reg.declarations, r).region = r
    BY <1>1, CandidateType DEF Registries
  <2>3. CASE x = r
    <3>1. Len(log) + 1 \in ProposedAt(grown, x)
      BY <1>4, <2>3 DEF ProposedAt
    <3>2. CandidatesOf(new, x) = {Candidate(reg.bundles, reg.declarations, r)}
      BY <1>3, <2>2, <2>3 DEF CandidatesOf
    <3>3. /\ reg.bundles = ActiveBefore(grown, Len(log) + 1)
          /\ reg.declarations = DeclaredBefore(grown, Len(log) + 1)
      BY <1>4, <2>1 DEF Sound, LogExplains
    <3>4. ASSUME NEW last \in ProposedAt(grown, x), \A j \in ProposedAt(grown, x) : j <= last
          PROVE  last = Len(log) + 1
      BY <1>4, <3>1, <3>4 DEF ProposedAt
    <3> QED
      BY <2>3, <3>1, <3>2, <3>3, <3>4
  <2>4. CASE x # r
    <3>1. e # Event("candidate-proposed", x)
      BY <1>5, <2>4
    <3>2. ProposedAt(grown, x) = ProposedAt(log, x)
      BY <1>4, <3>1 DEF ProposedAt
    <3>3. CandidatesOf(new, x) = CandidatesOf(reg, x)
      BY <1>3, <2>2, <2>4 DEF CandidatesOf
    <3>4. \A last \in ProposedAt(log, x) : last \in 1..(Len(log) + 1)
      BY <1>4 DEF ProposedAt
    <3> QED
      BY <2>1, <3>2, <3>3, <3>4 DEF Sound, AreSnapshots
  <2> QED
    BY <2>3, <2>4
<1> QED
  BY <1>3, <1>6, <1>7, <1>8, <1>9 DEF Sound, new

-----------------------------------------------------------------------------
(* Theorems about commands that run as they please.                        *)

RegistryInv ==
    /\ Sound(registry)
    /\ pc \in [Processes -> Steps]
    /\ mem \in [Processes -> Registries]
    /\ \A p \in Processes : Sound(mem[p])

LEMMA RegistryInit == Init => RegistryInv
<1> SUFFICES ASSUME Init PROVE RegistryInv
  OBVIOUS
<1>1. NewRegistry \in Registries
  BY NewRegistrySound DEF Sound
<1> QED
  BY <1>1, NewRegistrySound DEF Init, RegistryInv, Steps

\* A command that has a sound registry in memory.
LEMMA MemorySound ==
    ASSUME RegistryInv, NEW p \in Processes, NEW step \in Steps, NEW reg, Sound(reg),
           registry' = registry \/ registry' = mem[p],
           pc' = [pc EXCEPT ![p] = step],
           mem' = [mem EXCEPT ![p] = reg]
    PROVE  RegistryInv'
<1>1. reg \in Registries
  BY DEF Sound
<1>2. Sound(registry')
  BY DEF RegistryInv
<1>3. \A q \in Processes : Sound(mem'[q])
  BY DEF RegistryInv
<1> QED
  BY <1>1, <1>2, <1>3 DEF RegistryInv

LEMMA RegistryStep ==
    ASSUME RegistryInv, [Next]_vars
    PROVE  RegistryInv'
<1>1. CASE UNCHANGED vars
  BY <1>1 DEF vars, RegistryInv
<1>2. ASSUME NEW p \in Processes, Load(p)
      PROVE  RegistryInv'
  BY <1>2, MemorySound DEF Load, RegistryInv, Steps
<1>3. ASSUME NEW p \in Processes, NEW b \in Bundles, RegistryAdd(p, b)
      PROVE  RegistryInv'
  <2>1. Sound(Added(mem[p], b))
    BY <1>3, AddedSound DEF RegistryAdd, RegistryInv
  <2> QED
    BY <1>3, <2>1, MemorySound DEF RegistryAdd, Change, Steps
<1>4. ASSUME NEW p \in Processes, NEW b \in Bundles, ImportContribution(p, b)
      PROVE  RegistryInv'
  <2>1. Sound(AddedIfNew(mem[p], b))
    BY AddedIfNewSound DEF RegistryInv
  <2> QED
    BY <1>4, <2>1, MemorySound DEF ImportContribution, Change, Steps
<1>5. ASSUME NEW p \in Processes, NEW b \in Bundles, RegistryRemove(p, b)
      PROVE  RegistryInv'
  <2>1. Sound(Removed(mem[p], b))
    BY <1>5, RemovedSound DEF RegistryRemove, RegistryInv
  <2> QED
    BY <1>5, <2>1, MemorySound DEF RegistryRemove, Change, Steps
<1>6. ASSUME NEW p \in Processes, NEW r \in Regions, ProposeDiscriminator(p, r)
      PROVE  RegistryInv'
  <2>1. Sound(Proposed(mem[p], r))
    BY ProposedSound DEF RegistryInv
  <2> QED
    BY <1>6, <2>1, MemorySound DEF ProposeDiscriminator, Change, Steps
<1>7. ASSUME NEW p \in Processes, Replace(p) \/ End(p)
      PROVE  RegistryInv'
  BY <1>7, NewRegistrySound, MemorySound DEF Replace, End, Stop, Steps
<1> QED
  BY <1>1, <1>2, <1>3, <1>4, <1>5, <1>6, <1>7 DEF Next

\* Whatever commands run at once and are killed: the registry in the file, and
\* each one in memory, is of its type, is what its log replays to, has an exact
\* device index, the first claims and the candidates of their moments.
THEOREM RegistryInvariant == Spec => []RegistryInv
BY RegistryInit, RegistryStep, PTL DEF Spec

\* The variables keep their types.
THEOREM RegistryTypeCorrect == Spec => []TypeOK
<1>1. RegistryInv => TypeOK
  BY DEF RegistryInv, Sound, TypeOK
<1> QED
  BY <1>1, RegistryInvariant, PTL

\* The log explains the registry of the file, lock or no lock: a command that
\* loses what another one wrote loses its events with it.
THEOREM LogIsTheHistory == Spec => []LogExplainsRegistry
<1>1. RegistryInv => LogExplainsRegistry
  BY DEF RegistryInv, Sound, LogExplainsRegistry
<1> QED
  BY <1>1, RegistryInvariant, PTL

\* The device records index exactly the active bundles of their radios.
THEOREM IndexStaysExact == Spec => []DeviceIndexExact
<1>1. RegistryInv => DeviceIndexExact
  BY DEF RegistryInv, Sound, DeviceIndexExact
<1> QED
  BY <1>1, RegistryInvariant, PTL

\* What a device was first declared to be stands.
THEOREM FirstClaimsLast == Spec => []FirstClaimStands
<1>1. RegistryInv => FirstClaimStands
  BY DEF RegistryInv, Sound, FirstClaimStands
<1> QED
  BY <1>1, RegistryInvariant, PTL

\* A candidate is what the log says it was supported by when it was proposed.
THEOREM CandidatesWereTrue == Spec => []CandidatesAreSnapshots
<1>1. RegistryInv => CandidatesAreSnapshots
  BY DEF RegistryInv, Sound, CandidatesAreSnapshots
<1> QED
  BY <1>1, RegistryInvariant, PTL

-----------------------------------------------------------------------------
(* Theorems about commands their callers run one at a time.                *)

LogGrew(old, new) ==
    /\ Len(old) <= Len(new)
    /\ \A i \in 1..Len(old) : new[i] = old[i]

\* What additions make of a registry.
Extended(old, new) ==
    /\ LogGrew(old.review_events, new.review_events)
    /\ old.bundles \subseteq new.bundles
    /\ new.declarations =
        old.declarations \cup UNION {File[b].declarations : b \in new.bundles \ old.bundles}
    /\ new.candidates = old.candidates

\* What a command on its way has in memory, compared with the file.
Continues(p) ==
    /\ pc[p] = "loaded" => mem[p] = registry
    /\ pc[p] \in {"adding", "importing"} => Extended(registry, mem[p])
    /\ pc[p] = "changed" =>
        \/ \E b \in registry.bundles : mem[p] = Removed(registry, b)
        \/ \E r \in Regions : mem[p] = Proposed(registry, r)

LockedInv ==
    /\ RegistryInv
    /\ \A p, q \in Processes : pc[p] # "idle" /\ pc[q] # "idle" => p = q
    /\ \A p \in Processes : Continues(p)

LEMMA LockedInit == Init => LockedInv
BY RegistryInit DEF Init, LockedInv, Continues

LEMMA ExtendedItself ==
    ASSUME NEW reg \in Registries
    PROVE  Extended(reg, reg)
<1>1. Len(reg.review_events) \in Nat
  BY DEF Registries
<1> QED
  BY <1>1 DEF Extended, LogGrew

LEMMA ExtendedByAddition ==
    ASSUME NEW old \in Registries, NEW reg \in Registries, Extended(old, reg),
           NEW b \in Bundles, b \notin reg.bundles
    PROVE  Extended(old, Added(reg, b))
<1> DEFINE new == Added(reg, b)
<1>1. /\ new.bundles = reg.bundles \cup {b}
      /\ new.declarations = reg.declarations \cup File[b].declarations
      /\ new.candidates = reg.candidates
      /\ new.review_events = Append(reg.review_events, Event("bundle-added", b))
  BY AddedFields
<1>2. /\ old.review_events \in Seq(ReviewEvents) /\ reg.review_events \in Seq(ReviewEvents)
      /\ Event("bundle-added", b) \in ReviewEvents
  BY EventType DEF Registries
<1> HIDE DEF new
<1>3. LogGrew(old.review_events, new.review_events)
  <2>1. LogGrew(old.review_events, reg.review_events)
    BY DEF Extended
  <2>2. /\ Len(reg.review_events) \in Nat
        /\ Len(new.review_events) = Len(reg.review_events) + 1
        /\ \A i \in 1..Len(reg.review_events) : new.review_events[i] = reg.review_events[i]
    BY <1>1, <1>2, AppendFacts
  <2>3. Len(old.review_events) \in Nat
    BY <1>2
  <2> QED
    BY <2>1, <2>2, <2>3 DEF LogGrew
<1>4. b \notin old.bundles
  BY DEF Extended
<1>5. new.bundles \ old.bundles = (reg.bundles \ old.bundles) \cup {b}
  BY <1>1, <1>4
<1>6. UNION {File[x].declarations : x \in new.bundles \ old.bundles} =
        File[b].declarations \cup UNION {File[x].declarations : x \in reg.bundles \ old.bundles}
  BY <1>5
<1> QED
  BY <1>1, <1>3, <1>6 DEF Extended, new

\* A command that goes on, or starts when none is running.
LEMMA CommandContinues ==
    ASSUME LockedInv, RegistryInv', NEW p \in Processes, NEW step,
           pc[p] # "idle" \/ \A q \in Processes : pc[q] = "idle",
           pc' = [pc EXCEPT ![p] = step], NEW reg, mem' = [mem EXCEPT ![p] = reg],
           registry' = registry, Continues(p)'
    PROVE  LockedInv'
<1>1. pc \in [Processes -> Steps] /\ mem \in [Processes -> Registries]
  BY DEF LockedInv, RegistryInv
<1>2. \A q \in Processes : q # p => pc'[q] = pc[q] /\ mem'[q] = mem[q]
  BY <1>1
<1>3. \A q \in Processes : Continues(q)'
  BY <1>2 DEF LockedInv, Continues
<1>4. \A q \in Processes : q # p => pc'[q] = "idle"
  BY <1>2 DEF LockedInv
<1> QED
  BY <1>3, <1>4 DEF LockedInv

\* The command that ran has ended.
LEMMA CommandEnds ==
    ASSUME LockedInv, RegistryInv', NEW p \in Processes, pc[p] # "idle", Stop(p)
    PROVE  LockedInv'
<1>1. pc \in [Processes -> Steps]
  BY DEF LockedInv, RegistryInv
<1>2. \A q \in Processes : pc'[q] = "idle"
  BY <1>1 DEF LockedInv, Stop
<1> QED
  BY <1>2 DEF LockedInv, Continues

LEMMA LockedStep ==
    ASSUME ExternalLock, LockedInv, [Next]_vars
    PROVE  LockedInv'
<1>1. RegistryInv'
  BY RegistryStep DEF LockedInv
<1>2. /\ pc \in [Processes -> Steps] /\ mem \in [Processes -> Registries]
      /\ registry \in Registries
  BY DEF LockedInv, RegistryInv, Sound
<1>3. CASE UNCHANGED vars
  BY <1>1, <1>3 DEF vars, LockedInv, Continues
<1>4. ASSUME NEW p \in Processes, Load(p)
      PROVE  LockedInv'
  <2>1. Continues(p)'
    BY <1>2, <1>4 DEF Load, Continues
  <2> QED
    BY <1>1, <1>4, <2>1, CommandContinues DEF Load
<1>5. ASSUME NEW p \in Processes, NEW b \in Bundles, RegistryAdd(p, b)
      PROVE  LockedInv'
  <2>1. Extended(registry, mem[p])
    BY <1>2, <1>5, ExtendedItself DEF RegistryAdd, LockedInv, Continues
  <2>2. Extended(registry, Added(mem[p], b))
    BY <1>2, <1>5, <2>1, ExtendedByAddition DEF RegistryAdd
  <2>3. Continues(p)'
    BY <1>2, <1>5, <2>2 DEF RegistryAdd, Change, Continues
  <2> QED
    BY <1>1, <1>5, <2>3, CommandContinues DEF RegistryAdd, Change
<1>6. ASSUME NEW p \in Processes, NEW b \in Bundles, ImportContribution(p, b)
      PROVE  LockedInv'
  <2>1. Extended(registry, mem[p])
    BY <1>2, <1>6, ExtendedItself DEF ImportContribution, LockedInv, Continues
  <2>2. Extended(registry, AddedIfNew(mem[p], b))
    BY <1>2, <2>1, ExtendedByAddition DEF AddedIfNew
  <2>3. Continues(p)'
    BY <1>2, <1>6, <2>2 DEF ImportContribution, Change, Continues
  <2> QED
    BY <1>1, <1>6, <2>3, CommandContinues DEF ImportContribution, Change
<1>7. ASSUME NEW p \in Processes, NEW b \in Bundles, RegistryRemove(p, b)
      PROVE  LockedInv'
  <2>1. mem[p] = registry
    BY <1>7 DEF RegistryRemove, LockedInv, Continues
  <2>2. Continues(p)'
    BY <1>2, <1>7, <2>1 DEF RegistryRemove, Change, Continues
  <2> QED
    BY <1>1, <1>7, <2>2, CommandContinues DEF RegistryRemove, Change
<1>8. ASSUME NEW p \in Processes, NEW r \in Regions, ProposeDiscriminator(p, r)
      PROVE  LockedInv'
  <2>1. mem[p] = registry
    BY <1>8 DEF ProposeDiscriminator, LockedInv, Continues
  <2>2. Continues(p)'
    BY <1>2, <1>8, <2>1 DEF ProposeDiscriminator, Change, Continues
  <2> QED
    BY <1>1, <1>8, <2>2, CommandContinues DEF ProposeDiscriminator, Change
<1>9. ASSUME NEW p \in Processes, Replace(p) \/ End(p)
      PROVE  LockedInv'
  BY <1>1, <1>9, CommandEnds DEF Replace, End
<1> QED
  BY <1>3, <1>4, <1>5, <1>6, <1>7, <1>8, <1>9 DEF Next

THEOREM LockedRegistryInvariant ==
    ASSUME ExternalLock
    PROVE  Spec => []LockedInv
BY LockedInit, LockedStep, PTL DEF Spec

\* A step keeps the file, or makes of it what one command makes.
LEMMA FileStep ==
    ASSUME LockedInv, [Next]_vars
    PROVE  \/ registry' = registry
           \/ Extended(registry, registry')
           \/ \E b \in registry.bundles : registry' = Removed(registry, b)
           \/ \E r \in Regions : registry' = Proposed(registry, r)
<1>1. CASE UNCHANGED vars
  BY <1>1 DEF vars
<1>2. ASSUME NEW p \in Processes, Replace(p)
      PROVE  \/ Extended(registry, registry')
             \/ \E b \in registry.bundles : registry' = Removed(registry, b)
             \/ \E r \in Regions : registry' = Proposed(registry, r)
  BY <1>2 DEF Replace, LockedInv, Continues
<1>3. ASSUME NEW p \in Processes, ~ Replace(p),
             \/ Load(p) \/ End(p)
             \/ \E b \in Bundles :
                    RegistryAdd(p, b) \/ ImportContribution(p, b) \/ RegistryRemove(p, b)
             \/ \E r \in Regions : ProposeDiscriminator(p, r)
      PROVE  registry' = registry
  BY <1>3 DEF Load, End, RegistryAdd, ImportContribution, RegistryRemove,
              ProposeDiscriminator, Change
<1> QED
  BY <1>1, <1>2, <1>3 DEF Next

LEMMA ConflictsGrow ==
    ASSUME NEW old, NEW new, old \subseteq new
    PROVE  HardwareConflicts(old) \subseteq HardwareConflicts(new)
BY DEF HardwareConflicts, DeclaredValues, Active, Several

LEMMA GrewIsPrefix ==
    ASSUME NEW S, NEW s \in Seq(S), NEW t \in Seq(S), LogGrew(s, t)
    PROVE  IsPrefix(s, t)
<1>1. SubSeq(s, 1, Len(s)) = SubSeq(t, 1, Len(s))
  BY DEF LogGrew
<1> QED
  BY <1>1 DEF LogGrew, IsPrefix

LEMMA AppendGrew ==
    ASSUME NEW s \in Seq(ReviewEvents), NEW e \in ReviewEvents
    PROVE  LogGrew(s, s) /\ LogGrew(s, Append(s, e))
BY AppendFacts DEF LogGrew

\* Under a lock no contradiction between declarations is ever cleared and no
\* event lost, whichever bundles are removed and whoever is killed.
THEOREM ConflictsStay ==
    ASSUME ExternalLock
    PROVE  Spec => ConflictsAreNeverCleared
<1>1. ASSUME LockedInv, [Next]_vars
      PROVE  /\ IsPrefix(registry.review_events, registry'.review_events)
             /\ HardwareConflicts(registry.declarations)
                    \subseteq HardwareConflicts(registry'.declarations)
  <2>1. LockedInv'
    BY <1>1, LockedStep
  <2>2. /\ registry \in Registries /\ registry' \in Registries
        /\ registry.review_events \in Seq(ReviewEvents)
        /\ registry'.review_events \in Seq(ReviewEvents)
    BY <1>1, <2>1 DEF LockedInv, RegistryInv, Sound, Registries
  <2>3. /\ LogGrew(registry.review_events, registry'.review_events)
        /\ registry.declarations \subseteq registry'.declarations
    <3>1. CASE registry' = registry
      <4>1. Len(registry.review_events) \in Nat
        BY <2>2
      <4> QED
        BY <3>1, <4>1 DEF LogGrew
    <3>2. CASE Extended(registry, registry')
      BY <3>2 DEF Extended
    <3>3. ASSUME NEW b \in registry.bundles, registry' = Removed(registry, b)
          PROVE  /\ LogGrew(registry.review_events, registry'.review_events)
                 /\ registry.declarations \subseteq registry'.declarations
      <4>1. b \in Bundles
        BY <2>2 DEF Registries
      <4>2. /\ registry'.declarations = registry.declarations
            /\ registry'.review_events =
                 Append(registry.review_events, Event("bundle-removed", b))
        BY <2>2, <3>3, <4>1, RemovedFields
      <4> QED
        BY <2>2, <4>1, <4>2, EventType, AppendGrew
    <3>4. ASSUME NEW r \in Regions, registry' = Proposed(registry, r)
          PROVE  /\ LogGrew(registry.review_events, registry'.review_events)
                 /\ registry.declarations \subseteq registry'.declarations
      BY <2>2, <3>4, ProposedFields, EventType, AppendGrew
    <3> QED
      BY <1>1, <3>1, <3>2, <3>3, <3>4, FileStep
  <2> QED
    BY <2>2, <2>3, GrewIsPrefix, ConflictsGrow
<1> QED
  BY <1>1, LockedRegistryInvariant, PTL DEF Spec, ConflictsAreNeverCleared

\* Under a lock the registry implements the view that governance has of it.
THEOREM RegistryImplementsView ==
    ASSUME ExternalLock
    PROVE  Spec => ImplementsView
<1> DEFINE Shown(reg) == {[region |-> c.region, bundles |-> c.bundles] : c \in reg.candidates}
<1>1. Init => View!ViewInit
  BY DEF Init, NewRegistry, View!ViewInit
<1>2. ASSUME LockedInv, [Next]_vars
      PROVE  [View!ViewNext]_(View!viewVars)
  <2>1. registry \in Registries /\ registry' \in Registries
    BY <1>2, LockedStep DEF LockedInv, RegistryInv, Sound
  <2>2. CASE registry' = registry
    BY <2>2 DEF View!viewVars
  <2>3. CASE Extended(registry, registry')
    <3> DEFINE new == registry'.bundles \ registry.bundles
    <3>1. /\ registry'.bundles = registry.bundles \cup new
          /\ new \cap registry.bundles = {}
          /\ new \in SUBSET Bundles
          /\ registry'.declarations =
                registry.declarations \cup UNION {File[b].declarations : b \in new}
          /\ registry'.candidates = registry.candidates
      BY <2>1, <2>3 DEF Extended, Registries
    <3> HIDE DEF new
    <3>2. CASE new = {}
      <4>1. registry'.bundles = registry.bundles /\ registry'.declarations = registry.declarations
        BY <3>1, <3>2
      <4> QED
        BY <3>1, <4>1 DEF View!viewVars
    <3>3. CASE new # {}
      <4>1. View!AddEvidence(new)
        BY <3>1, <3>3 DEF View!AddEvidence
      <4> QED
        BY <3>1, <4>1 DEF View!ViewNext
    <3> QED
      BY <3>2, <3>3
  <2>4. ASSUME NEW b \in registry.bundles, registry' = Removed(registry, b)
        PROVE  View!ViewNext
    <3>1. b \in Bundles
      BY <2>1 DEF Registries
    <3>2. /\ registry'.bundles = registry.bundles \ {b}
          /\ registry'.declarations = registry.declarations
          /\ registry'.candidates = registry.candidates
      BY <2>1, <2>4, <3>1, RemovedFields
    <3>3. View!RemoveEvidence(b)
      BY <3>2 DEF View!RemoveEvidence
    <3> QED
      BY <3>1, <3>3 DEF View!ViewNext
  <2>5. ASSUME NEW r \in Regions, registry' = Proposed(registry, r)
        PROVE  View!ViewNext
    <3> DEFINE new == Candidate(registry.bundles, registry.declarations, r)
    <3>1. /\ registry'.bundles = registry.bundles
          /\ registry'.declarations = registry.declarations
          /\ registry'.candidates = {c \in registry.candidates : c.region # r} \cup {new}
      BY <2>1, <2>5, ProposedFields
    <3>2. new.region = r /\ new.bundles = Supporting(registry.bundles, r)
      BY <2>1, CandidateType DEF Registries
    <3>3. View!Supporting(registry.bundles, r) = Supporting(registry.bundles, r)
      BY DEF View!Supporting, Supporting
    <3> HIDE DEF new
    <3>4. Shown(registry') = {c \in Shown(registry) : c.region # r}
                        \cup {[region |-> r, bundles |-> Supporting(registry.bundles, r)]}
      BY <3>1, <3>2
    <3>5. View!ProposeRegion(r)
      BY <3>1, <3>3, <3>4 DEF View!ProposeRegion
    <3> QED
      BY <3>5 DEF View!ViewNext
  <2> QED
    BY <1>2, <2>2, <2>3, <2>4, <2>5, FileStep
<1> QED
  BY <1>1, <1>2, LockedRegistryInvariant, PTL DEF Spec, ImplementsView, View!ViewSpec
=============================================================================
