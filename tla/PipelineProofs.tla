---------------------------- MODULE PipelineProofs ----------------------------
(***************************************************************************)
(* What holds of stability, fingerprints and radios for all captures; and, *)
(* whatever commands run side by side and whatever files are replaced,     *)
(* what is imported is sound evidence and own packages pass their review.  *)
(***************************************************************************)
EXTENDS EvidencePipeline, FiniteSetTheorems, TLAPS

-----------------------------------------------------------------------------
(* Naturals.                                                               *)

\* The library's induction takes a formula, which the provers cannot be
\* given; the least element of a set of naturals does instead.
LEMMA LeastElement ==
    ASSUME NEW T \in SUBSET Nat, T # {}
    PROVE  \E x \in T : \A y \in T : x <= y
<1> DEFINE W == {1..x : x \in T}
           R == StrictSubsetOrdering(Nat)
<1>1. W \subseteq FiniteSubsetsOf(Nat) /\ W # {}
  <2>1. \A x \in T : 1..x \subseteq Nat /\ IsFiniteSet(1..x)
    BY FS_Interval
  <2> QED
    BY <2>1 DEF FiniteSubsetsOf
<1>2. IsWellFoundedOn(R, FiniteSubsetsOf(Nat))
  BY FS_StrictSubsetOrderingWellFounded
<1>3. PICK w \in W : \A v \in W : <<v, w>> \notin R
  <2> HIDE DEF W, R
  <2> QED
    BY <1>1, <1>2, WFMin
<1>4. PICK x \in T : w = 1..x
  OBVIOUS
<1>5. ASSUME NEW y \in T, y < x PROVE FALSE
  <2>1. 1..y \in W /\ 1..y \subseteq 1..x /\ x \in 1..x /\ x \notin 1..y
    BY <1>5
  <2>2. <<1..y, 1..x>> \in R
    BY <2>1 DEF StrictSubsetOrdering
  <2> QED
    BY <1>3, <1>4, <2>1, <2>2
<1> QED
  BY <1>5

LEMMA GreatestElement ==
    ASSUME NEW n \in Nat, NEW T \in SUBSET (1..n), T # {}
    PROVE  \E x \in T : \A y \in T : y <= x
<1> DEFINE U == {n - x : x \in T}
<1>1. U \in SUBSET Nat /\ U # {}
  <2>1. \A x \in T : x \in 1..n /\ n - x \in Nat
    OBVIOUS
  <2> QED
    BY <2>1
<1>2. PICK u \in U : \A y \in U : u <= y
  BY <1>1, LeastElement
<1>3. PICK x \in T : u = n - x
  OBVIOUS
<1>4. \A y \in T : y <= x
  <2> SUFFICES ASSUME NEW y \in T PROVE y <= x
    OBVIOUS
  <2>1. n - y \in U
    OBVIOUS
  <2>2. n - x <= n - y
    BY <1>2, <1>3, <2>1
  <2>3. x \in Int /\ y \in Int
    OBVIOUS
  <2> QED
    BY <2>2, <2>3
<1> QED
  BY <1>4

LEMMA Bounded ==
    ASSUME NEW n \in Nat, NEW f \in [1..n -> Nat]
    PROVE  \E b \in Nat : \A i \in 1..n : f[i] <= b
<1> DEFINE Bound(k, b) == \A i \in 1..k : f[i] <= b
           Bad == {k \in 0..n : ~ \E b \in Nat : Bound(k, b)}
<1>1. Bad = {}
  <2> SUFFICES ASSUME Bad # {} PROVE FALSE
    OBVIOUS
  <2>1. PICK k \in Bad : \A j \in Bad : k <= j
    <3>1. Bad \in SUBSET Nat
      OBVIOUS
    <3> QED
      BY <3>1, LeastElement
  <2>2. k \in 1..n
    <3>1. k # 0
      OBVIOUS
    <3>2. k \in 0..n
      OBVIOUS
    <3> QED
      BY <3>1, <3>2
  <2>3. PICK b \in Nat : Bound(k - 1, b)
    <3>1. k - 1 \in 0..n /\ ~ (k <= k - 1)
      BY <2>2
    <3>2. k - 1 \notin Bad
      BY <2>1, <3>1
    <3> QED
      BY <3>1, <3>2
  <2> HIDE DEF Bad
  <2>4. PICK m \in Nat : b <= m /\ f[k] <= m
    <3>1. f[k] \in Nat
      BY <2>2
    <3>2. CASE b <= f[k]
      BY <3>1, <3>2
    <3>3. CASE f[k] < b
      BY <3>1, <3>3
    <3> QED
      BY <3>1, <3>2, <3>3
  <2>5. Bound(k, m)
    <3> SUFFICES ASSUME NEW i \in 1..k PROVE f[i] <= m
      OBVIOUS
    <3>1. i \in 1..n
      BY <2>2
    <3>2. f[i] \in Nat
      BY <3>1
    <3>3. CASE i = k
      BY <2>4, <3>3
    <3>4. CASE i # k
      <4>1. i \in 1..(k - 1)
        BY <2>2, <3>4
      <4>2. f[i] <= b
        BY <2>3, <4>1
      <4> QED
        BY <2>4, <3>2, <4>2
    <3> QED
      BY <3>3, <3>4
  <2> QED
    BY <2>2, <2>4, <2>5 DEF Bad
<1>2. n \in 0..n /\ n \notin Bad
  <2>1. n \in 0..n
    OBVIOUS
  <2> HIDE DEF Bad
  <2> QED
    BY <1>1, <2>1
<1> QED
  BY <1>2

-----------------------------------------------------------------------------
(* Stability.                                                              *)

LEMMA PayloadType ==
    ASSUME NEW c \in Captures
    PROVE  Payload(c) \in Seq(Octets) /\ Len(Payload(c)) \in Nat
BY DEF Payload, Captures

LEMMA PayloadsType ==
    ASSUME NEW C \in SUBSET Captures
    PROVE  Payloads(C) \in SUBSET Seq(Octets)
BY PayloadType DEF Payloads

\* More captures can make an octet variable and never make one stable that
\* was not (analyze_stability).
THEOREM StabilityShrinks ==
    ASSUME NEW P, NEW Q, P \subseteq Q, P # {}
    PROVE  StablePositions(Q) \subseteq StablePositions(P)
BY DEF StablePositions, Offsets

\* An octet that stays stable keeps its value.
LEMMA StableValuesAgree ==
    ASSUME NEW P, NEW Q, P \subseteq Q, P # {}, NEW o \in StablePositions(Q)
    PROVE  StableValues(P)[o] = StableValues(Q)[o]
<1>1. o \in StablePositions(P) /\ o \in Offsets(P) /\ o \in Offsets(Q)
  BY StabilityShrinks DEF StablePositions, Offsets
<1>2. PICK p \in P, q \in Q : p = (CHOOSE r \in P : TRUE) /\ q = (CHOOSE r \in Q : TRUE)
  OBVIOUS
<1>3. StableValues(P)[o] = p[o] /\ StableValues(Q)[o] = q[o]
  BY <1>1, <1>2 DEF StableValues
<1>4. p[o] = q[o]
  BY <1>2 DEF StablePositions
<1> QED
  BY <1>3, <1>4

-----------------------------------------------------------------------------
(* Radios.                                                                 *)

LEMMA RadioPayloadsAreAmongAll ==
    ASSUME NEW cs, NEW P \in RadioPayloads(cs)
    PROVE  P \subseteq Payloads(Range(cs))
BY DEF RadioPayloads, SameRadio, Payloads, Range

\* What is called specific to a radio varies over all the captures: no octet
\* is both a shared stable field and a device-specific one, whichever
\* captures have labels (compare_evidence).
THEOREM DeviceSpecificIsNotShared ==
    ASSUME NEW cs
    PROVE  DeviceSpecific(cs) \subseteq VariablePositions(Payloads(Range(cs)))
<1> SUFFICES ASSUME NEW o \in DeviceSpecific(cs)
             PROVE  o \in VariablePositions(Payloads(Range(cs)))
  OBVIOUS
<1> DEFINE All == Payloads(Range(cs))
<1>1. PICK P \in RadioPayloads(cs), Q \in RadioPayloads(cs) :
        /\ StableValues(P)[o] # StableValues(Q)[o]
        /\ o \in StablePositions(P) /\ o \in StablePositions(Q)
  BY DEF DeviceSpecific
<1>2. P \subseteq All /\ Q \subseteq All /\ P # {} /\ Q # {}
  BY <1>1, RadioPayloadsAreAmongAll DEF StablePositions, Offsets
<1>3. o \in Offsets(All)
  BY <1>1, <1>2 DEF StablePositions, Offsets
<1>4. o \notin StablePositions(All)
  BY <1>1, <1>2, StableValuesAgree
<1> QED
  BY <1>3, <1>4 DEF VariablePositions

-----------------------------------------------------------------------------
(* Fingerprints.                                                           *)

LEMMA OffsetsAreAnInterval ==
    ASSUME NEW cs \in Seq(Captures)
    PROVE  \E n \in Nat : Offsets(Payloads(Range(cs))) = 1..n
<1> DEFINE O == Offsets(Payloads(Range(cs)))
           lengths == [i \in 1..Len(cs) |-> Len(Payload(cs[i]))]
<1>1. \A i \in 1..Len(cs) : cs[i] \in Captures
  OBVIOUS
<1>2. lengths \in [1..Len(cs) -> Nat] /\ Len(cs) \in Nat
  BY <1>1, PayloadType
<1>3. PICK b \in Nat : \A i \in 1..Len(cs) : lengths[i] <= b
  <2> HIDE DEF lengths
  <2> QED
    BY <1>2, Bounded
<1>4. \A p \in Payloads(Range(cs)) : \E m \in 0..b : DOMAIN p = 1..m
  <2> SUFFICES ASSUME NEW p \in Payloads(Range(cs))
               PROVE  \E m \in 0..b : DOMAIN p = 1..m
    OBVIOUS
  <2>1. PICK i \in 1..Len(cs) : p = Payload(cs[i])
    BY DEF Payloads, Range
  <2>2. Len(p) \in Nat /\ Len(p) <= b /\ DOMAIN p = 1..Len(p)
    BY <1>1, <1>3, <2>1, PayloadType
  <2>3. Len(p) \in 0..b
    BY <2>2
  <2> QED
    BY <2>2, <2>3
<1>5. O \in SUBSET (1..b)
  BY <1>4 DEF Offsets
<1>6. CASE O = {}
  <2>1. O = 1..0
    BY <1>6
  <2> QED
    BY <2>1
<1>7. CASE O # {}
  <2>1. PICK m \in O : \A o \in O : o <= m
    <3> HIDE DEF O
    <3> QED
      BY <1>5, <1>7, GreatestElement
  <2>2. m \in Nat /\ O \subseteq 1..m
    BY <1>5, <2>1
  <2>3. PICK p \in Payloads(Range(cs)) : m \in DOMAIN p
    BY DEF Offsets
  <2>4. 1..m \subseteq DOMAIN p
    BY <1>4, <2>2, <2>3
  <2>5. 1..m \subseteq O
    BY <2>4 DEF Offsets
  <2> QED
    BY <2>2, <2>5
<1> QED
  BY <1>6, <1>7

LEMMA RangeOfCaptures ==
    ASSUME NEW cs \in Seq(Captures)
    PROVE  Range(cs) \in SUBSET Captures
BY DEF Range

LEMMA ProtocolType ==
    ASSUME NEW cs \in Seq(Captures)
    PROVE  Protocol(cs) \in Protocols \cup {"none"}
<1> DEFINE named == {i \in DOMAIN cs : cs[i].protocol # "none"}
<1>1. CASE named = {}
  BY <1>1 DEF Protocol
<1>2. CASE named # {}
  <2>1. named \in SUBSET Nat
    OBVIOUS
  <2>2. PICK i \in named : \A j \in named : i <= j
    <3> HIDE DEF named
    <3> QED
      BY <1>2, <2>1, LeastElement
  <2>3. Min(named) \in named
    <3> HIDE DEF named
    <3> QED
      BY <2>2 DEF Min
  <2>4. Protocol(cs) = cs[Min(named)].protocol
    BY <1>2 DEF Protocol
  <2>5. cs[Min(named)] \in Captures
    BY <2>3
  <2> HIDE DEF named
  <2> QED
    BY <2>4, <2>5 DEF Captures
<1> QED
  BY <1>1, <1>2

LEMMA FingerprintType ==
    ASSUME NEW cs \in Seq(Captures)
    PROVE  Fingerprint(cs) \in Fingerprints
<1> DEFINE P == Payloads(Range(cs))
<1>1. Range(cs) \in SUBSET Captures /\ P \in SUBSET Seq(Octets)
  BY RangeOfCaptures, PayloadsType
<1>2. PICK n \in Nat : Offsets(P) = 1..n
  BY OffsetsAreAnInterval
<1>3. StablePositions(P) \in SUBSET Nat
  BY <1>2 DEF StablePositions
<1>4. StableValues(P) \in Seq(Octets)
  <2>1. \A o \in 1..n : StableValues(P)[o] \in Octets
    <3> SUFFICES ASSUME NEW o \in 1..n PROVE StableValues(P)[o] \in Octets
      OBVIOUS
    <3>1. CASE o \in StablePositions(P)
      <4>1. P # {}
        BY <1>2 DEF Offsets
      <4>2. PICK p \in P : p = CHOOSE q \in P : TRUE
        BY <4>1
      <4>3. StableValues(P)[o] = p[o] /\ o \in DOMAIN p
        BY <1>2, <3>1, <4>2 DEF StableValues, StablePositions
      <4>4. p \in Seq(Octets)
        BY <1>1
      <4> QED
        BY <4>3, <4>4
    <3>2. CASE o \notin StablePositions(P)
      BY <1>2, <3>2 DEF StableValues, Octets
    <3> QED
      BY <3>1, <3>2
  <2>2. StableValues(P) = [o \in 1..n |-> StableValues(P)[o]]
    BY <1>2 DEF StableValues
  <2>3. StableValues(P) \in [1..n -> Octets]
    BY <2>1, <2>2
  <2> QED
    BY <2>3
<1>5. {Len(c.response) : c \in Range(cs)} \in SUBSET Nat
  BY <1>1 DEF Captures
<1>6. {c.checksum : c \in Range(cs)} \ {"none"} \in SUBSET ChecksumStatuses
  BY <1>1 DEF Captures
<1>7. Fingerprint(cs) =
        [protocol_family |-> Protocol(cs),
         mask |-> StablePositions(P), values |-> StableValues(P),
         response_lengths |-> {Len(c.response) : c \in Range(cs)},
         checksum_behaviors |-> {c.checksum : c \in Range(cs)} \ {"none"}]
  BY DEF Fingerprint
<1> HIDE DEF P
<1> QED
  BY <1>3, <1>4, <1>5, <1>6, <1>7, ProtocolType DEF Fingerprints

\* Captures in which the same was observed, whatever their times and labels,
\* in whatever order and however often they are given, have one fingerprint
\* exactly when the first protocol detected in them is the same
\* (build_fingerprint).
THEOREM FingerprintsOfTheSameEvidence ==
    ASSUME NEW cs, NEW ds, SameEvidence(cs, ds)
    PROVE  Fingerprint(cs) = Fingerprint(ds) <=> Protocol(cs) = Protocol(ds)
<1> DEFINE Alike(c, d) ==
             c.response = d.response /\ c.checksum = d.checksum /\ Payload(c) = Payload(d)
<1>1. \A c, d : Observed(c) = Observed(d) => Alike(c, d)
  BY DEF Observed, Payload
<1>2. /\ \A c \in Range(cs) : \E d \in Range(ds) : Observed(c) = Observed(d)
      /\ \A d \in Range(ds) : \E c \in Range(cs) : Observed(c) = Observed(d)
  BY DEF SameEvidence
<1>3. /\ Payloads(Range(cs)) = Payloads(Range(ds))
      /\ {Len(c.response) : c \in Range(cs)} = {Len(d.response) : d \in Range(ds)}
      /\ {c.checksum : c \in Range(cs)} = {d.checksum : d \in Range(ds)}
  <2>1. /\ \A c \in Range(cs) : \E d \in Range(ds) : Alike(c, d)
        /\ \A d \in Range(ds) : \E c \in Range(cs) : Alike(c, d)
    <3> HIDE DEF Alike
    <3> QED
      BY <1>1, <1>2
  <2>2. {Payload(c) : c \in Range(cs)} = {Payload(d) : d \in Range(ds)}
    BY <2>1
  <2>3. {Len(c.response) : c \in Range(cs)} = {Len(d.response) : d \in Range(ds)}
    BY <2>1
  <2>4. {c.checksum : c \in Range(cs)} = {d.checksum : d \in Range(ds)}
    BY <2>1
  <2> QED
    BY <2>2, <2>3, <2>4 DEF Payloads
<1>4. Fingerprint(cs).protocol_family = Protocol(cs)
        /\ Fingerprint(ds).protocol_family = Protocol(ds)
  BY DEF Fingerprint
<1> QED
  BY <1>3, <1>4 DEF Fingerprint


-----------------------------------------------------------------------------
(* Sanitizing.                                                             *)

LEMMA SanitizedType ==
    ASSUME NEW c \in Captures
    PROVE  /\ Sanitize(c) \in Captures
           /\ Sanitize(c).response = c.response
           /\ Sanitize(c).checksum = c.checksum
           /\ Sanitize(c).protocol = c.protocol
           /\ Sanitize(c).sound = c.sound
           /\ Sanitize(c).metadata.kind = "sanitized"
           /\ Label(Sanitize(c)) = NoLabel
<1> DEFINE m == [kind |-> "sanitized", group |-> NoLabel, alias |-> NoLabel,
                  changed |-> c.created # NormalizedTime]
<1>1. m \in Metadata
  BY DEF Metadata
<1>2. m.kind = "sanitized" /\ m.group = NoLabel /\ m.alias = NoLabel
  OBVIOUS
<1>3. Sanitize(c) = [c EXCEPT !.created = NormalizedTime, !.metadata = m]
  BY DEF Sanitize
<1>4. NormalizedTime \in Int
  BY DEF NormalizedTime
<1> HIDE DEF m
<1> QED
  BY <1>1, <1>2, <1>3, <1>4 DEF Captures, Label

\* What evidence-export takes away, labels and times, is no part of the
\* fingerprint, and neither is whether anything was taken away
\* (sanitize_capture, build_fingerprint).
THEOREM SanitizingKeepsFingerprints ==
    ASSUME NEW cs \in Seq(Captures)
    PROVE  Fingerprint([i \in DOMAIN cs |-> Sanitize(cs[i])]) = Fingerprint(cs)
<1> DEFINE clean == [i \in DOMAIN cs |-> Sanitize(cs[i])]
<1>1. \A i \in DOMAIN cs : /\ cs[i] \in Captures
                           /\ Observed(clean[i]) = Observed(cs[i])
                           /\ clean[i].protocol = cs[i].protocol
  BY SanitizedType DEF Observed
<1>2. DOMAIN clean = DOMAIN cs
  OBVIOUS
<1> HIDE DEF clean
<1>3. SameEvidence(clean, cs)
  BY <1>1, <1>2 DEF SameEvidence, Range
<1>4. Protocol(clean) = Protocol(cs)
  <2> DEFINE named(es) == {i \in DOMAIN es : es[i].protocol # "none"}
  <2>1. named(clean) = named(cs)
    BY <1>1, <1>2
  <2>2. CASE named(cs) = {}
    BY <2>1, <2>2 DEF Protocol
  <2>3. CASE named(cs) # {}
    <3>1. named(cs) \in SUBSET Nat
      OBVIOUS
    <3>2. PICK i \in named(cs) : \A j \in named(cs) : i <= j
      <4> HIDE DEF named
      <4> QED
        BY <2>3, <3>1, LeastElement
    <3>3. Min(named(cs)) \in named(cs)
      <4> HIDE DEF named
      <4> QED
        BY <3>2 DEF Min
    <3>4. Protocol(clean) = clean[Min(named(cs))].protocol
            /\ Protocol(cs) = cs[Min(named(cs))].protocol
      BY <2>1, <2>3 DEF Protocol
    <3> QED
      BY <1>1, <3>3, <3>4
  <2> QED
    BY <2>2, <2>3
<1>5. Fingerprint(clean) = Fingerprint(cs)
  BY <1>3, <1>4, FingerprintsOfTheSameEvidence
<1> QED
  BY <1>5 DEF clean

LEMMA ExportedFacts ==
    ASSUME NEW cs \in Seq(Captures)
    PROVE  /\ Exported(cs).fingerprint = Fingerprint(cs)
           /\ Exported(cs) \in Bundles
<1> DEFINE clean == [i \in DOMAIN cs |-> Sanitize(cs[i])]
<1>1. DOMAIN cs = 1..Len(cs) /\ \A i \in 1..Len(cs) : cs[i] \in Captures
  OBVIOUS
<1>2. clean \in Seq(Captures)
  BY <1>1, SanitizedType
<1>3. Exported(cs) = [captures |-> clean, fingerprint |-> Fingerprint(clean),
                      declarations |-> << >>]
  BY DEF Exported
<1>4. Fingerprint(clean) \in Fingerprints
  BY <1>2, FingerprintType
<1>5. Fingerprint(clean) = Fingerprint(cs)
  BY SanitizingKeepsFingerprints
<1> HIDE DEF clean
<1> QED
  BY <1>2, <1>3, <1>4, <1>5 DEF Bundles

-----------------------------------------------------------------------------
(* Facts about bundles and packages.                                       *)

LEMMA NoBundleFacts == NoBundle \notin Bundles /\ ~ ValidateBundle(NoBundle)
<1>1. NoBundle.captures = << >>
  BY DEF NoBundle
<1>2. DOMAIN NoBundle = {"captures"}
  BY DEF NoBundle
<1>3. \A b \in Bundles : DOMAIN b = {"captures", "fingerprint", "declarations"}
  BY DEF Bundles
<1>4. {"captures"} # {"captures", "fingerprint", "declarations"}
  <2>1. "fingerprint" # "captures"
    OBVIOUS
  <2> QED
    BY <2>1
<1> QED
  BY <1>1, <1>2, <1>3, <1>4 DEF ValidateBundle

LEMMA UndeclaredFacts ==
    ASSUME NEW b \in Bundles
    PROVE  /\ Undeclared(b).fingerprint = b.fingerprint
           /\ \A d \in Seq(Declarations) : [b EXCEPT !.declarations = d] \in Bundles
<1>1. b = [captures |-> b.captures, fingerprint |-> b.fingerprint,
           declarations |-> b.declarations]
  BY DEF Bundles
<1>2. b.captures \in Seq(Captures) /\ b.fingerprint \in Fingerprints
  BY DEF Bundles
<1> DEFINE With(d) == [captures |-> b.captures, fingerprint |-> b.fingerprint,
                       declarations |-> d]
<1>3. ASSUME NEW d
      PROVE  /\ [b EXCEPT !.declarations = d] = With(d)
             /\ With(d).fingerprint = b.fingerprint
             /\ d \in Seq(Declarations) => With(d) \in Bundles
  BY <1>1, <1>2 DEF Bundles
<1> HIDE DEF With
<1> QED
  BY <1>3 DEF Undeclared

LEMMA MembersFacts ==
    ASSUME NEW members \in Seq(Members), NEW i \in DOMAIN members
    PROVE  members[i].data \in Bundles \cup {NoBundle} /\ members[i].name \in Bundles
<1>1. members[i] \in Members
  OBVIOUS
<1> QED
  BY <1>1 DEF Members

LEMMA ContentFacts ==
    ASSUME NEW q \in Packages, NEW name, Named(q, name) # {}
    PROVE  \E i \in DOMAIN q.members :
                /\ Content(q, name) = q.members[i].data
                /\ q.members[i].name = name
                /\ \A j \in Named(q, name) : j <= i
<1> DEFINE N == Named(q, name)
<1>1. q.members \in Seq(Members)
  BY DEF Packages
<1>2. Len(q.members) \in Nat /\ N \in SUBSET (1..Len(q.members)) /\ N # {}
  BY <1>1 DEF Named
<1>3. \E i \in N : \A j \in N : j <= i
  <2> HIDE DEF N
  <2> QED
    BY <1>2, GreatestElement
<1>4. PICK i \in N : /\ i = (CHOOSE k \in N : \A j \in N : j <= k)
                     /\ \A j \in N : j <= i
  BY <1>3
<1>5. Content(q, name) = q.members[i].data
  BY <1>4 DEF Content
<1> QED
  BY <1>4, <1>5 DEF Named

LEMMA PlannedFacts ==
    ASSUME NEW q \in Packages,
           \A i \in DOMAIN q.manifest :
                Named(q, q.manifest[i]) # {} /\ Content(q, q.manifest[i]) # NoBundle
    PROVE  Planned(q) \in Seq(Additions)
<1>1. q.manifest \in Seq(Bundles) /\ q.declarations \in Seq(Declarations)
        /\ q.members \in Seq(Members)
  BY DEF Packages
<1>2. \A i \in DOMAIN q.manifest : Content(q, q.manifest[i]) \in Bundles
  <2> SUFFICES ASSUME NEW i \in DOMAIN q.manifest
               PROVE  Content(q, q.manifest[i]) \in Bundles
    OBVIOUS
  <2>1. PICK j \in DOMAIN q.members : Content(q, q.manifest[i]) = q.members[j].data
    BY ContentFacts
  <2>2. q.members[j].data \in Bundles \cup {NoBundle}
    BY <1>1, MembersFacts
  <2> QED
    BY <2>1, <2>2
<1>3. DOMAIN Planned(q) = 1..Len(q.manifest) /\ DOMAIN q.manifest = 1..Len(q.manifest)
        /\ Len(q.manifest) \in Nat
  BY <1>1 DEF Planned
<1>4. FirstLabel(q.declarations) \in Labels \cup {NoLabel}
  <2>1. CASE q.declarations = << >>
    BY <2>1 DEF FirstLabel
  <2>2. CASE q.declarations # << >>
    <3>1. q.declarations[1] \in Declarations
      BY <1>1, <2>2
    <3> QED
      BY <2>2, <3>1 DEF FirstLabel, Declarations
  <2> QED
    BY <2>1, <2>2
<1>5. ASSUME NEW i \in 1..Len(q.manifest)
      PROVE  Planned(q)[i] \in Additions
  <2> DEFINE b == Content(q, q.manifest[i])
  <2>1. b \in Bundles
    BY <1>2, <1>3
  <2>2. CASE i = 1 /\ q.declarations # << >>
    <3> DEFINE d == [b EXCEPT !.declarations = q.declarations]
    <3>1. d \in Bundles
      BY <1>1, <2>1, UndeclaredFacts
    <3>2. Planned(q)[i] = [bundle |-> d, label |-> FirstLabel(q.declarations)]
      BY <1>3, <2>2 DEF Planned
    <3> HIDE DEF d, b
    <3> QED
      BY <1>4, <3>1, <3>2 DEF Additions
  <2>3. CASE ~(i = 1 /\ q.declarations # << >>)
    <3>1. Planned(q)[i] = [bundle |-> b, label |-> NoLabel]
      BY <1>3, <2>3 DEF Planned
    <3> HIDE DEF b
    <3> QED
      BY <2>1, <3>1 DEF Additions
  <2> QED
    BY <2>2, <2>3
<1>6. Planned(q) = [i \in 1..Len(q.manifest) |-> Planned(q)[i]]
  BY <1>3 DEF Planned
<1>7. Planned(q) \in Seq(Additions)
  <2>1. Planned(q) \in [1..Len(q.manifest) -> Additions]
    BY <1>5, <1>6
  <2> QED
    BY <1>3, <2>1
<1> QED
  BY <1>7

-----------------------------------------------------------------------------
(* The inductive invariant.                                                *)

\* A manifest: no bundle twice, valid or not.
Ready(manifest) == manifest \in Seq(Bundles) /\ IsInjective(manifest)

SoundRegistry(reg) ==
    /\ reg \in Registries
    /\ \A b \in reg.bundles : Cardinality(SourceLabels(b)) <= 1
    /\ \A b \in reg.imported : b \in reg.bundles /\ ValidateBundle(b)

ToDo == Seq(BundlePaths) \cup Seq(Files) \cup Seq(Additions)

Consistent(step, list) ==
    /\ step \in {"packing", "checked"} => list \in Seq(BundlePaths)
    /\ step \in {"adding", "valid"} => list \in Seq(Files)
    /\ step \in {"checked", "valid"} => list # << >>
    /\ step = "importing" => list \in Seq(Additions)

CommandsInv ==
    /\ pc \in [Processes -> Steps]
    /\ todo \in [Processes -> ToDo]
    /\ packed \in [Processes -> Seq(Bundles)]
    /\ mem \in [Processes -> Registries]
    /\ \A p \in Processes :
        /\ Consistent(pc[p], todo[p])
        /\ Ready(packed[p])
        /\ SoundRegistry(mem[p])

BundlesInv == bundles \in [BundlePaths -> Bundles \cup {NoBundle}]

PackageInv ==
    /\ package \in Packages \cup {NoPackage}
    /\ ours \in BOOLEAN
    /\ ours => \E manifest \in Seq(Bundles), declarations \in DeclarationLists,
                  notes \in {"text", "url"} :
                    /\ Ready(manifest)
                    /\ package = Contribution(manifest, declarations, notes)

EvidenceInv == CommandsInv /\ BundlesInv /\ PackageInv /\ SoundRegistry(registry)

LEMMA EvidenceInvIsTyped == EvidenceInv => TypeOK
BY DEF EvidenceInv, CommandsInv, BundlesInv, PackageInv, SoundRegistry, TypeOK, ToDo

-----------------------------------------------------------------------------
(* Registry operations.                                                    *)

LEMMA NewRegistryFacts ==
    NewRegistry \in Registries /\ NewRegistry.bundles = {} /\ NewRegistry.imported = {}
BY DEF NewRegistry, Registries

LEMMA AddedFacts ==
    ASSUME NEW reg \in Registries, NEW b \in Bundles
    PROVE  /\ Added(reg, b) \in Registries
           /\ Added(reg, b).bundles = reg.bundles \cup {b}
           /\ Added(reg, b).imported = reg.imported
<1>1. Event("bundle-added", b) \in Events
  BY DEF Event, Events
<1>2. Append(reg.events, Event("bundle-added", b)) \in Seq(Events)
  BY <1>1 DEF Registries
<1> QED
  BY <1>2 DEF Added, Registries

LEMMA RemovedFacts ==
    ASSUME NEW reg \in Registries, NEW b \in reg.bundles
    PROVE  /\ Removed(reg, b) \in Registries
           /\ Removed(reg, b).bundles = reg.bundles \ {b}
           /\ Removed(reg, b).imported = reg.imported \ {b}
<1>1. Event("bundle-removed", b) \in Events
  BY DEF Event, Events, Registries
<1>2. Append(reg.events, Event("bundle-removed", b)) \in Seq(Events)
  BY <1>1 DEF Registries
<1> QED
  BY <1>2 DEF Removed, Registries

LEMMA ProposedFacts ==
    ASSUME NEW reg \in Registries, NEW offset \in Regions
    PROVE  /\ Proposed(reg, offset) \in Registries
           /\ Proposed(reg, offset).bundles = reg.bundles
           /\ Proposed(reg, offset).imported = reg.imported
<1>1. Event("candidate-proposed", offset) \in Events
  BY DEF Event, Events
<1>2. Append(reg.events, Event("candidate-proposed", offset)) \in Seq(Events)
  BY <1>1 DEF Registries
<1>3. ASSUME NEW b \in Bundles
      PROVE  RegionValues(b, offset) \in SUBSET Octets
  <2>1. b.fingerprint.values \in Seq(Octets)
    BY DEF Bundles, Fingerprints
  <2>2. offset \in DOMAIN b.fingerprint.values => b.fingerprint.values[offset] \in Octets
    BY <2>1
  <2> QED
    BY <2>2 DEF RegionValues
<1>4. Candidate(reg, offset) \in CandidateRecords
  <2> DEFINE supporting == {b \in reg.bundles : RegionValues(b, offset) # {}}
             values == UNION {RegionValues(b, offset) : b \in supporting}
  <2>1. supporting \in SUBSET Bundles
    BY DEF Registries
  <2>2. values \in SUBSET Octets
    BY <1>3, <2>1
  <2>3. Candidate(reg, offset) = [offset |-> offset, bundles |-> supporting, values |-> values]
    BY DEF Candidate
  <2> HIDE DEF supporting, values
  <2> QED
    BY <2>1, <2>2, <2>3 DEF CandidateRecords
<1>5. {c \in reg.candidates : c.offset # offset} \cup {Candidate(reg, offset)}
        \in SUBSET CandidateRecords
  BY <1>4 DEF Registries
<1> QED
  BY <1>2, <1>5 DEF Proposed, Registries

LEMMA PackedFacts ==
    ASSUME NEW manifest, Ready(manifest), NEW b \in Bundles
    PROVE  Ready(Packed(manifest, b))
<1>1. CASE b \in Range(manifest)
  BY <1>1 DEF Packed
<1>2. CASE b \notin Range(manifest)
  <2> DEFINE longer == Append(manifest, b)
  <2>1. manifest \in Seq(Bundles) /\ Len(manifest) \in Nat
    BY DEF Ready
  <2>2. /\ longer \in Seq(Bundles) /\ DOMAIN longer = 1..(Len(manifest) + 1)
        /\ longer[Len(manifest) + 1] = b
        /\ \A i \in 1..Len(manifest) : longer[i] = manifest[i]
    BY <2>1
  <2>3. \A i \in 1..Len(manifest) : manifest[i] # b
    BY <1>2, <2>1 DEF Range
  <2>4. \A i \in DOMAIN longer : i \in 1..Len(manifest) \/ i = Len(manifest) + 1
    BY <2>1, <2>2
  <2> HIDE DEF longer
  <2>5. IsInjective(longer)
    <3> SUFFICES ASSUME NEW i \in DOMAIN longer, NEW j \in DOMAIN longer,
                        longer[i] = longer[j]
                 PROVE  i = j
      BY DEF IsInjective
    <3>1. CASE i \in 1..Len(manifest) /\ j \in 1..Len(manifest)
      BY <2>1, <2>2, <3>1 DEF Ready, IsInjective
    <3> QED
      BY <2>2, <2>3, <2>4, <3>1
  <2>6. Packed(manifest, b) = longer
    BY <1>2 DEF Packed, longer
  <2> QED
    BY <2>2, <2>5, <2>6 DEF Ready
<1> QED
  BY <1>1, <1>2

LEMMA EmptyIsReady == Ready(<< >>)
BY DEF Ready, IsInjective

LEMMA ContributionFacts ==
    ASSUME NEW manifest, Ready(manifest), NEW declarations \in DeclarationLists,
           NEW notes \in {"text", "url"}
    PROVE  Contribution(manifest, declarations, notes) \in Packages
<1> DEFINE members == [i \in DOMAIN manifest |-> [name |-> manifest[i], data |-> manifest[i]]]
           q == Contribution(manifest, declarations, notes)
<1>1. manifest \in Seq(Bundles) /\ declarations \in Seq(Declarations)
  BY PipelineAssumption DEF Ready
<1>2. \A i \in DOMAIN manifest :
        members[i] \in Members /\ members[i].data = manifest[i]
  BY <1>1 DEF Members
<1>3. members \in Seq(Members)
  <2>1. DOMAIN manifest = 1..Len(manifest) /\ Len(manifest) \in Nat
    BY <1>1
  <2>2. members \in [1..Len(manifest) -> Members]
    BY <1>2, <2>1
  <2> HIDE DEF members
  <2> QED
    BY <2>1, <2>2
<1>4. q = [manifest |-> manifest, members |-> members, declarations |-> declarations,
           notes |-> notes, archive |-> TRUE]
  BY DEF Contribution
<1> HIDE DEF members, q
<1>5. q \in Packages
  BY <1>1, <1>3, <1>4 DEF Packages
<1> QED
  BY <1>5 DEF q

-----------------------------------------------------------------------------
(* The steps.                                                              *)

LEMMA EvidenceInit == Init => EvidenceInv
<1> SUFFICES ASSUME Init PROVE EvidenceInv
  OBVIOUS
<1>1. SoundRegistry(NewRegistry)
  BY NewRegistryFacts DEF SoundRegistry
<1>2. CommandsInv
  <2>1. << >> \in ToDo /\ "idle" \in Steps
    BY DEF ToDo, Steps
  <2>2. Consistent("idle", << >>)
    BY DEF Consistent
  <2>3. << >> \in Seq(Bundles)
    OBVIOUS
  <2> QED
    BY <1>1, <2>1, <2>2, <2>3, EmptyIsReady, NewRegistryFacts DEF Init, CommandsInv
<1>3. BundlesInv
  BY PipelineAssumption DEF Init, BundlesInv
<1>4. PackageInv
  BY PipelineAssumption DEF Init, PackageInv
<1> QED
  BY <1>1, <1>2, <1>3, <1>4 DEF EvidenceInv, Init

\* One command moves, and the files stay.
LEMMA CommandStep ==
    ASSUME CommandsInv, NEW p \in Processes, bundles' = bundles,
           NEW step \in Steps, pc' = [pc EXCEPT ![p] = step],
           NEW list \in ToDo, todo' = [todo EXCEPT ![p] = list], Consistent(step, list),
           NEW manifest, packed' = [packed EXCEPT ![p] = manifest], Ready(manifest),
           NEW reg, mem' = [mem EXCEPT ![p] = reg], SoundRegistry(reg)
    PROVE  CommandsInv'
<1>1. pc' \in [Processes -> Steps] /\ todo' \in [Processes -> ToDo]
  BY DEF CommandsInv
<1>2. packed' \in [Processes -> Seq(Bundles)] /\ mem' \in [Processes -> Registries]
  BY DEF CommandsInv, Ready, SoundRegistry
<1>3. ASSUME NEW q \in Processes
      PROVE  Consistent(pc[q], todo[q])' /\ Ready(packed'[q]) /\ SoundRegistry(mem'[q])
  <2>1. Consistent(pc[q], todo[q]) /\ Ready(packed[q]) /\ SoundRegistry(mem[q])
    BY DEF CommandsInv
  <2>2. CASE q = p
    <3>1. pc'[q] = step /\ todo'[q] = list /\ packed'[q] = manifest /\ mem'[q] = reg
      BY <2>2 DEF CommandsInv
    <3> QED
      BY <3>1 DEF Consistent
  <2>3. CASE q # p
    <3>1. /\ pc'[q] = pc[q] /\ todo'[q] = todo[q]
          /\ packed'[q] = packed[q] /\ mem'[q] = mem[q]
      BY <2>3 DEF CommandsInv
    <3> QED
      BY <2>1, <3>1 DEF Consistent
  <2> QED
    BY <2>2, <2>3
<1> QED
  BY <1>1, <1>2, <1>3 DEF CommandsInv

LEMMA StopStep ==
    ASSUME CommandsInv, NEW p \in Processes, Stop(p), bundles' = bundles
    PROVE  CommandsInv'
<1>1. << >> \in ToDo /\ "idle" \in Steps /\ Consistent("idle", << >>)
  BY DEF ToDo, Steps, Consistent
<1>2. SoundRegistry(NewRegistry)
  BY NewRegistryFacts DEF SoundRegistry
<1> QED
  BY <1>1, <1>2, EmptyIsReady, CommandStep DEF Stop, Goto

\* What a command has stays as it is.
LEMMA Unmoved ==
    ASSUME CommandsInv, NEW p \in Processes
    PROVE  /\ pc = [pc EXCEPT ![p] = pc[p]] /\ pc[p] \in Steps
           /\ todo = [todo EXCEPT ![p] = todo[p]] /\ todo[p] \in ToDo
           /\ packed = [packed EXCEPT ![p] = packed[p]] /\ Ready(packed[p])
           /\ mem = [mem EXCEPT ![p] = mem[p]] /\ SoundRegistry(mem[p])
           /\ Consistent(pc[p], todo[p])
BY DEF CommandsInv

LEMMA PathsFacts ==
    ASSUME NEW paths \in Paths
    PROVE  /\ paths \in Seq(BundlePaths)
           /\ \A label \in DeviceLabels :
                [i \in DOMAIN paths |-> [path |-> paths[i], label |-> label]] \in Seq(Files)
<1>1. paths \in Seq(BundlePaths)
  <2>1. CASE paths \in {<<x>> : x \in BundlePaths}
    <3>1. PICK x \in BundlePaths : paths = <<x>>
      BY <2>1
    <3>2. <<x>> \in Seq(BundlePaths)
      OBVIOUS
    <3> QED
      BY <3>1, <3>2
  <2>2. CASE paths \in {<<x, y>> : x, y \in BundlePaths}
    <3>1. PICK x \in BundlePaths, y \in BundlePaths : paths = <<x, y>>
      BY <2>2
    <3>2. <<x, y>> \in Seq(BundlePaths)
      OBVIOUS
    <3> QED
      BY <3>1, <3>2
  <2> QED
    BY <2>1, <2>2 DEF Paths
<1>2. ASSUME NEW label \in DeviceLabels
      PROVE  [i \in DOMAIN paths |-> [path |-> paths[i], label |-> label]] \in Seq(Files)
  <2>1. DOMAIN paths = 1..Len(paths) /\ Len(paths) \in Nat
    BY <1>1
  <2>2. \A i \in DOMAIN paths : [path |-> paths[i], label |-> label] \in Files
    BY <1>1, PipelineAssumption DEF Files
  <2> QED
    BY <2>1, <2>2
<1> QED
  BY <1>1, <1>2

LEMMA PackingStep ==
    ASSUME CommandsInv, BundlesInv, NEW p \in Processes,
           StartPacking(p) \/ Check(p) \/ Pack(p)
    PROVE  CommandsInv'
<1>1. CASE StartPacking(p)
  <2>1. PICK paths \in Paths : todo' = [todo EXCEPT ![p] = paths]
    BY <1>1 DEF StartPacking
  <2>2. paths \in ToDo /\ "packing" \in Steps /\ Consistent("packing", paths)
    BY PathsFacts DEF ToDo, Steps, Consistent
  <2> QED
    BY <1>1, <2>1, <2>2, Unmoved, CommandStep DEF StartPacking, Goto
<1>2. CASE Check(p)
  <2>1. "checked" \in Steps /\ Consistent("checked", todo[p])
    BY <1>2, Unmoved DEF Check, Steps, Consistent
  <2> QED
    BY <1>2, <2>1, Unmoved, CommandStep DEF Check, Goto
<1>3. CASE Pack(p)
  <2> DEFINE b == bundles[Head(todo[p])]
  <2>1. todo[p] \in Seq(BundlePaths) /\ todo[p] # << >>
    BY <1>3, Unmoved DEF Pack, Consistent
  <2>2. Head(todo[p]) \in BundlePaths /\ Tail(todo[p]) \in Seq(BundlePaths)
    BY <2>1
  <2>3. b \in Bundles
    BY <1>3, <2>2 DEF Pack, BundlesInv
  <2>4. Ready(Packed(packed[p], b))
    BY <2>3, Unmoved, PackedFacts
  <2>5. Tail(todo[p]) \in ToDo /\ "packing" \in Steps /\ Consistent("packing", Tail(todo[p]))
    BY <2>2 DEF ToDo, Steps, Consistent
  <2>6. /\ packed' = [packed EXCEPT ![p] = Packed(packed[p], b)]
        /\ todo' = [todo EXCEPT ![p] = Tail(todo[p])]
    BY <1>3 DEF Pack
  <2> HIDE DEF b
  <2> QED
    BY <1>3, <2>4, <2>5, <2>6, Unmoved, CommandStep DEF Pack, Goto
<1> QED
  BY <1>1, <1>2, <1>3

LEMMA AddedIsSound ==
    ASSUME NEW reg, SoundRegistry(reg), NEW b \in Bundles, Cardinality(SourceLabels(b)) <= 1
    PROVE  SoundRegistry(Added(reg, b))
BY AddedFacts DEF SoundRegistry

LEMMA ImportedIsSound ==
    ASSUME NEW reg, SoundRegistry(reg), NEW b \in Bundles, ValidateBundle(b),
           Cardinality(SourceLabels(b)) <= 1
    PROVE  SoundRegistry(Imported(reg, b))
<1>1. CASE b \in reg.bundles
  BY <1>1 DEF Imported
<1>2. CASE b \notin reg.bundles
  <2> DEFINE added == Added(reg, b)
             imported == [added EXCEPT !.imported = @ \cup {b}]
  <2>1. /\ added \in Registries /\ SoundRegistry(added)
        /\ added.bundles = reg.bundles \cup {b}
    BY AddedIsSound, AddedFacts DEF SoundRegistry
  <2>2. Imported(reg, b) = imported
    BY <1>2 DEF Imported
  <2> HIDE DEF added
  <2>3. /\ imported \in Registries /\ imported.bundles = added.bundles
        /\ imported.imported = added.imported \cup {b}
    BY <2>1 DEF Registries
  <2> HIDE DEF imported
  <2>4. SoundRegistry(imported)
    BY <2>1, <2>3 DEF SoundRegistry
  <2> QED
    BY <2>2, <2>4
<1> QED
  BY <1>1, <1>2

LEMMA AddingStep ==
    ASSUME CommandsInv, BundlesInv, SoundRegistry(registry), NEW p \in Processes,
           Load(p) \/ StartAdding(p) \/ Validate(p) \/ Add(p)
    PROVE  CommandsInv'
<1>1. CASE Load(p)
  <2>1. "loaded" \in Steps /\ Consistent("loaded", todo[p])
    BY DEF Steps, OnRegistry, Consistent
  <2> QED
    BY <1>1, <2>1, Unmoved, CommandStep DEF Load, Goto
<1>2. CASE StartAdding(p)
  <2>1. PICK paths \in Paths, label \in DeviceLabels :
            todo' = [todo EXCEPT ![p] =
                        [i \in DOMAIN paths |-> [path |-> paths[i], label |-> label]]]
    BY <1>2 DEF StartAdding
  <2> DEFINE list == [i \in DOMAIN paths |-> [path |-> paths[i], label |-> label]]
  <2>2. list \in Seq(Files)
    BY PathsFacts
  <2> HIDE DEF list
  <2>3. list \in ToDo /\ "adding" \in Steps /\ Consistent("adding", list)
    BY <2>2 DEF ToDo, Steps, OnRegistry, Consistent
  <2>4. todo' = [todo EXCEPT ![p] = list]
    BY <2>1 DEF list
  <2> QED
    BY <1>2, <2>3, <2>4, Unmoved, CommandStep DEF StartAdding, Goto
<1>3. CASE Validate(p)
  <2>1. "valid" \in Steps /\ Consistent("valid", todo[p])
    BY <1>3, Unmoved DEF Validate, Steps, OnRegistry, Consistent
  <2> QED
    BY <1>3, <2>1, Unmoved, CommandStep DEF Validate, Goto
<1>4. CASE Add(p)
  <2> DEFINE b == bundles[Head(todo[p]).path]
  <2>1. todo[p] \in Seq(Files) /\ todo[p] # << >>
    BY <1>4, Unmoved DEF Add, Consistent
  <2>2. Head(todo[p]) \in Files /\ Tail(todo[p]) \in Seq(Files)
    BY <2>1
  <2>3. Head(todo[p]).path \in BundlePaths
    BY <2>2 DEF Files
  <2>4. b \in Bundles /\ Cardinality(SourceLabels(b)) <= 1
    BY <1>4, <2>3 DEF Add, BundlesInv, Recordable
  <2>5. SoundRegistry(Added(mem[p], b))
    BY <2>4, Unmoved, AddedIsSound
  <2>6. Tail(todo[p]) \in ToDo /\ "adding" \in Steps /\ Consistent("adding", Tail(todo[p]))
    BY <2>2 DEF ToDo, Steps, OnRegistry, Consistent
  <2>7. /\ mem' = [mem EXCEPT ![p] = Added(mem[p], b)]
        /\ todo' = [todo EXCEPT ![p] = Tail(todo[p])]
    BY <1>4 DEF Add
  <2> HIDE DEF b
  <2> QED
    BY <1>4, <2>5, <2>6, <2>7, Unmoved, CommandStep DEF Add, Goto
<1> QED
  BY <1>1, <1>2, <1>3, <1>4

LEMMA ImportingStep ==
    ASSUME CommandsInv, PackageInv, NEW p \in Processes,
           Review(p) \/ Reopen(p) \/ Import(p), bundles' = bundles
    PROVE  CommandsInv'
<1>1. CASE Review(p)
  <2>1. "planning" \in Steps /\ Consistent("planning", todo[p])
    BY DEF Steps, OnRegistry, Consistent
  <2> QED
    BY <1>1, <2>1, Unmoved, CommandStep DEF Review, Goto
<1>2. CASE Reopen(p)
  <2>1. package \in Packages
    BY <1>2 DEF Reopen, NoPackage, PackageInv
  <2>2. Planned(package) \in Seq(Additions)
    BY <1>2, <2>1, PlannedFacts DEF Reopen
  <2>3. /\ Planned(package) \in ToDo /\ "importing" \in Steps
        /\ Consistent("importing", Planned(package))
    BY <2>2 DEF ToDo, Steps, OnRegistry, Consistent
  <2> QED
    BY <1>2, <2>3, Unmoved, CommandStep DEF Reopen, Goto
<1>3. CASE Import(p)
  <2> DEFINE add == Head(todo[p])
             rest == Tail(todo[p])
  <2>1. todo[p] \in Seq(Additions) /\ todo[p] # << >> /\ pc[p] = "importing"
    BY <1>3, Unmoved DEF Import, Consistent
  <2>2. add \in Additions /\ rest \in Seq(Additions)
    BY <2>1
  <2>3. /\ add.bundle \in Bundles /\ ValidateBundle(add.bundle)
        /\ Cardinality(SourceLabels(add.bundle)) <= 1
    BY <1>3, <2>2 DEF Additions, Import, Addable, Recordable
  <2> DEFINE reg == Imported(mem[p], add.bundle)
  <2>4. SoundRegistry(reg)
    BY <2>3, Unmoved, ImportedIsSound
  <2> HIDE DEF rest
  <2>5. rest \in ToDo /\ Consistent("importing", rest)
    BY <2>2 DEF ToDo, Consistent
  <2>6. /\ mem' = [mem EXCEPT ![p] = reg]
        /\ todo' = [todo EXCEPT ![p] = rest] /\ pc' = pc
        /\ packed' = packed
    BY <1>3 DEF Import, rest
  <2> HIDE DEF reg
  <2> QED
    BY <2>1, <2>4, <2>5, <2>6, Unmoved, CommandStep
<1> QED
  BY <1>1, <1>2, <1>3

LEMMA ChangingStep ==
    ASSUME CommandsInv, NEW p \in Processes, RemoveBundle(p) \/ Propose(p)
    PROVE  CommandsInv'
<1>1. "changed" \in Steps /\ Consistent("changed", todo[p])
  BY DEF Steps, OnRegistry, Consistent
<1>2. PICK reg : mem' = [mem EXCEPT ![p] = reg] /\ SoundRegistry(reg)
  <2>1. CASE RemoveBundle(p)
    <3>1. PICK b \in mem[p].bundles : mem' = [mem EXCEPT ![p] = Removed(mem[p], b)]
      BY <2>1 DEF RemoveBundle
    <3>2. SoundRegistry(Removed(mem[p], b))
      BY Unmoved, RemovedFacts DEF SoundRegistry
    <3> QED
      BY <3>1, <3>2
  <2>2. CASE Propose(p)
    <3>1. PICK offset \in Regions : mem' = [mem EXCEPT ![p] = Proposed(mem[p], offset)]
      BY <2>2 DEF Propose
    <3>2. SoundRegistry(Proposed(mem[p], offset))
      BY Unmoved, ProposedFacts DEF SoundRegistry
    <3> QED
      BY <3>1, <3>2
  <2> QED
    BY <2>1, <2>2
<1>3. /\ pc' = [pc EXCEPT ![p] = "changed"] /\ todo' = todo /\ packed' = packed
      /\ bundles' = bundles
  BY DEF RemoveBundle, Propose, Goto
<1> QED
  BY <1>1, <1>2, <1>3, Unmoved, CommandStep

\* Bundle files are replaced at any moment, and nothing is assumed of them.
LEMMA FilesStep ==
    ASSUME CommandsInv, BundlesInv, NEW path \in BundlePaths,
           NEW b \in Bundles \cup {NoBundle}, bundles' = [bundles EXCEPT ![path] = b],
           UNCHANGED <<pc, todo, packed, mem>>
    PROVE  CommandsInv' /\ BundlesInv'
<1>1. BundlesInv'
  BY DEF BundlesInv
<1>2. CommandsInv'
  BY DEF CommandsInv, Consistent
<1> QED
  BY <1>1, <1>2

LEMMA PlacePackageStep ==
    ASSUME CommandsInv, NEW p \in Processes, PlacePackage(p)
    PROVE  PackageInv'
<1>1. PICK declarations \in DeclarationLists, notes \in {"text", "url"} :
        package' = Contribution(packed[p], declarations, notes)
  BY DEF PlacePackage
<1>2. Ready(packed[p]) /\ packed[p] \in Seq(Bundles)
  BY Unmoved DEF Ready
<1>3. package' \in Packages
  BY <1>1, <1>2, ContributionFacts
<1>4. ours' = TRUE
  BY DEF PlacePackage
<1> QED
  BY <1>1, <1>2, <1>3, <1>4 DEF PackageInv

LEMMA EvidenceNext == EvidenceInv /\ [Next]_vars => EvidenceInv'
<1> SUFFICES ASSUME EvidenceInv, [Next]_vars PROVE EvidenceInv'
  OBVIOUS
<1> USE DEF EvidenceInv
<1>1. ASSUME NEW path \in BundlePaths,
             Overwrite(path) \/ \E captures \in ExportLists : Export(path, captures)
      PROVE  EvidenceInv'
  <2>1. /\ package' = package /\ ours' = ours /\ registry' = registry
        /\ UNCHANGED <<pc, todo, packed, mem>>
    BY <1>1 DEF Export, Overwrite
  <2>2. PICK b \in Bundles \cup {NoBundle} : bundles' = [bundles EXCEPT ![path] = b]
    <3>1. CASE Overwrite(path)
      BY <3>1, PipelineAssumption DEF Overwrite
    <3>2. ASSUME NEW captures \in ExportLists, Export(path, captures)
          PROVE  \E b \in Bundles : bundles' = [bundles EXCEPT ![path] = b]
      <4>1. captures \in Seq(Captures)
        BY PipelineAssumption
      <4>2. Exported(captures) \in Bundles
        BY <4>1, ExportedFacts
      <4> QED
        BY <3>2, <4>2 DEF Export
    <3> QED
      BY <1>1, <3>1, <3>2
  <2>3. PackageInv'
    BY <2>1 DEF PackageInv
  <2> QED
    BY <2>1, <2>2, <2>3, FilesStep
<1>2. CASE Receive
  <2>1. /\ package' \in FoundPackages /\ ours' = FALSE /\ bundles' = bundles
        /\ registry' = registry /\ pc' = pc /\ todo' = todo /\ packed' = packed /\ mem' = mem
    BY <1>2 DEF Receive
  <2>2. PackageInv'
    BY <2>1, PipelineAssumption DEF PackageInv
  <2>3. CommandsInv' /\ BundlesInv'
    BY <2>1 DEF CommandsInv, BundlesInv, Consistent
  <2> QED
    BY <2>1, <2>2, <2>3
<1>3. ASSUME NEW p \in Processes,
             \/ StartPacking(p) \/ Check(p) \/ Pack(p)
             \/ Load(p) \/ StartAdding(p) \/ Validate(p) \/ Add(p)
             \/ Review(p) \/ Reopen(p) \/ Import(p)
             \/ RemoveBundle(p) \/ Propose(p)
      PROVE  EvidenceInv'
  <2>1. bundles' = bundles /\ package' = package /\ ours' = ours /\ registry' = registry
    BY <1>3 DEF StartPacking, Check, Pack, Load, StartAdding, Validate, Add, Review,
                Reopen, Import, RemoveBundle, Propose
  <2>2. CommandsInv'
    BY <1>3, <2>1, PackingStep, AddingStep, ImportingStep, ChangingStep
  <2>3. BundlesInv' /\ PackageInv'
    BY <2>1 DEF BundlesInv, PackageInv
  <2> QED
    BY <2>1, <2>2, <2>3
<1>4. ASSUME NEW p \in Processes, PlacePackage(p)
      PROVE  EvidenceInv'
  <2>1. Stop(p) /\ bundles' = bundles /\ registry' = registry
    BY <1>4 DEF PlacePackage
  <2>2. BundlesInv'
    BY <2>1 DEF BundlesInv
  <2> QED
    BY <1>4, <2>1, <2>2, StopStep, PlacePackageStep
<1>5. ASSUME NEW p \in Processes, Replace(p) \/ End(p)
      PROVE  EvidenceInv'
  <2>1. /\ Stop(p) /\ bundles' = bundles /\ package' = package /\ ours' = ours
        /\ registry' = registry \/ registry' = mem[p]
    BY <1>5 DEF Replace, End
  <2>2. BundlesInv' /\ PackageInv'
    BY <2>1 DEF BundlesInv, PackageInv
  <2>3. SoundRegistry(registry')
    BY <2>1, Unmoved
  <2> QED
    BY <2>1, <2>2, <2>3, StopStep
<1>6. CASE UNCHANGED vars
  BY <1>6 DEF vars, CommandsInv, BundlesInv, PackageInv, Consistent
<1> QED
  BY <1>1, <1>2, <1>3, <1>4, <1>5, <1>6 DEF Next

\* The inductive invariant of the files and the commands.
THEOREM EvidenceInvariant == Spec => []EvidenceInv
BY EvidenceInit, EvidenceNext, PTL DEF Spec

\* The files, the package and the commands are well typed in every state.
THEOREM PipelineTypeCorrect == Spec => []TypeOK
BY EvidenceInvariant, EvidenceInvIsTyped, PTL

\* Whichever files are replaced between a review, a validation and the use
\* of what was reviewed, bundles that were imported are valid, and none in a
\* registry is of two radios, with or without a lock.
THEOREM OnlySoundImports == Spec => []ImportedEvidenceIsSound
<1>1. EvidenceInv => ImportedEvidenceIsSound
  BY DEF EvidenceInv, SoundRegistry, ImportedEvidenceIsSound
<1> QED
  BY <1>1, EvidenceInvariant, PTL

\* A registered export has the fingerprint that its captures had before they
\* were sanitized, and that of any in which the same was observed, unless
\* their order makes another protocol the first.
THEOREM EvidenceKeepsItsFingerprint == Spec => []FingerprintsAreOfTheEvidence
<1>1. EvidenceInv => FingerprintsAreOfTheEvidence
  <2> SUFFICES ASSUME EvidenceInv, NEW b \in registry.bundles, NEW exported \in ExportLists,
                      Undeclared(b) = Exported(exported),
                      NEW captures \in Retold(exported), SameEvidence(exported, captures)
               PROVE  b.fingerprint = Fingerprint(captures)
                        <=> Protocol(exported) = Protocol(captures)
    BY DEF FingerprintsAreOfTheEvidence
  <2>1. b \in Bundles
    BY DEF EvidenceInv, SoundRegistry, Registries
  <2>2. b.fingerprint = Exported(exported).fingerprint
    BY <2>1, UndeclaredFacts
  <2>3. Exported(exported).fingerprint = Fingerprint(exported)
    <3>1. exported \in Seq(Captures)
      BY PipelineAssumption
    <3> QED
      BY <3>1, ExportedFacts
  <2>4. Fingerprint(exported) = Fingerprint(captures)
            <=> Protocol(exported) = Protocol(captures)
    BY FingerprintsOfTheSameEvidence
  <2> QED
    BY <2>2, <2>3, <2>4
<1> QED
  BY <1>1, EvidenceInvariant, PTL

\* The review finds an error in what contribution-create makes exactly when
\* there is one in its notes or its bundles.
LEMMA ReadyIsSafe ==
    ASSUME NEW manifest, Ready(manifest), NEW declarations \in DeclarationLists,
           NEW notes \in {"text", "url"}
    PROVE  Safe(Contribution(manifest, declarations, notes))
                <=> notes = "text" /\ \A b \in Range(manifest) : ValidateBundle(b)
<1> DEFINE q == Contribution(manifest, declarations, notes)
<1>1. q \in Packages
  BY ContributionFacts
<1>2. /\ q.manifest = manifest /\ q.notes = notes /\ q.archive
      /\ DOMAIN q.members = DOMAIN manifest
      /\ \A i \in DOMAIN manifest :
            q.members[i].name = manifest[i] /\ q.members[i].data = manifest[i]
  BY DEF Contribution
<1> HIDE DEF q
<1>3. Unique(q)
  BY <1>2 DEF Unique, Ready, IsInjective
<1>4. ASSUME NEW i \in DOMAIN manifest
      PROVE  Named(q, manifest[i]) # {} /\ Content(q, manifest[i]) = manifest[i]
  <2>1. i \in Named(q, manifest[i])
    BY <1>2 DEF Named
  <2>2. PICK j \in DOMAIN q.members :
            Content(q, manifest[i]) = q.members[j].data /\ q.members[j].name = manifest[i]
    BY <1>1, <2>1, ContentFacts
  <2> QED
    BY <1>2, <2>1, <2>2
<1>5. Safe(q) <=> notes = "text" /\ \A i \in DOMAIN manifest : ValidateBundle(manifest[i])
  BY <1>2, <1>3, <1>4 DEF Safe
<1>6. Safe(q) <=> notes = "text" /\ \A b \in Range(manifest) : ValidateBundle(b)
  BY <1>5 DEF Range
<1> QED
  BY <1>6 DEF q

\* The review rejects what contribution-create made exactly when its notes
\* begin with an address or an invalid bundle was put in the place of one that
\* had been validated, whatever else happens to the files.
THEOREM OwnContributionsPass == Spec => []OwnContributionsAreSafe
<1>1. EvidenceInv => OwnContributionsAreSafe
  <2> SUFFICES ASSUME EvidenceInv, ours
               PROVE  Classification(package) = "rejected" <=>
                        \/ package.notes = "url"
                        \/ \E b \in Range(package.manifest) : ~ValidateBundle(b)
    BY DEF OwnContributionsAreSafe
  <2>1. PICK manifest \in Seq(Bundles), declarations \in DeclarationLists,
             notes \in {"text", "url"} :
                /\ Ready(manifest)
                /\ package = Contribution(manifest, declarations, notes)
    BY DEF EvidenceInv, PackageInv
  <2>2. package.notes = notes /\ package.manifest = manifest
    BY <2>1 DEF Contribution
  <2>3. Safe(package) <=> notes = "text" /\ \A b \in Range(manifest) : ValidateBundle(b)
    BY <2>1, ReadyIsSafe
  <2>4. Classification(package) = "rejected" <=> ~Safe(package)
    BY DEF Classification
  <2> QED
    BY <2>2, <2>3, <2>4
<1> QED
  BY <1>1, EvidenceInvariant, PTL
=============================================================================
