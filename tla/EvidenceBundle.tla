---------------------------- MODULE EvidenceBundle ----------------------------
(***************************************************************************)
(* What evidence is made of captures: which octets are stable, the         *)
(* electronic fingerprint, the comparison of radios and the sanitized      *)
(* bundle (evidence.py, hardening.py).                                     *)
(*                                                                         *)
(* The response of a capture stands for the payload of its frame, which    *)
(* Frame takes apart.  Message types and firmware strings are collected    *)
(* like checksum statuses, and ports are normalized like times; neither is *)
(* kept.  There is one compiled-in driver, so captures never differ in it, *)
(* and all are of its handshake.                                           *)
(***************************************************************************)
EXTENDS Integers, Sequences, SequencesExt, FiniteSets

CONSTANTS
    Labels,     \* physical_device_group or device_alias, as the user gives it
    NoLabel

Octets == 0..255

NormalizedTime == -1

ChecksumStatuses == {"valid", "accepted-legacy-ff-ff"}

\* detected_protocol: no frame, a bootloader, an identification, another frame.
Protocols == {"unknown", "bootloader", "identification", "framed"}

\* capture_metadata: none, the user's labels (physical_device_group and
\* device_alias), or the record of a sanitization and of whether it changed
\* anything.
Metadata ==
    [kind : {"none", "labels", "sanitized"}, group : Labels \cup {NoLabel},
     alias : Labels \cup {NoLabel}, changed : BOOLEAN]

\* checksum: that of the first frame that is no echo, if there is one.
\* sound: chunks, operation and schema agree with the rest.
Captures ==
    [response : Seq(Octets), checksum : ChecksumStatuses \cup {"none"},
     protocol : Protocols \cup {"none"}, created : Int, metadata : Metadata,
     sound : BOOLEAN]

ASSUME LabelAssumption == NoLabel \notin Labels

-----------------------------------------------------------------------------
(* analyze_stability: what a set of payloads has in common.                *)

Payload(c) == IF c.checksum = "none" THEN << >> ELSE c.response

\* Captures without a payload say nothing about it.
Payloads(C) == {Payload(c) : c \in C} \ {<< >>}

Offsets(P) == UNION {DOMAIN p : p \in P}

\* Every payload reaches the offset, and all agree there.
StablePositions(P) ==
    {o \in Offsets(P) : /\ \A p \in P : o \in DOMAIN p
                        /\ \A p, q \in P : p[o] = q[o]}

VariablePositions(P) == Offsets(P) \ StablePositions(P)

\* stable_payload_values: zero stands where nothing is stable.
StableValues(P) ==
    [o \in Offsets(P) |->
        IF o \in StablePositions(P) THEN (CHOOSE p \in P : TRUE)[o] ELSE 0]

\* protocol_family: that of the first capture that has one, in their order.
Protocol(cs) ==
    LET named == {i \in DOMAIN cs : cs[i].protocol # "none"} IN
    IF named = {} THEN "none" ELSE cs[Min(named)].protocol

\* The radio a capture is labelled with: its group, or else its alias.
Label(c) == IF c.metadata.group # NoLabel THEN c.metadata.group ELSE c.metadata.alias

\* Faulty variant of Fingerprint: captures of no known radio are left out.
FingerprintOfLabelled(cs) ==
    LET known == Payloads({c \in Range(cs) : Label(c) # NoLabel}) IN
    [protocol_family |-> Protocol(cs),
     mask |-> StablePositions(known), values |-> StableValues(known),
     response_lengths |-> {Len(c.response) : c \in Range(cs)},
     checksum_behaviors |-> {c.checksum : c \in Range(cs)} \ {"none"}]

\* build_fingerprint: fingerprint_id is a hash of this.
Fingerprint(cs) ==
    LET P == Payloads(Range(cs)) IN
    [protocol_family |-> Protocol(cs),
     mask |-> StablePositions(P), values |-> StableValues(P),
     response_lengths |-> {Len(c.response) : c \in Range(cs)},
     checksum_behaviors |-> {c.checksum : c \in Range(cs)} \ {"none"}]

-----------------------------------------------------------------------------
(* compare_evidence: captures with one label are of one radio, and those   *)
(* with none are each of their own.                                        *)

SameRadio(cs, i) ==
    IF Label(cs[i]) = NoLabel THEN {i}
    ELSE {j \in DOMAIN cs : Label(cs[j]) = Label(cs[i])}

RadioPayloads(cs) == {Payloads({cs[j] : j \in SameRadio(cs, i)}) : i \in DOMAIN cs}

\* Stable within every radio, and not the same in all.
DeviceSpecific(cs) ==
    {o \in UNION {Offsets(P) : P \in RadioPayloads(cs)} :
        /\ \A P \in RadioPayloads(cs) : o \in StablePositions(P)
        /\ \E P, Q \in RadioPayloads(cs) : StableValues(P)[o] # StableValues(Q)[o]}

-----------------------------------------------------------------------------
(* Bundles.                                                                *)

Sanitize(c) ==
    [c EXCEPT !.created = NormalizedTime,
              !.metadata = [kind |-> "sanitized", group |-> NoLabel, alias |-> NoLabel,
                            changed |-> c.created # NormalizedTime]]

\* A declaration as it comes, with its text left out; device_label is optional.
Declarations == [label : Labels \cup {NoLabel}, complete : BOOLEAN]

Fingerprints ==
    [protocol_family : Protocols \cup {"none"}, mask : SUBSET Nat,
     values : Seq(Octets), response_lengths : SUBSET Nat,
     checksum_behaviors : SUBSET ChecksumStatuses]

\* bundle_id is a hash of the whole bundle, which is here its own identity.
Bundles ==
    [captures : Seq(Captures), fingerprint : Fingerprints,
     declarations : Seq(Declarations)]

\* export_bundle of the captures that were read.
Exported(cs) ==
    LET clean == [i \in DOMAIN cs |-> Sanitize(cs[i])] IN
    [captures |-> clean, fingerprint |-> Fingerprint(clean),
     declarations |-> << >>]

\* A file that is not there, or is no JSON: it has no captures.
NoBundle == [captures |-> << >>]

\* validate_bundle; the fingerprint is taken as it is.
ValidateBundle(b) ==
    /\ b.captures # << >>
    /\ \A i \in DOMAIN b.captures :
            b.captures[i].metadata.kind = "sanitized" /\ b.captures[i].sound

\* _bundle_record: the groups the captures of a bundle are labelled with.
SourceLabels(b) == {b.captures[i].metadata.group : i \in DOMAIN b.captures} \ {NoLabel}

\* propose_discriminator reads decoded_payload_hex, which no capture stores,
\* and falls back on the stable values of the bundle's fingerprint.
RegionValues(b, offset) ==
    IF (\E i \in DOMAIN b.captures : b.captures[i].checksum # "none")
            /\ offset \in DOMAIN b.fingerprint.values
    THEN {b.fingerprint.values[offset]} ELSE {}
=============================================================================
