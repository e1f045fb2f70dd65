------------------------- MODULE MCEvidenceRegistry -------------------------
(* Five bundles of three radios, with every kind of contradiction.         *)
EXTENDS EvidenceRegistry

MCDevices == {"d1", "d2", "d3"}
MCRegions == {"r1", "r2"}
MCValues == {"v1", "v2"}
MCBundles == {"b1", "b2", "b3", "b4", "b5"}

Mcu(d, v, s, t) ==
    [device |-> d, field |-> "mcu", value |-> v, status |-> s, time |-> t]

MCDeclarations(b) ==
    CASE b = "b1" -> {Mcu("d1", "v1", "self-inspected", 2)}
      [] b = "b2" -> {Mcu("d1", "v2", "unverified", 3)}
      [] b = "b3" -> {Mcu("d2", "v2", "independently-reviewed", 2)}
      [] b = "b5" -> {Mcu("d3", v, "unverified", 2) : v \in MCValues}
      [] OTHER    -> {}

\* b1 and b2 are one radio and contradict each other; without b1, b2 shows its
\* declaration to precede the evidence; b2 and b3 share a fingerprint; b4 has
\* no declaration and was captured by another probe than r2's; b5, of the same
\* radio, contradicts itself.
MCFile ==
    [b \in MCBundles |->
        [device |-> CASE b \in {"b1", "b2"} -> "d1" [] b = "b3" -> "d2" [] OTHER -> "d3",
         declarations |-> MCDeclarations(b),
         fingerprint |-> CASE b = "b1" -> "f1" [] b \in {"b4", "b5"} -> "f3" [] OTHER -> "f2",
         captured |-> IF b = "b2" THEN 3 ELSE 1,
         off_scope |-> IF b = "b4" THEN {"r2"} ELSE {},
         region |-> [r \in MCRegions |->
            IF r = "r2" /\ b = "b4" THEN {}
            ELSE IF b = "b1" THEN {"v1"} ELSE {"v2"}]]]

MCMetadataClaim == [b \in MCBundles |-> IF b = "b4" THEN {"v1"} ELSE {}]

MCPolicy ==
    [stability_enabled |-> 1, comparison_enabled |-> 2,
     correlation_enabled |-> 3, review_enabled |-> 2, proposal_enabled |-> 3]

MCSymmetry == Permutations(Processes)
=============================================================================
