---------------------------- MODULE MCGovernance ----------------------------
(* A small registry and a small staff for the governance ledger.           *)
EXTENDS Governance

MCDevices == {"d1", "d2"}
MCRegions == {"r1"}
MCValues == {"v1", "v2"}

MCu(d, v) ==
    [device |-> d, field |-> "mcu", value |-> v,
     status |-> "independently-reviewed", time |-> 2]

\* b1 and b2 are two radios, both inspected, with different byte values.
MCFile ==
    [b \in {"b1", "b2"} |->
        [device |-> IF b = "b1" THEN "d1" ELSE "d2",
         declarations |-> IF b = "b1" THEN {MCu("d1", "v1")} ELSE {MCu("d2", "v2")},
         fingerprint |-> b, captured |-> 1, off_scope |-> {},
         region |-> [r \in MCRegions |-> IF b = "b1" THEN {"v1"} ELSE {"v2"}]]]

\* The same evidence with one fingerprint: contradictory inspected hardware.
MCContradictoryFile ==
    [b \in {"b1", "b2"} |-> [MCFile[b] EXCEPT !.fingerprint = "b1"]]

\* Thresholds scaled to two radios, in the order of the default policy.
MCPolicy ==
    [stability_enabled |-> 1, comparison_enabled |-> 2,
     correlation_enabled |-> 2, review_enabled |-> 1, proposal_enabled |-> 2]
=============================================================================
