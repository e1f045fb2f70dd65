------------------------------- MODULE MCAdvisory -------------------------------
(* Two hardware records that may share names and MCUs, and catalogs of one *)
(* or two entries.                                                         *)
EXTENDS Advisory, TLC

CONSTANT Another    \* an MCU that no loader takes

\* All the records of known MCUs, and one that no loader takes.
MCHardwareCatalogs ==
    [Ids -> {r \in Records : r.mcu \in KnownMcus}]
        \cup {[i \in Ids |-> [revision |-> l, markings |-> {l}, mcu |-> Another]] : l \in Labels}

MCEntries ==
    [project : {"p"}, mcus : SUBSET KnownMcus \ {{}},
     supported : SUBSET Ids \ {{}}, unsupported : SUBSET Ids]

\* An id that no record has, and an MCU that is not known.
MCRefusedEntries ==
    {[project |-> "p", mcus |-> KnownMcus, supported |-> {1}, unsupported |-> {9}],
     [project |-> "p", mcus |-> {Another}, supported |-> {1}, unsupported |-> {}]}

MCFirmwareCatalogs ==
    {{e1, e2} : e1, e2 \in {e \in MCEntries : e.supported \cap e.unsupported = {}}}
        \cup {{e} : e \in MCEntries \cup MCRefusedEntries}

MCSymmetry == Permutations(Labels) \cup Permutations(KnownMcus)
=============================================================================
