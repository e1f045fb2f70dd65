----------------------------- MODULE Contribution -----------------------------
(***************************************************************************)
(* Contribution packages (contribution.py): the archive that a contributor *)
(* makes of bundles and declarations, and the review before an import.     *)
(*                                                                         *)
(* A member is named after the digest of its content, so a name is here    *)
(* the bundle it stands for; content that differs from it is damage.       *)
(***************************************************************************)
EXTENDS EvidenceBundle

Members == [name : Bundles, data : Bundles \cup {NoBundle}]

\* manifest: the names of the bundles, in the order of the command line.
\* archive: members with normalized names and modes, none of them a program,
\* in order, with a manifest of schema 1 and declarations of its digest.
Packages ==
    [manifest : Seq(Bundles), members : Seq(Members),
     declarations : Seq(Declarations), notes : {"text", "url"}, archive : BOOLEAN]

\* A file that is no archive.
NoPackage == [archive |-> FALSE]

\* Faulty variant of Packed: a bundle that comes twice is packed twice.
PackedTwice(manifest, b) == Append(manifest, b)

\* create_contribution: a bundle that comes twice is packed once.
Packed(manifest, b) == IF b \in Range(manifest) THEN manifest ELSE Append(manifest, b)

Contribution(manifest, declarations, notes) ==
    [manifest |-> manifest,
     members |-> [i \in DOMAIN manifest |-> [name |-> manifest[i], data |-> manifest[i]]],
     declarations |-> declarations, notes |-> notes, archive |-> TRUE]

\* archive.read: the last member of that name.
Named(package, name) == {i \in DOMAIN package.members : package.members[i].name = name}

Content(package, name) ==
    package.members[CHOOSE i \in Named(package, name) :
                        \A j \in Named(package, name) : j <= i].data

Unique(package) ==
    \A i, j \in DOMAIN package.members :
        package.members[i].name = package.members[j].name => i = j

\* review_contribution finds no error.
Safe(package) ==
    /\ package.archive /\ Unique(package) /\ package.notes # "url"
    /\ \A i \in DOMAIN package.manifest :
        /\ Named(package, package.manifest[i]) # {}
        /\ Content(package, package.manifest[i]) = package.manifest[i]
        /\ ValidateBundle(package.manifest[i])

\* _contains_url: notes that begin with an address are taken for a reference.
Classification(package) ==
    IF ~Safe(package) THEN "rejected"
    ELSE IF package.declarations # << >> THEN "requires-manual-review"
    ELSE IF ~IsInjective(package.manifest) THEN "safe-with-warnings"
    ELSE "safe-to-import"

-----------------------------------------------------------------------------
(* plan_contribution_import: what is added to the registry, in order.      *)

FirstLabel(declarations) ==
    IF declarations = << >> THEN NoLabel ELSE declarations[1].label

\* Declarations, and the label of the first, are those of the first bundle.
Planned(package) ==
    [i \in DOMAIN package.manifest |->
        IF i = 1 /\ package.declarations # << >>
        THEN [bundle |-> [Content(package, package.manifest[1])
                            EXCEPT !.declarations = package.declarations],
              label |-> FirstLabel(package.declarations)]
        ELSE [bundle |-> Content(package, package.manifest[i]), label |-> NoLabel]]
=============================================================================
