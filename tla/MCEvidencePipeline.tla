-------------------------- MODULE MCEvidencePipeline --------------------------
(* Captures of two radios, and packages and bundles in every condition.     *)
EXTENDS EvidencePipeline

User(group, alias) ==
    [kind |-> "labels", group |-> group, alias |-> alias, changed |-> FALSE]

Made(response, checksum, protocol, created, metadata) ==
    [response |-> response, checksum |-> checksum, protocol |-> protocol,
     created |-> created, metadata |-> metadata, sound |-> TRUE]

\* The second octet of radio a varies, and so does what it speaks; radio b
\* says nothing in a frame.
First  == Made(<<7, 1>>, "valid", "identification", 1, User("a", NoLabel))
Second == Made(<<7, 2>>, "valid", "bootloader", 2, User(NoLabel, "a"))
Mute   == Made(<<3>>, "none", "none", 3, User("b", NoLabel))

MCExportLists == {<<Mute, First, Second>>}

Varying == Exported(<<First, Second>>)

\* Damaged since it was exported; labelled by hand with two radios.
Damaged == [Varying EXCEPT !.captures[1].sound = FALSE]
Labelled(label, i) == [Varying.captures[i] EXCEPT !.metadata.group = label]
TwoRadios ==
    LET captures == <<Labelled("a", 1), Labelled("b", 2)>> IN
    [captures |-> captures, fingerprint |-> Fingerprint(captures),
     declarations |-> << >>]

MCFoundBundles == {NoBundle, Damaged}

\* Packages of others: one that is damaged since it was made, and one that
\* lists a bundle of two radios.
Spoilt == [Contribution(<<Exported(<<Second>>)>>, << >>, "text")
                EXCEPT !.members[1].data = Damaged]
Mixed  == Contribution(<<TwoRadios>>, << >>, "text")

MCFoundPackages == {Spoilt, Mixed}

MCDeclarationLists == {<< >>, <<[label |-> "a", complete |-> TRUE]>>}

\* The commands are alike, and no property names one.
Symmetry == Permutations(Processes)
=============================================================================
