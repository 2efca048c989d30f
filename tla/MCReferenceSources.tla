------------------------- MODULE MCReferenceSources -------------------------
(* A file, or a slice, that holds a two-chunk policy, or too many chunks.  *)
(* A chunk is some rules of a policy: the head of one and the tail of      *)
(* another are a policy too.  The hash tells all byte strings apart but    *)
(* one pair, a document and a mixture.                                     *)
EXTENDS ReferenceSources, SequencesExt

CONSTANT r1

head1 == "h1"
head2 == "h2"
tail1 == "t1"
tail2 == "t2"
Heads == {head1, head2}
Tails == {tail1, tail2}
Policy1 == <<head1, tail1>>
Policy2 == <<head2, tail2>>
Long == <<head1, tail1, tail2>>
MCDocuments == {Policy1, Policy2, Long}
MCWellFormed == {<<h, t>> : h \in Heads, t \in Tails}
MCBytes == {<<>>} \cup {<<h>> : h \in Heads} \cup MCWellFormed
              \cup {<<h, t, u>> : h \in Heads, t \in Tails, u \in Tails}
MCVerifiers == {PassthroughVerifier}
MCOversized == {b \in MCBytes : Len(b) > 2}
hash(b) == FoldLeft(LAMBDA h, chunk : h \o chunk, "fnv1a:", b)
MCContentVersion == [b \in MCBytes |-> hash(IF b = Policy2 THEN <<head1, tail2>> ELSE b)]
MCIds == {hash(b) : b \in MCBytes}
MCBundles == {BundleOf(b) : b \in MCBytes}
                 \cup {Bundle(b, d) : b \in MCDocuments, d \in MCDocuments}
=============================================================================
