--------------------------- MODULE ContentVersion ---------------------------
(* What the sources of reference_sources.go share: policy documents, and a *)
(* version token that is a hash of the bytes.                              *)
EXTENDS Loader

CONSTANTS Documents,       \* the policy documents there are
          contentVersion,  \* the hash of a byte string, as a version token
          MaxWrites        \* bound on whoever writes them

BundleOf(b) == [raw |-> b, version |-> contentVersion[b]]

ASSUME ContentAssumption == /\ Documents \subseteq Bytes
                            /\ contentVersion \in [Bytes -> Ids]
                            /\ MaxWrites \in Nat
=============================================================================
