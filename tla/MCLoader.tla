------------------------------ MODULE MCLoader ------------------------------
(* A small instance of Loader with a signature verifier: two refreshers, a *)
(* reader, and a source that can publish two good envelopes, one of them   *)
(* under two version tokens, a forged one, one whose verified content is   *)
(* malformed, and an oversized one.                                        *)
EXTENDS Loader, TLC

CONSTANTS r1, r2, d1,
          read, write, junk,                             \* documents
          readSealed, writeSealed, forged, junkSealed, huge,  \* artifacts
          touched                                        \* a version token

Artifacts == {readSealed, writeSealed, forged, junkSealed, huge}
MCBytes == {read, write, junk} \cup Artifacts

SignatureVerifier == [b \in MCBytes |-> CASE b = readSealed -> read
                                          [] b = writeSealed -> write
                                          [] b = junkSealed -> junk
                                          [] b = huge -> write
                                          [] OTHER -> Rejected]
MCVerifiers == {PassthroughVerifier, SignatureVerifier}

\* A content hash that does not collide, and an etag that changed on its own.
MCIds == Artifacts \cup {touched}
MCBundles == {[raw |-> b, version |-> b] : b \in Artifacts}
                 \cup {[raw |-> readSealed, version |-> touched]}

\* The default Loader: no WithVerifier option, and documents published bare.
MCDocuments == {read, write, junk}
MCDefaultVerifiers == {PassthroughVerifier}
MCDocumentBundles == {[raw |-> b, version |-> b] : b \in MCDocuments}

Symmetry == Permutations({r1, r2})
ASSUME VersionsAreFaithful
=============================================================================
