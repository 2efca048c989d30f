------------------------------ MODULE MCHolder ------------------------------
(* A small instance of Holder: two unserialized writers, a reader, and    *)
(* byte strings that meet every outcome of the load pipeline.              *)
EXTENDS Holder, TLC

CONSTANTS w1, w2, d1, v1, v2,
          read,     \* a well-formed policy
          write,    \* another
          junk,     \* no policy at all
          sealed    \* a signed envelope around "read"; not itself a policy

MCBytes == {read, write, junk, sealed}

\* Opens an envelope, vouches for junk (verified but malformed), and rejects
\* everything that is not signed.
SignatureVerifier == [b \in MCBytes |-> CASE b = sealed -> read
                                          [] b = junk -> junk
                                          [] OTHER -> Rejected]
MCVerifiers == {PassthroughVerifier, SignatureVerifier}

Symmetry == Permutations({w1, w2})
=============================================================================
