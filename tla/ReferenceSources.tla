-------------------------- MODULE ReferenceSources --------------------------
(* A Loader over one of the two sources of reference_sources.go, which the *)
(* host constructs it with.                                                *)
EXTENDS FileSource, MemorySource

VARIABLE kind    \* the source the host constructed
rvars == <<fvars, slice, document, kind>>

RInit == FInit /\ MInit /\ kind \in {"FileSource", "MemorySource"}

RNext == /\ \/ kind = "FileSource" /\ FNext /\ UNCHANGED <<slice, document>>
            \/ kind = "MemorySource" /\ MNext /\ UNCHANGED <<ownerVars, fetchVars>>
         /\ UNCHANGED kind

RSpec == RInit /\ [][RNext]_rvars
RPollingSpec == RSpec /\ FPolling

-----------------------------------------------------------------------------
(* Properties. *)

\* reference_sources.go, FileSource.Fetch and contentVersion: of a file, even a mixture
\* is served under its own hash; a read never gets the version of another document.
\* (Of a slice it is not so: what its owner writes there before the first Refresh is
\* served under the hash of what it held when the source was constructed.)
FileVersionNamesRules == kind = "FileSource" => VersionNamesRules

\* loader.go, "no in-flight decision ever observes a partial or mixed policy": what
\* serves of a file is a document its owner wrote.
FileNeverMixed == kind = "FileSource" => NeverMixed
=============================================================================
