----------------------------- MODULE FileSource -----------------------------
(***************************************************************************)
(* A Loader over the FileSource of reference_sources.go: Fetch opens the    *)
(* file, reads it chunk by chunk through readCapped and names what it read  *)
(* by its hash, while the owner of the file replaces it (a rename), unlinks *)
(* it or, when InPlace, truncates and rewrites it under the reader's eyes.  *)
(* A byte string is a sequence of chunks, maxBundleBytes a number of them.  *)
(*                                                                         *)
(* The Loader's published is here the history of what the file held, whole. *)
(* What a read puts together of a file rewritten under it joins that history *)
(* too (Recorded): the Loader then has a name for what its source returned. *)
(***************************************************************************)
EXTENDS ContentVersion

CONSTANTS Limit,     \* maxBundleBytes
          InPlace    \* may the owner rewrite the file in place?

VARIABLES inodes,    \* what each inode holds; a rename brings in a new one
          path,      \* the inode the path names, 0 for none
          written,   \* the documents the owner wrote, or has begun to write
          writing,   \* is the last of them being written in place?
          rewritten, \* history: was any of them?
          fd,        \* the inode each Fetch has open, 0 for none
          buf,       \* what it has read
          whole      \* has it read to the end?

ownerVars == <<inodes, path, written, writing, rewritten>>
fetchVars == <<fd, buf, whole>>
fvars == <<vars, ownerVars, fetchVars>>

Content == inodes[path]
Document == written[Len(written)]

Chunks == UNION {{b[k] : k \in DOMAIN b} : b \in Bytes}

\* Bytes holds what a Fetch can put together of a file rewritten under it.
ASSUME FileAssumption ==
    /\ Bytes \subseteq Seq(Chunks)
    /\ \A n \in 0 .. Limit : \A b \in [1 .. n -> Chunks] :
          (\A i \in 1 .. n : \E d \in Documents : i <= Len(d) /\ b[i] = d[i]) => b \in Bytes
    /\ <<>> \notin Documents
    /\ Limit \in Nat /\ InPlace \in BOOLEAN
    /\ Oversized = {b \in Bytes : Len(b) > Limit}
    /\ {BundleOf(b) : b \in Bytes} \subseteq Bundles

FInit == /\ Init
         /\ inodes = <<>> /\ path = 0 /\ written = <<>>
         /\ writing = FALSE /\ rewritten = FALSE
         /\ fd = [r \in Writers |-> 0]
         /\ buf = [r \in Writers |-> <<>>]
         /\ whole = [r \in Writers |-> FALSE]

-----------------------------------------------------------------------------
(* The owner of the file. *)

Begin(d) == /\ Len(written) < MaxWrites
            /\ ~writing
            /\ written' = Append(written, d)
            /\ UNCHANGED fetchVars

\* A rename over the path: an inode that is open stays as it was.
Replace(d) == /\ Begin(d)
              /\ inodes' = Append(inodes, d)
              /\ path' = Len(inodes) + 1
              /\ Publish(BundleOf(d))
              /\ UNCHANGED <<writing, rewritten>>

Truncate(d) == /\ Begin(d)
               /\ InPlace /\ path # 0
               /\ inodes' = [inodes EXCEPT ![path] = <<>>]
               /\ writing' = TRUE /\ rewritten' = TRUE
               /\ UNCHANGED <<vars, path>>

WriteChunk == /\ writing
              /\ inodes' = [inodes EXCEPT ![path] = Append(@, Document[Len(@) + 1])]
              /\ IF inodes'[path] = Document
                 THEN writing' = FALSE /\ Publish(BundleOf(Document))
                 ELSE UNCHANGED <<vars, writing>>
              /\ UNCHANGED <<path, written, rewritten, fetchVars>>

Unlink == /\ path # 0 /\ ~writing /\ Len(written) < MaxWrites
          /\ path' = 0
          /\ UNCHANGED <<vars, inodes, written, writing, rewritten, fetchVars>>

-----------------------------------------------------------------------------
(* Fetch. *)

Fetching(r) == lpc[r] = "fetch" /\ ~whole[r]

Open(r) == /\ Fetching(r)
           /\ fd[r] = 0 /\ path # 0
           /\ fd' = [fd EXCEPT ![r] = path]
           /\ UNCHANGED <<vars, ownerVars, buf, whole>>

\* Mutant: the file is looked up anew for every chunk.
ReadByPath(r) ==
    /\ Fetching(r)
    /\ fd[r] # 0 /\ path # 0
    /\ Len(buf[r]) <= Limit /\ Len(buf[r]) < Len(Content)
    /\ buf' = [buf EXCEPT ![r] = Append(@, Content[Len(@) + 1])]
    /\ UNCHANGED <<vars, ownerVars, fd, whole>>

\* io.ReadAll over the LimitReader: the next chunk, up to one past the limit.
Read(r) ==
    /\ Fetching(r)
    /\ fd[r] # 0
    /\ Len(buf[r]) <= Limit /\ Len(buf[r]) < Len(inodes[fd[r]])
    /\ buf' = [buf EXCEPT ![r] = Append(@, inodes[fd[r]][Len(@) + 1])]
    /\ UNCHANGED <<vars, ownerVars, fd, whole>>

\* End of file, within the limit.
AtEnd(r) == Len(buf[r]) <= Limit /\ Len(buf[r]) >= Len(inodes[fd[r]])

\* The publications since the call that the bytes read could be.
Seen(r) == {g \in fetched[r] .. Len(published) : g > 0 /\ published[g].raw = buf[r]}

\* History: of a file rewritten in place, what was read but never was the whole of
\* the file is one more thing the source hands out, under its hash.
Recorded(r) == IF rewritten /\ Seen(r) = {}
               THEN Publish(BundleOf(buf[r]))
               ELSE UNCHANGED vars

\* Mutant: the version is taken from the file again, after the read.
ReadEndRehash(r) ==
    /\ Fetching(r)
    /\ fd[r] # 0 /\ AtEnd(r)
    /\ whole' = [whole EXCEPT ![r] = TRUE]
    /\ IF rewritten /\ Seen(r) = {}
       THEN Publish([raw |-> buf[r], version |-> contentVersion[inodes[fd[r]]]])
       ELSE UNCHANGED vars
    /\ UNCHANGED <<ownerVars, fd, buf>>

\* All was read.
ReadEnd(r) ==
    /\ Fetching(r)
    /\ fd[r] # 0 /\ AtEnd(r)
    /\ whole' = [whole EXCEPT ![r] = TRUE]
    /\ UNCHANGED <<ownerVars, fd, buf>>
    /\ Recorded(r)

Close(r) == /\ fd' = [fd EXCEPT ![r] = 0]
            /\ buf' = [buf EXCEPT ![r] = <<>>]
            /\ whole' = [whole EXCEPT ![r] = FALSE]
            /\ UNCHANGED ownerVars

\* Fetch returns what it read, under its hash: a publication of the time of the
\* call, or, with 0, something else.
Return(r) ==
    /\ lpc[r] = "fetch" /\ whole[r]
    /\ \E g \in IF Seen(r) = {} THEN {0} ELSE Seen(r) : fetched' = [fetched EXCEPT ![r] = g]
    /\ lpc' = [lpc EXCEPT ![r] = "gate"]
    /\ Close(r)
    /\ UNCHANGED <<hvars, published, mu, servedAt, floor>>

\* Mutant: the reader of a file that was too long is kept for the next Fetch.
TooLongKeepsReader(r) == /\ Fetching(r)
                         /\ Len(buf[r]) > Limit
                         /\ FetchErr(r) /\ UNCHANGED <<ownerVars, fetchVars>>

\* readCapped rejects what is longer than the limit.
TooLong(r) == /\ Fetching(r)
              /\ Len(buf[r]) > Limit
              /\ FetchErr(r) /\ Close(r)

\* No file, or an error of the file system while reading it.
NoFile(r) == Fetching(r) /\ fd[r] = 0 /\ path = 0 /\ FetchErr(r) /\ Close(r)
Fault(r) == Fetching(r) /\ FetchErr(r) /\ Close(r)

-----------------------------------------------------------------------------
FetchFile(r) == Open(r) \/ Read(r) \/ ReadEnd(r) \/ Return(r) \/ TooLong(r) \/ NoFile(r)
OtherStep(r) == (CallRefresh(r) \/ Lock(r) \/ LocalStep(r)) /\ UNCHANGED <<ownerVars, fetchVars>>
Deciding(d) == (CallLoaderDecide(d) \/ LoaderDecideStep(d)) /\ UNCHANGED <<ownerVars, fetchVars>>

FNext == \/ \E d \in Documents : Replace(d) \/ Truncate(d)
         \/ WriteChunk \/ Unlink
         \/ \E r \in Writers : FetchFile(r) \/ Fault(r) \/ OtherStep(r)
         \/ \E d \in Readers : Deciding(d)

FSpec == FInit /\ [][FNext]_fvars

\* The host polls, the scheduler runs its goroutines, and the file system
\* fails finitely often.  The owner need not finish what it writes.
FPolling ==
    /\ \A r \in Writers : /\ WF_fvars(CallRefresh(r) /\ UNCHANGED <<ownerVars, fetchVars>>)
                          /\ SF_fvars(Lock(r) /\ UNCHANGED <<ownerVars, fetchVars>>)
                          /\ WF_fvars(LocalStep(r) /\ UNCHANGED <<ownerVars, fetchVars>>)
                          /\ WF_fvars(FetchFile(r))
    /\ <>[][\A r \in Writers : ~Fault(r)]_fvars

-----------------------------------------------------------------------------
(* Properties. *)

\* source.go, Source: a Fetch that takes many steps, of a file that is replaced
\* under it, hands out what the file held, whole, at some moment of the call -
\* or fails.  A file too long is never cut to size.  Once the file is rewritten in
\* place, Recorded makes good the first part by construction; what is left is that a
\* failed or overlong read returns nothing.  With Loader!Spec come all its properties.
IsLoader == Spec

\* reference_sources.go, contentVersion, "any change yields a different one": the
\* version served is the hash of the bytes served.
VersionNamesRules ==
    cur # NoSnapshot => cur.id = contentVersion[cur.rules]

\* Once the owner is done and leaves a document the pipeline takes, it comes to be
\* served (or one with the same hash), whatever a read in between put together.
Settled == path # 0 /\ ~writing /\ BundleOf(Content) \in Loadable
Heals == <>[](Settled => cur # NoSnapshot /\ cur.id = contentVersion[Content])

\* loader.go, "no in-flight decision ever observes a partial or mixed policy": what
\* serves is a document the owner wrote.
NeverMixed ==
    cur # NoSnapshot => \E k \in DOMAIN written : cur.rules = written[k]
=============================================================================
