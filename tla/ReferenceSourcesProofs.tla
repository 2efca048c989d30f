----------------------- MODULE ReferenceSourcesProofs -----------------------
(* Proofs about FileSource, MemorySource and ReferenceSources for any       *)
(* documents, any hash, any limit and any number of refreshers, whether the *)
(* owner of the file replaces it whole or rewrites it under a Fetch.        *)
EXTENDS ReferenceSources, LoaderProofs, SequenceTheorems

-----------------------------------------------------------------------------
(* A Loader over a MemorySource. *)

\* All that the source ever handed out has the version of the first document.
OneVersion ==
    /\ document \in Documents \cup {NoDocument}
    /\ document = NoDocument => published = <<>>
    /\ \A g \in 1 .. Len(published) : published[g].version = contentVersion[document]

\* Constructing the source, and writing to its slice, publish a bundle.
LEMMA SourcePublishes ==
    ASSUME OneVersion, NEW b \in Documents, NewMemorySource(b) \/ Write(b)
    PROVE  /\ document' \in Documents /\ Bundle(b, document') \in Bundles
           /\ Publish(Bundle(b, document'))
<1>1. CASE NewMemorySource(b)
  BY <1>1, MemoryAssumption DEF NewMemorySource, Bundle
<1>2. CASE Write(b)
  <2>1. document \in Documents /\ document' = document
    BY <1>2 DEF Write, OneVersion
  <2> QED BY <1>2, <2>1, MemoryAssumption DEF Write, Bundle
<1> QED BY <1>1, <1>2

\* Every step of a Loader over a MemorySource is one of a Loader.
LEMMA MemoryStepsLoader == OneVersion /\ [MNext]_mvars => [Next]_vars
<1> SUFFICES ASSUME OneVersion, [MNext]_mvars PROVE Next \/ UNCHANGED vars
  OBVIOUS
<1>1. ASSUME NEW b \in Documents, NewMemorySource(b) \/ Write(b)
      PROVE  Next
  BY <1>1, SourcePublishes DEF Next
<1>2. ASSUME LoaderStep
      PROVE  Next
  BY <1>2 DEF LoaderStep, Fetch, Next, FetchStep
<1> QED BY <1>1, <1>2 DEF MNext, mvars

\* A Loader's own step publishes nothing.
LEMMA LoaderStepPublishesNothing == LoaderStep => UNCHANGED <<published, document>>
BY DEF LoaderStep, CallRefresh, Lock, Fetch, FetchOk, LocalStep, SizeGate, SkipUnchanged,
       StartLoad, LoadBundleStep, FinishLoad, Unlock, CallLoaderDecide, LoaderDecideStep

\* The version is the same before any publication and after it.
LEMMA OneVersionStep == LInv /\ OneVersion /\ [MNext]_mvars => OneVersion'
<1> SUFFICES ASSUME LInv, OneVersion, [MNext]_mvars PROVE OneVersion'
  OBVIOUS
<1>1. ASSUME NEW b \in Documents, NewMemorySource(b) \/ Write(b)
      PROVE  OneVersion'
  <2>1. /\ document' \in Documents /\ Bundle(b, document') \in Bundles
        /\ published' = Append(published, Bundle(b, document'))
    BY <1>1, SourcePublishes DEF Publish
  <2>2. /\ Len(published') = Len(published) + 1
        /\ \A g \in 1 .. Len(published) : published'[g] = published[g]
        /\ published'[Len(published) + 1] = Bundle(b, document')
        /\ Len(published) \in Nat
    BY <2>1, AppendKeeps DEF LInv, LTypeOK
  <2>3. \A g \in 1 .. Len(published) : published[g].version = contentVersion[document']
    BY <1>1 DEF OneVersion, NewMemorySource, Write
  <2>4. Bundle(b, document').version = contentVersion[document']
    BY DEF Bundle
  <2> QED BY <2>1, <2>2, <2>3, <2>4, MemoryAssumption DEF OneVersion
<1>2. ASSUME UNCHANGED <<published, document>>
      PROVE  OneVersion'
  BY <1>2 DEF OneVersion
<1> QED BY <1>1, <1>2, LoaderStepPublishesNothing DEF MNext, mvars, vars

\* A source not yet constructed has published nothing.
LEMMA OneVersionInit == MInit => OneVersion
BY DEF MInit, Init, OneVersion

\* All that is proved of a Loader holds of one over a MemorySource.
THEOREM MemorySourceIsLoader == MSpec => Spec
<1>1. MInit => Init
  BY DEF MInit
<1>2. Init => HInit
  BY DEF Init
<1> QED BY <1>1, <1>2, OneVersionInit, OneVersionStep, MemoryStepsLoader, HInitInv, HNextInv,
           LInitInv, LNextInv, LoaderStepsHolder, PTL
        DEF MSpec, Spec

\* Once a policy from the slice serves, nothing written there is ever served: the
\* Loader sees one version, and never loads the version that serves.
THEOREM MemorySourceIsDeaf == MSpec => DeafToWrites
<1>1. LInv /\ OneVersion /\ [MNext]_mvars => [cur # NoSnapshot => cur' = cur]_mvars
  <2> SUFFICES ASSUME LInv, OneVersion, [MNext]_mvars, cur # NoSnapshot
               PROVE  cur' = cur
    OBVIOUS
  <2>1. [Next]_vars
    BY MemoryStepsLoader
  <2>2. ASSUME NEW r \in Writers, LoadBundleStep(r), Store(r)
        PROVE  FALSE
    <3>1. wpc[r] = "store" /\ cur.id # task[r].id
      BY <2>2 DEF Store, LInv, NoReparseOfServed
    <3>2. task[r].id = published[fetched[r]].version
      BY <3>1, TaskIsFetched
    <3>3. fetched[r] \in 1 .. Len(published) /\ servedAt \in 1 .. Len(published)
      BY <3>1 DEF LInv, LTypeOK, Loading, Fetched, ServedVersion
    <3>4. cur.id = published[servedAt].version
      BY <3>3 DEF LInv, ServedVersion
    <3> QED BY <3>1, <3>2, <3>3, <3>4 DEF OneVersion
  <2>3. ASSUME NEW r \in Writers, SkipUnchanged(r)
        PROVE  cur' = cur
    BY <2>3 DEF SkipUnchanged, hvars
  <2> QED BY <2>1, <2>2, <2>3, ServedCases
<1>2. MInit => Init
  BY DEF MInit
<1>3. Init => HInit
  BY DEF Init
<1> QED BY <1>1, <1>2, <1>3, OneVersionInit, OneVersionStep, MemoryStepsLoader, HInitInv,
           HNextInv, LInitInv, LNextInv, LoaderStepsHolder, PTL
        DEF MSpec, DeafToWrites

-----------------------------------------------------------------------------
(* A Loader over a FileSource. *)

\* Every chunk of b is one that a document has at the same place.
Assembled(b) == /\ b \in Seq(Chunks)
                /\ \A i \in 1 .. Len(b) : \E d \in Documents : i <= Len(d) /\ b[i] = d[i]

Begins(b, d) == /\ Len(b) <= Len(d)
                /\ \A i \in 1 .. Len(b) : b[i] = d[i]

\* What is being written in place is a beginning of the last document begun.
Rewriting == /\ rewritten
             /\ path # 0 /\ written # <<>>
             /\ Len(inodes[path]) < Len(Document) /\ Begins(inodes[path], Document)

Owner ==
    /\ inodes \in Seq(Seq(Chunks)) /\ written \in Seq(Documents)
    /\ \A i \in 1 .. Len(inodes) : Assembled(inodes[i])
    /\ path \in 0 .. Len(inodes)
    /\ writing \in BOOLEAN /\ rewritten \in BOOLEAN
    /\ writing => Rewriting
    /\ rewritten => InPlace

\* As long as the file is only replaced, what the path names was published last.
LastPublished == ~rewritten /\ path # 0 =>
                    Len(published) > 0 /\ published[Len(published)].raw = inodes[path]

\* An open file was what the path named at some moment since the call, and what was
\* read of it is a beginning of it, as long as the file is only replaced.
OpenedSince(r) == \E g \in 1 .. Len(published) :
                      g >= fetched[r] /\ published[g].raw = inodes[fd[r]]
ReadSoFar(r) == OpenedSince(r) /\ Begins(buf[r], inodes[fd[r]])

\* At the end of the file what was read is some publication since the call.
ReaderOk(r) == /\ fd[r] = 0 => buf[r] = <<>> /\ ~whole[r]
               /\ fd[r] # 0 => lpc[r] = "fetch" /\ (~rewritten => ReadSoFar(r))
               /\ Assembled(buf[r])
               /\ whole[r] => Seen(r) # {}

Reading ==
    /\ fd \in [Writers -> 0 .. Len(inodes)]
    /\ buf \in [Writers -> Seq(Chunks)]
    /\ whole \in [Writers -> BOOLEAN]
    /\ \A r \in Writers : ReaderOk(r)

FileInv == Owner /\ LastPublished /\ Reading

\* The publications are named by their hashes, and one of them serves.
Hashed ==
    /\ \A g \in 1 .. Len(published) : published[g].version = contentVersion[published[g].raw]
    /\ cur # NoSnapshot => \E g \in 1 .. Len(published) : cur = SnapshotOf(published[g])

\* The publications are documents the owner wrote.
Authored == ~InPlace => \A g \in 1 .. Len(published) :
                           \E k \in 1 .. Len(written) : published[g].raw = written[k]

\* A document is a byte string, and a sequence of chunks, each its own.
LEMMA DocumentIsBytes ==
    ASSUME NEW d \in Documents
    PROVE  d \in Bytes /\ d \in Seq(Chunks) /\ Len(d) \in Nat /\ BundleOf(d) \in Bundles
BY FileAssumption, ContentAssumption, LenProperties DEF Chunks

\* What a Fetch has put together is a byte string, if it is within the limit.
LEMMA AssembledIsBytes ==
    ASSUME NEW b, Assembled(b), Len(b) <= Limit
    PROVE  b \in Bytes /\ BundleOf(b) \in Bundles
<1>1. b \in [1 .. Len(b) -> Chunks] /\ Len(b) \in 0 .. Limit
  BY FileAssumption, LenProperties DEF Assembled
<1> QED BY <1>1, FileAssumption DEF Assembled

\* The beginning of a sequence that is as long as it is all of it.
LEMMA BeginsAll ==
    ASSUME NEW b \in Seq(Chunks), NEW d \in Seq(Chunks), Begins(b, d), Len(b) >= Len(d)
    PROVE  b = d
<1>1. Len(b) = Len(d)
  BY LenProperties DEF Begins
<1> QED BY <1>1, SeqEqual DEF Begins

\* Putting one more chunk of what is assembled where it belongs.
LEMMA AppendChunk ==
    ASSUME NEW b, Assembled(b), NEW c \in Chunks, NEW d \in Documents,
           Len(b) < Len(d), c = d[Len(b) + 1]
    PROVE  /\ Assembled(Append(b, c)) /\ Append(b, c) \in Seq(Chunks)
           /\ Len(b) \in Nat /\ Len(Append(b, c)) = Len(b) + 1
           /\ \A i \in 1 .. Len(b) : Append(b, c)[i] = b[i]
           /\ Append(b, c)[Len(b) + 1] = c
<1>1. /\ Append(b, c) \in Seq(Chunks)
      /\ Len(b) \in Nat /\ Len(Append(b, c)) = Len(b) + 1
      /\ \A i \in 1 .. Len(b) : Append(b, c)[i] = b[i]
      /\ Append(b, c)[Len(b) + 1] = c
  BY AppendProperties, LenProperties DEF Assembled
<1>2. Len(b) + 1 <= Len(d)
  BY <1>1, DocumentIsBytes
<1> QED BY <1>1, <1>2 DEF Assembled

\* The lengths the steps compare are natural numbers.
LEMMA FileLengths ==
    ASSUME LInv, FileInv
    PROVE  /\ Len(published) \in Nat /\ Len(inodes) \in Nat
           /\ \A i \in 1 .. Len(inodes) : inodes[i] \in Seq(Chunks) /\ Len(inodes[i]) \in Nat
           /\ \A r \in Writers : /\ fetched[r] \in 0 .. Len(published)
                                 /\ buf[r] \in Seq(Chunks) /\ Len(buf[r]) \in Nat
<1>1. \A i \in 1 .. Len(inodes) : inodes[i] \in Seq(Chunks)
  BY ElementOfSeq DEF FileInv, Owner
<1> QED BY <1>1, LenProperties DEF LInv, LTypeOK, FileInv, Owner, Reading

\* At the end of a file that is only replaced the whole of it was read, and it was
\* published.
LEMMA WholeWasPublished ==
    ASSUME LInv, FileInv, NEW r \in Writers, fd[r] # 0, AtEnd(r), ~rewritten
    PROVE  Seen(r) # {}
<1>1. fd[r] \in 1 .. Len(inodes) /\ ReadSoFar(r)
  BY DEF FileInv, Reading, ReaderOk
<1>2. buf[r] = inodes[fd[r]]
  BY <1>1, FileLengths, BeginsAll DEF ReadSoFar, AtEnd
<1> QED BY <1>1, <1>2 DEF ReadSoFar, OpenedSince, Seen

\* A Fetch that has nothing open is at the beginning.
LEMMA FileInitInv == FInit => FileInv
<1> SUFFICES ASSUME FInit PROVE FileInv
  OBVIOUS
<1>1. Owner /\ LastPublished
  <2>1. /\ inodes = <<>> /\ path = 0 /\ written = <<>> /\ writing = FALSE /\ rewritten = FALSE
    BY DEF FInit
  <2>2. inodes \in Seq(Seq(Chunks)) /\ written \in Seq(Documents) /\ Len(inodes) = 0
    BY <2>1, EmptySeq
  <2>3. path \in 0 .. Len(inodes) /\ \A i \in 1 .. Len(inodes) : Assembled(inodes[i])
    BY <2>1, <2>2
  <2>4. writing \in BOOLEAN /\ rewritten \in BOOLEAN /\ ~writing /\ ~rewritten
    BY <2>1
  <2>5. Owner
    BY <2>2, <2>3, <2>4 DEF Owner
  <2> QED BY <2>1, <2>5 DEF LastPublished
<1>2. Reading
  BY DEF FInit, Reading, ReaderOk, Assembled
<1> QED BY <1>1, <1>2 DEF FileInv

\* What one Fetch has read stands as long as it stays in its call: while the file is
\* only replaced its inode does not change, and publications stay where they are.
LEMMA ReaderKept ==
    ASSUME LInv, FileInv, NEW q \in Writers,
           fd'[q] = fd[q], buf'[q] = buf[q], whole'[q] = whole[q],
           fd[q] # 0 => lpc'[q] = lpc[q] /\ fetched'[q] = fetched[q],
           ~rewritten' => ~rewritten /\ \A i \in 1 .. Len(inodes) : inodes'[i] = inodes[i],
           Len(published') \in Nat, Len(published') >= Len(published),
           \A g \in 1 .. Len(published) : published'[g] = published[g]
    PROVE  ReaderOk(q)'
<1>1. ReaderOk(q) /\ (fd[q] # 0 => fd[q] \in 1 .. Len(inodes))
  BY DEF FileInv, Reading
<1>2. Assembled(buf[q])'
  BY <1>1 DEF ReaderOk, Assembled
<1>3. CASE fd[q] = 0
  BY <1>1, <1>2, <1>3 DEF ReaderOk
<1>4. CASE fd[q] # 0
  <2>1. ASSUME ~rewritten'
        PROVE  ReadSoFar(q)'
    <3>1. inodes'[fd[q]] = inodes[fd[q]] /\ ReadSoFar(q)
      BY <1>1, <1>4, <2>1 DEF ReaderOk
    <3>2. OpenedSince(q)'
      BY <1>4, <3>1, FileLengths DEF ReadSoFar, OpenedSince
    <3> QED BY <3>1, <3>2 DEF ReadSoFar, Begins
  <2>2. ASSUME whole'[q]
        PROVE  (Seen(q) # {})'
    <3>1. PICK g \in fetched[q] .. Len(published) : g > 0 /\ published[g].raw = buf[q]
      BY <1>1, <2>2 DEF ReaderOk, Seen
    <3>2. g \in fetched'[q] .. Len(published') /\ published'[g] = published[g]
      BY <1>4, <3>1, FileLengths
    <3> QED BY <3>1, <3>2 DEF Seen
  <2> QED BY <1>1, <1>2, <1>4, <2>1, <2>2 DEF ReaderOk
<1> QED BY <1>3, <1>4

\* A step that leaves the owner's file alone, and publishes nothing for it.
LEMMA OwnerKept ==
    ASSUME FileInv, UNCHANGED <<inodes, path, written, writing, rewritten>>,
           ~rewritten => published' = published
    PROVE  Owner' /\ LastPublished'
<1>1. Owner'
  <2>1. \A i \in 1 .. Len(inodes) : Assembled(inodes[i])'
    BY DEF FileInv, Owner, Assembled
  <2>2. writing' => Rewriting'
    BY DEF FileInv, Owner, Rewriting, Begins, Document
  <2> QED BY <2>1, <2>2 DEF FileInv, Owner
<1>2. LastPublished'
  BY DEF FileInv, LastPublished
<1> QED BY <1>1, <1>2

\* A step of the owner, that leaves every Fetch alone.
LEMMA ReadingKept ==
    ASSUME LInv, FileInv,
           UNCHANGED <<fd, buf, whole>>,
           \A q \in Writers : fd[q] # 0 => lpc'[q] = lpc[q] /\ fetched'[q] = fetched[q],
           ~rewritten' => ~rewritten /\ \A i \in 1 .. Len(inodes) : inodes'[i] = inodes[i],
           Len(inodes') \in Nat, Len(inodes') >= Len(inodes),
           Len(published') \in Nat, Len(published') >= Len(published),
           \A g \in 1 .. Len(published) : published'[g] = published[g]
    PROVE  Reading'
<1>1. \A q \in Writers : ReaderOk(q)'
  BY ReaderKept
<1>2. fd' \in [Writers -> 0 .. Len(inodes')]
  BY FileLengths DEF FileInv, Reading
<1> QED BY <1>1, <1>2 DEF FileInv, Reading

\* The owner replaces the file.
LEMMA ReplaceInv ==
    ASSUME LInv, FileInv, NEW d \in Documents, Replace(d)
    PROVE  FileInv'
<1>1. /\ inodes' = Append(inodes, d) /\ path' = Len(inodes) + 1
      /\ written' = Append(written, d)
      /\ published' = Append(published, BundleOf(d))
      /\ ~writing /\ UNCHANGED <<writing, rewritten, fd, buf, whole, lpc, fetched>>
  BY DEF Replace, Begin, Publish, fetchVars, loaderVars
<1>2. /\ inodes' \in Seq(Seq(Chunks)) /\ written' \in Seq(Documents)
      /\ Len(inodes') = Len(inodes) + 1 /\ inodes'[Len(inodes) + 1] = d
      /\ \A i \in 1 .. Len(inodes) : inodes'[i] = inodes[i]
  BY <1>1, DocumentIsBytes, AppendProperties DEF FileInv, Owner
<1>3. /\ Len(published') = Len(published) + 1
      /\ published'[Len(published) + 1] = BundleOf(d)
      /\ \A g \in 1 .. Len(published) : published'[g] = published[g]
  BY <1>1, DocumentIsBytes, AppendProperties DEF LInv, LTypeOK
<1>4. Assembled(d)
  BY DocumentIsBytes DEF Assembled
<1>5. Owner'
  <2>1. \A i \in 1 .. Len(inodes') : Assembled(inodes'[i])
    <3>1. \A i \in 1 .. Len(inodes) : Assembled(inodes[i])
      BY DEF FileInv, Owner
    <3>2. \A i \in 1 .. Len(inodes') : i \in 1 .. Len(inodes) \/ i = Len(inodes) + 1
      BY <1>2, FileLengths
    <3> QED BY <1>2, <1>4, <3>1, <3>2
  <2>2. path' \in 0 .. Len(inodes')
    BY <1>1, <1>2, FileLengths
  <2> QED BY <1>1, <1>2, <2>1, <2>2 DEF FileInv, Owner, Assembled
<1>6. LastPublished'
  BY <1>1, <1>2, <1>3, FileLengths DEF LastPublished, BundleOf
<1>7. Reading'
  BY <1>1, <1>2, <1>3, FileLengths, ReadingKept
<1> QED BY <1>5, <1>6, <1>7 DEF FileInv

\* The owner truncates the file, or unlinks it.
LEMMA TruncateInv ==
    ASSUME LInv, FileInv, Unlink \/ \E d \in Documents : Truncate(d)
    PROVE  FileInv'
<1>1. CASE Unlink
  <2>1. /\ ~writing /\ path' = 0
        /\ UNCHANGED <<inodes, written, writing, rewritten, fd, buf, whole, lpc, fetched, published>>
    BY <1>1 DEF Unlink, vars, loaderVars, fetchVars
  <2>2. Owner'
    BY <2>1, FileLengths DEF FileInv, Owner, Assembled
  <2>3. Reading'
    BY <2>1, FileLengths, ReadingKept
  <2> QED BY <2>1, <2>2, <2>3 DEF FileInv, LastPublished
<1>2. ASSUME NEW d \in Documents, Truncate(d)
      PROVE  FileInv'
  <2>1. /\ InPlace /\ path # 0 /\ writing' /\ rewritten'
        /\ inodes' = [inodes EXCEPT ![path] = <<>>]
        /\ written' = Append(written, d)
        /\ UNCHANGED <<path, fd, buf, whole, lpc, fetched, published>>
    BY <1>2 DEF Truncate, Begin, vars, loaderVars, fetchVars
  <2>2. path \in 1 .. Len(inodes)
    BY <2>1 DEF FileInv, Owner
  <2>3. /\ inodes' \in Seq(Seq(Chunks)) /\ Len(inodes') = Len(inodes)
        /\ inodes'[path] = <<>>
        /\ \A i \in 1 .. Len(inodes) : i # path => inodes'[i] = inodes[i]
    BY <2>1, <2>2, ExceptSeq, EmptySeq DEF FileInv, Owner
  <2>4. /\ written' \in Seq(Documents) /\ written' # <<>>
        /\ written'[Len(written')] = d
    <3>1. /\ written' \in Seq(Documents)
          /\ Len(written') = Len(written) + 1 /\ Len(written) \in Nat
          /\ written'[Len(written) + 1] = d
      BY <2>1, AppendProperties, LenProperties DEF FileInv, Owner
    <3>2. written' # <<>>
      BY <3>1
    <3> QED BY <3>1, <3>2
  <2>5. Len(d) > 0
    BY DocumentIsBytes, FileAssumption, EmptySeq
  <2>6. Rewriting'
    BY <2>1, <2>3, <2>4, <2>5 DEF Rewriting, Begins, Document
  <2>7. \A i \in 1 .. Len(inodes') : Assembled(inodes'[i])
    <3>1. Assembled(<<>>)
      BY DEF Assembled
    <3> QED BY <2>2, <2>3, <3>1 DEF FileInv, Owner
  <2>8. Owner'
    BY <2>1, <2>2, <2>3, <2>4, <2>6, <2>7 DEF Owner, Assembled
  <2>9. Reading'
    BY <2>1, <2>3, FileLengths, ReadingKept
  <2> QED BY <2>1, <2>8, <2>9 DEF FileInv, LastPublished
<1> QED BY <1>1, <1>2

\* The owner writes one more chunk of its document in place.
LEMMA WriteChunkInv ==
    ASSUME LInv, FileInv, WriteChunk
    PROVE  FileInv' /\ Document \in Documents
<1> DEFINE file == inodes[path]
           chunk == Document[Len(file) + 1]
<1>1. /\ writing /\ Rewriting
      /\ inodes' = [inodes EXCEPT ![path] = Append(file, chunk)]
      /\ UNCHANGED <<path, written, rewritten, fd, buf, whole>>
      /\ IF inodes'[path] = Document
         THEN writing' = FALSE /\ Publish(BundleOf(Document))
         ELSE UNCHANGED <<vars, writing>>
  BY DEF WriteChunk, FileInv, Owner, fetchVars
<1>2. path \in 1 .. Len(inodes) /\ file \in Seq(Chunks) /\ Assembled(file)
  BY <1>1, FileLengths DEF FileInv, Owner, Rewriting
<1>3. Document \in Documents
  BY <1>1, EmptySeq, LenProperties, ElementOfSeq DEF FileInv, Owner, Rewriting, Document
<1>4. Len(file) < Len(Document) /\ Begins(file, Document) /\ Document \in Seq(Chunks)
  BY <1>1, <1>3, DocumentIsBytes DEF Rewriting
<1>5. chunk \in Chunks
  BY <1>2, <1>4, ElementOfSeq, LenProperties
<1> HIDE DEF chunk, file
<1>6. /\ Assembled(Append(file, chunk)) /\ Append(file, chunk) \in Seq(Chunks)
      /\ Len(Append(file, chunk)) = Len(file) + 1
      /\ Begins(Append(file, chunk), Document)
  BY <1>2, <1>3, <1>4, <1>5, AppendChunk, DocumentIsBytes DEF chunk, Begins
<1>7. /\ inodes' \in Seq(Seq(Chunks)) /\ Len(inodes') = Len(inodes)
      /\ inodes'[path] = Append(file, chunk)
      /\ \A i \in 1 .. Len(inodes) : i # path => inodes'[i] = inodes[i]
  BY <1>1, <1>2, <1>6, ExceptSeq DEF FileInv, Owner
<1>8. Document' = Document
  BY <1>1 DEF Document
<1>9. writing' => Rewriting'
  <2> SUFFICES ASSUME writing' PROVE Rewriting'
    OBVIOUS
  <2>1. inodes'[path] # Document
    BY <1>1
  <2>2. Len(Append(file, chunk)) < Len(Document)
    <3>1. Len(Append(file, chunk)) \in Nat /\ Len(Document) \in Nat
      BY <1>3, <1>6, DocumentIsBytes, LenProperties
    <3>2. Len(Append(file, chunk)) >= Len(Document) => Append(file, chunk) = Document
      BY <1>4, <1>6, BeginsAll
    <3> QED BY <1>7, <2>1, <3>1, <3>2
  <2> QED BY <1>1, <1>6, <1>7, <1>8, <2>2 DEF Rewriting, Begins
<1>10. writing' \in BOOLEAN
  BY <1>1
<1>11. \A i \in 1 .. Len(inodes') : Assembled(inodes'[i])
  BY <1>2, <1>6, <1>7 DEF FileInv, Owner
<1>12. Owner'
  BY <1>1, <1>7, <1>9, <1>10, <1>11 DEF FileInv, Owner, Assembled
<1>13. /\ UNCHANGED <<lpc, fetched>>
       /\ Len(published') \in Nat /\ Len(published') >= Len(published)
       /\ \A g \in 1 .. Len(published) : published'[g] = published[g]
  <2>1. CASE UNCHANGED vars
    BY <2>1, FileLengths DEF vars, loaderVars
  <2>2. CASE Publish(BundleOf(Document))
    BY <1>3, <2>2, DocumentIsBytes, AppendKeeps DEF Publish, loaderVars, LInv, LTypeOK
  <2> QED BY <1>1, <2>1, <2>2
<1>14. rewritten /\ rewritten'
  BY <1>1 DEF Rewriting
<1>15. Reading'
  BY <1>1, <1>7, <1>13, <1>14, FileLengths, ReadingKept
<1> QED BY <1>3, <1>12, <1>14, <1>15 DEF FileInv, LastPublished

\* Fetch opens the file.
LEMMA OpenInv ==
    ASSUME LInv, FileInv, NEW r \in Writers, Open(r)
    PROVE  FileInv'
<1>1. /\ lpc[r] = "fetch" /\ path # 0 /\ fd[r] = 0 /\ ~whole[r]
      /\ fd' = [fd EXCEPT ![r] = path]
      /\ UNCHANGED <<inodes, path, written, writing, rewritten, published, lpc, fetched, buf, whole>>
  BY DEF Open, Fetching, vars, ownerVars, loaderVars
<1>2. Owner' /\ LastPublished'
  BY <1>1, OwnerKept
<1>3. buf[r] = <<>>
  BY <1>1 DEF FileInv, Reading, ReaderOk
<1>4. path \in 1 .. Len(inodes) /\ fd'[r] = path /\ fd' \in [Writers -> 0 .. Len(inodes)]
  BY <1>1 DEF FileInv, Owner, Reading
<1>5. ASSUME NEW q \in Writers, q # r
      PROVE  ReaderOk(q)'
  <2>1. fd'[q] = fd[q]
    BY <1>1, <1>5 DEF FileInv, Reading
  <2> QED BY <1>1, <2>1, FileLengths, ReaderKept
<1>6. ReaderOk(r)'
  <2>1. ASSUME ~rewritten'
        PROVE  ReadSoFar(r)'
    <3>1. Len(published) > 0 /\ published[Len(published)].raw = inodes[path]
      BY <1>1, <2>1 DEF FileInv, LastPublished
    <3>2. OpenedSince(r)'
      BY <1>1, <1>4, <3>1, FileLengths DEF OpenedSince
    <3> QED BY <1>1, <1>3, <1>4, <3>2, FileLengths DEF ReadSoFar, Begins
  <2>2. Assembled(buf[r])'
    BY <1>1, <1>3 DEF Assembled
  <2> QED BY <1>1, <1>4, <2>1, <2>2 DEF ReaderOk
<1> QED BY <1>1, <1>2, <1>4, <1>5, <1>6 DEF FileInv, Reading

\* Fetch reads a chunk.
LEMMA ReadInv ==
    ASSUME LInv, FileInv, NEW r \in Writers, Read(r)
    PROVE  FileInv'
<1> DEFINE file == inodes[fd[r]]
           chunk == file[Len(buf[r]) + 1]
<1>1. /\ fd[r] # 0 /\ ~whole[r] /\ Len(buf[r]) < Len(file)
      /\ buf' = [buf EXCEPT ![r] = Append(buf[r], chunk)]
      /\ UNCHANGED <<inodes, path, written, writing, rewritten, published, lpc, fetched, fd, whole>>
  BY DEF Read, Fetching, vars, ownerVars, loaderVars
<1>2. Owner' /\ LastPublished'
  BY <1>1, OwnerKept
<1>3. /\ fd[r] \in 1 .. Len(inodes) /\ buf[r] \in Seq(Chunks) /\ lpc[r] = "fetch"
      /\ Assembled(buf[r]) /\ (~rewritten => ReadSoFar(r))
  BY <1>1 DEF FileInv, Reading, ReaderOk
<1>4. file \in Seq(Chunks) /\ Len(file) \in Nat /\ Len(buf[r]) \in Nat /\ Assembled(file)
  BY <1>3, FileLengths DEF FileInv, Owner
<1>5. chunk \in Chunks /\ Len(buf[r]) + 1 \in 1 .. Len(file)
  BY <1>1, <1>4, ElementOfSeq
<1>6. PICK d \in Documents : Len(buf[r]) + 1 <= Len(d) /\ chunk = d[Len(buf[r]) + 1]
  BY <1>4, <1>5 DEF Assembled
<1> HIDE DEF chunk
<1>7. Len(buf[r]) < Len(d)
  BY <1>4, <1>6, DocumentIsBytes
<1>8. /\ Assembled(Append(buf[r], chunk)) /\ Append(buf[r], chunk) \in Seq(Chunks)
      /\ Len(Append(buf[r], chunk)) = Len(buf[r]) + 1
      /\ \A i \in 1 .. Len(buf[r]) : Append(buf[r], chunk)[i] = buf[r][i]
      /\ Append(buf[r], chunk)[Len(buf[r]) + 1] = chunk
  BY <1>3, <1>5, <1>6, <1>7, AppendChunk
<1>9. buf' \in [Writers -> Seq(Chunks)] /\ buf'[r] = Append(buf[r], chunk)
  BY <1>1, <1>8 DEF FileInv, Reading
<1>10. ASSUME NEW q \in Writers, q # r
       PROVE  ReaderOk(q)'
  <2>1. buf'[q] = buf[q]
    BY <1>1, <1>10 DEF FileInv, Reading
  <2> QED BY <1>1, <2>1, FileLengths, ReaderKept
<1>11. ReaderOk(r)'
  <2>1. ASSUME ~rewritten'
        PROVE  ReadSoFar(r)'
    <3>1. OpenedSince(r) /\ Begins(buf[r], file)
      BY <1>1, <1>3, <2>1 DEF ReadSoFar
    <3>2. OpenedSince(r)'
      BY <1>1, <3>1 DEF OpenedSince
    <3>3. \A i \in 1 .. Len(buf[r]) + 1 : buf'[r][i] = file[i]
      BY <1>4, <1>8, <1>9, <3>1 DEF Begins, chunk
    <3>4. Begins(buf'[r], file)
      BY <1>1, <1>4, <1>8, <1>9, <3>3 DEF Begins
    <3> QED BY <1>1, <3>2, <3>4 DEF ReadSoFar, Begins
  <2>2. Assembled(buf[r])'
    BY <1>8, <1>9 DEF Assembled
  <2> QED BY <1>1, <1>3, <2>1, <2>2 DEF ReaderOk
<1> QED BY <1>1, <1>2, <1>3, <1>9, <1>10, <1>11 DEF FileInv, Reading

\* Fetch is at the end of the file; a mixture it read is published.
LEMMA ReadEndInv ==
    ASSUME LInv, FileInv, NEW r \in Writers, ReadEnd(r)
    PROVE  /\ FileInv'
           /\ rewritten /\ Seen(r) = {} => BundleOf(buf[r]) \in Bundles
<1>1. /\ fd[r] # 0 /\ AtEnd(r) /\ whole' = [whole EXCEPT ![r] = TRUE]
      /\ IF rewritten /\ Seen(r) = {} THEN Publish(BundleOf(buf[r])) ELSE UNCHANGED vars
      /\ UNCHANGED <<inodes, path, written, writing, rewritten, fd, buf>>
  BY DEF ReadEnd, Recorded, ownerVars
<1>2. /\ lpc[r] = "fetch" /\ Assembled(buf[r]) /\ (~rewritten => ReadSoFar(r))
      /\ fd[r] \in 1 .. Len(inodes)
  BY <1>1 DEF FileInv, Reading, ReaderOk
<1>3. BundleOf(buf[r]) \in Bundles
  BY <1>1, <1>2, AssembledIsBytes DEF AtEnd
<1>4. UNCHANGED <<lpc, fetched>>
  BY <1>1 DEF Publish, vars, loaderVars
<1>6. /\ Len(published') \in Nat /\ Len(published') >= Len(published)
      /\ \A g \in 1 .. Len(published) : published'[g] = published[g]
      /\ \E g \in fetched[r] .. Len(published') : g > 0 /\ published'[g].raw = buf[r]
      /\ ~rewritten => published' = published
  <2>1. CASE rewritten /\ Seen(r) = {}
    <3>1. /\ Len(published') = Len(published) + 1
          /\ published'[Len(published) + 1] = BundleOf(buf[r])
          /\ \A g \in 1 .. Len(published) : published'[g] = published[g]
      <4>1. published' = Append(published, BundleOf(buf[r]))
        BY <1>1, <2>1 DEF Publish
      <4> QED BY <1>3, <4>1, AppendProperties DEF LInv, LTypeOK
    <3>2. published'[Len(published) + 1].raw = buf[r]
      BY <3>1 DEF BundleOf
    <3> QED BY <2>1, <3>1, <3>2, FileLengths
  <2>2. CASE ~(rewritten /\ Seen(r) = {})
    <3>1. published' = published
      BY <1>1, <2>2 DEF vars
    <3>2. Seen(r) # {}
      BY <1>1, <2>2, WholeWasPublished DEF FileInv, Owner
    <3> QED BY <3>1, <3>2, FileLengths DEF Seen
  <2> QED BY <2>1, <2>2
<1>7. Owner' /\ LastPublished'
  BY <1>1, <1>6, OwnerKept
<1>8. ASSUME NEW q \in Writers, q # r
      PROVE  ReaderOk(q)'
  <2>1. whole'[q] = whole[q]
    BY <1>1, <1>8 DEF FileInv, Reading
  <2> QED BY <1>1, <1>4, <1>6, <2>1, ReaderKept
<1>9. ReaderOk(r)'
  <2>1. (Seen(r) # {})'
    BY <1>1, <1>4, <1>6 DEF Seen
  <2>2. ~rewritten' => ReadSoFar(r)'
    BY <1>1, <1>2, <1>4, <1>6 DEF ReadSoFar, OpenedSince, Begins
  <2> QED BY <1>1, <1>2, <1>4, <2>1, <2>2 DEF ReaderOk, Assembled
<1>10. whole' \in [Writers -> BOOLEAN] /\ fd' \in [Writers -> 0 .. Len(inodes')]
  BY <1>1 DEF FileInv, Reading
<1> QED BY <1>1, <1>3, <1>7, <1>8, <1>9, <1>10 DEF FileInv, Reading

\* Fetch returns: what it had open, it closes.
LEMMA ReturnInv ==
    ASSUME LInv, FileInv, NEW r \in Writers,
           Return(r) \/ TooLong(r) \/ NoFile(r) \/ Fault(r)
    PROVE  FileInv' /\ published' = published
<1>1. /\ Close(r) /\ UNCHANGED <<inodes, path, written, writing, rewritten, published>>
      /\ \A q \in Writers : q # r => lpc'[q] = lpc[q] /\ fetched'[q] = fetched[q]
  BY DEF Return, TooLong, NoFile, Fault, Close, FetchErr, ownerVars, LInv, LTypeOK
<1>2. Owner' /\ LastPublished'
  BY <1>1, OwnerKept
<1>3. /\ fd' \in [Writers -> 0 .. Len(inodes')]
      /\ buf' \in [Writers -> Seq(Chunks)]
      /\ whole' \in [Writers -> BOOLEAN]
  <2>1. 0 \in 0 .. Len(inodes) /\ <<>> \in Seq(Chunks)
    BY FileLengths, EmptySeq
  <2> QED BY <1>1, <2>1 DEF Close, FileInv, Reading
<1>4. ASSUME NEW q \in Writers
      PROVE  ReaderOk(q)'
  <2>1. CASE q = r
    BY <1>1, <2>1 DEF Close, FileInv, Reading, ReaderOk, Assembled
  <2>2. CASE q # r
    <3>1. fd'[q] = fd[q] /\ buf'[q] = buf[q] /\ whole'[q] = whole[q]
      BY <1>1, <2>2 DEF Close, FileInv, Reading
    <3> QED BY <1>1, <2>2, <3>1, FileLengths, ReaderKept
  <2> QED BY <2>1, <2>2
<1> QED BY <1>1, <1>2, <1>3, <1>4 DEF FileInv, Reading

\* A step of the Loader that is none of Fetch does not concern a Fetch.
LEMMA OtherInv ==
    ASSUME LInv, FileInv,
           \/ \E r \in Writers : OtherStep(r)
           \/ \E d \in Readers : Deciding(d)
           \/ UNCHANGED fvars
    PROVE  FileInv' /\ published' = published
<1>1. UNCHANGED <<published, inodes, path, written, writing, rewritten, fd, buf, whole>>
  BY DEF OtherStep, Deciding, fvars, vars, ownerVars, fetchVars, CallRefresh, Lock, LocalStep,
         SizeGate, SkipUnchanged, StartLoad, LoadBundleStep, FinishLoad, Unlock,
         CallLoaderDecide, LoaderDecideStep
<1>2. ASSUME NEW q \in Writers, fd[q] # 0
      PROVE  lpc'[q] = lpc[q] /\ fetched'[q] = fetched[q]
  <2>1. lpc[q] = "fetch"
    BY <1>2 DEF FileInv, Reading, ReaderOk
  <2>2. ASSUME NEW r \in Writers, OtherStep(r)
        PROVE  lpc'[q] = lpc[q] /\ fetched'[q] = fetched[q]
    BY <2>1, <2>2
       DEF OtherStep, CallRefresh, Lock, LocalStep, SizeGate, SkipUnchanged, StartLoad,
           LoadBundleStep, FinishLoad, Unlock, loaderVars, LInv, LTypeOK
  <2>3. ASSUME NEW d \in Readers, Deciding(d)
        PROVE  lpc'[q] = lpc[q] /\ fetched'[q] = fetched[q]
    BY <2>3 DEF Deciding, CallLoaderDecide, LoaderDecideStep, loaderVars
  <2> QED BY <2>2, <2>3 DEF fvars, vars, loaderVars
<1>3. Owner' /\ LastPublished'
  BY <1>1, OwnerKept
<1>4. Reading'
  BY <1>1, <1>2, FileLengths, ReadingKept
<1> QED BY <1>1, <1>3, <1>4 DEF FileInv

\* The invariant is inductive.
LEMMA FileNextInv == LInv /\ FileInv /\ [FNext]_fvars => FileInv'
<1> SUFFICES ASSUME LInv, FileInv, [FNext]_fvars PROVE FileInv'
  OBVIOUS
<1> QED BY ReplaceInv, TruncateInv, WriteChunkInv, OpenInv, ReadInv, ReadEndInv, ReturnInv,
           OtherInv
        DEF FNext, FetchFile

\* What a step publishes is the bundle of some bytes: of a document the owner wrote
\* or, of a file rewritten in place, of a mixture.
LEMMA WhatIsPublished ==
    ASSUME LInv, FileInv, [FNext]_fvars
    PROVE  \/ published' = published /\ (written' = written \/ \E d \in Documents : Begin(d))
           \/ \E d \in Documents : Publish(BundleOf(d)) /\ Begin(d)
           \/ /\ InPlace /\ written' = written
              /\ \E b : BundleOf(b) \in Bundles /\ Publish(BundleOf(b))
<1>1. ASSUME NEW d \in Documents, Replace(d) \/ Truncate(d)
      PROVE  (published' = published \/ Publish(BundleOf(d))) /\ Begin(d)
  BY <1>1 DEF Replace, Truncate, vars
<1>2. ASSUME WriteChunk
      PROVE  /\ InPlace /\ written' = written /\ BundleOf(Document) \in Bundles
             /\ Publish(BundleOf(Document)) \/ published' = published
  BY <1>2, WriteChunkInv, DocumentIsBytes DEF WriteChunk, FileInv, Owner, Rewriting, vars
<1>3. ASSUME NEW r \in Writers, ReadEnd(r)
      PROVE  /\ written' = written
             /\ \/ published' = published
                \/ InPlace /\ BundleOf(buf[r]) \in Bundles /\ Publish(BundleOf(buf[r]))
  BY <1>3, ReadEndInv DEF ReadEnd, Recorded, FileInv, Owner, ownerVars, vars
<1>4. ASSUME NEW r \in Writers,
             Open(r) \/ Read(r) \/ Return(r) \/ TooLong(r) \/ NoFile(r) \/ Fault(r)
      PROVE  published' = published /\ written' = written
  BY <1>4 DEF Open, Read, Return, TooLong, NoFile, Fault, FetchErr, Close, ownerVars, vars
<1>5. ASSUME \/ Unlink
             \/ \E r \in Writers : OtherStep(r)
             \/ \E d \in Readers : Deciding(d)
             \/ UNCHANGED fvars
      PROVE  published' = published /\ written' = written
  BY <1>5, OtherInv DEF Unlink, OtherStep, Deciding, ownerVars, fvars, vars
<1> QED BY <1>1, <1>2, <1>3, <1>4, <1>5 DEF FNext, FetchFile

\* Every step is one of the Loader, or none: what Fetch does before it returns is
\* unseen but for a mixture, and it returns what was published since its call.
LEMMA FileStepsLoader == LInv /\ FileInv /\ [FNext]_fvars => [Next]_vars
<1> SUFFICES ASSUME LInv, FileInv, [FNext]_fvars PROVE Next \/ UNCHANGED vars
  OBVIOUS
<1>1. ASSUME NEW d \in Documents, Replace(d)
      PROVE  Next
  BY <1>1, DocumentIsBytes DEF Replace, Next
<1>2. (\E d \in Documents : Truncate(d)) \/ Unlink => UNCHANGED vars
  BY DEF Truncate, Unlink
<1>3. ASSUME WriteChunk
      PROVE  Next \/ UNCHANGED vars
  BY <1>3, WriteChunkInv, DocumentIsBytes DEF WriteChunk, Next
<1>4. ASSUME NEW r \in Writers, Open(r) \/ Read(r)
      PROVE  UNCHANGED vars
  BY <1>4 DEF Open, Read
<1>5. ASSUME NEW r \in Writers, ReadEnd(r)
      PROVE  Next \/ UNCHANGED vars
  BY <1>5, ReadEndInv DEF ReadEnd, Recorded, Next
<1>6. ASSUME NEW r \in Writers, Return(r)
      PROVE  FetchOk(r)
  <2>1. Seen(r) # {}
    BY <1>6 DEF Return, FileInv, Reading, ReaderOk
  <2> QED BY <1>6, <2>1 DEF Return, Seen, FetchOk
<1>7. ASSUME NEW r \in Writers, TooLong(r) \/ NoFile(r) \/ Fault(r)
      PROVE  FetchErr(r)
  BY <1>7 DEF TooLong, NoFile, Fault
<1>8. ASSUME NEW r \in Writers, OtherStep(r)
      PROVE  Next
  BY <1>8 DEF OtherStep, Next
<1>9. ASSUME NEW d \in Readers, Deciding(d)
      PROVE  Next
  BY <1>9 DEF Deciding, Next
<1>10. UNCHANGED fvars => UNCHANGED vars
  BY DEF fvars
<1> QED BY <1>1, <1>2, <1>3, <1>4, <1>5, <1>6, <1>7, <1>8, <1>9, <1>10
        DEF FNext, FetchFile, FetchStep, Next

-----------------------------------------------------------------------------
\* A Loader over a file, replaced or rewritten under its Fetches, is a Loader over a
\* source that published what they returned during their calls: all that is proved
\* of a Loader without a premise on versions holds of it.
THEOREM FileSourceIsLoader == FSpec => IsLoader
<1>1. FInit => Init
  BY DEF FInit
<1>2. Init => HInit
  BY DEF Init
<1> QED BY <1>1, <1>2, FileInitInv, FileNextInv, FileStepsLoader, HInitInv, HNextInv,
           LInitInv, LNextInv, LoaderStepsHolder, PTL
        DEF FSpec, Spec, IsLoader

\* What is known of every state of a Loader over a file.
LEMMA FileInvariant == FSpec => [](HInv /\ LInv /\ FileInv)
<1>1. FInit => Init
  BY DEF FInit
<1>2. Init => HInit
  BY DEF Init
<1> QED BY <1>1, <1>2, FileInitInv, FileNextInv, FileStepsLoader, HInitInv, HNextInv,
           LInitInv, LNextInv, LoaderStepsHolder, PTL
        DEF FSpec

\* A Fetch at the end of the file has read, whole, something published since its
\* call: it never finds itself without an answer.
THEOREM FetchIsWhole == FSpec => [](\A r \in Writers : whole[r] => Seen(r) # {})
<1>1. FileInv => \A r \in Writers : whole[r] => Seen(r) # {}
  BY DEF FileInv, Reading, ReaderOk
<1> QED BY <1>1, FileInvariant, PTL

\* Each step leaves the publications named by their hashes, and one of them serving.
LEMMA HashedStep ==
    ASSUME HInv, LInv, FileInv, Hashed, [FNext]_fvars
    PROVE  Hashed'
<1>1. [Next]_vars
  BY FileStepsLoader
<1>2. \/ published' = published
      \/ \E b : BundleOf(b) \in Bundles /\ published' = Append(published, BundleOf(b))
  BY WhatIsPublished, DocumentIsBytes DEF Publish
<1>3. \A g \in 1 .. Len(published') :
          published'[g].version = contentVersion[published'[g].raw]
  <2>1. CASE published' = published
    BY <2>1 DEF Hashed
  <2>2. ASSUME NEW b, BundleOf(b) \in Bundles, published' = Append(published, BundleOf(b))
        PROVE  \A g \in 1 .. Len(published') :
                  published'[g].version = contentVersion[published'[g].raw]
    <3>1. /\ Len(published') = Len(published) + 1 /\ Len(published) \in Nat
          /\ published'[Len(published) + 1] = BundleOf(b)
          /\ \A g \in 1 .. Len(published) : published'[g] = published[g]
      BY <2>2, AppendProperties, LenProperties DEF LInv, LTypeOK
    <3>2. BundleOf(b).version = contentVersion[BundleOf(b).raw]
      BY DEF BundleOf
    <3>3. \A g \in 1 .. Len(published') : g \in 1 .. Len(published) \/ g = Len(published) + 1
      BY <3>1
    <3> QED BY <3>1, <3>2, <3>3 DEF Hashed
  <2> QED BY <1>2, <2>1, <2>2
<1>4. ASSUME cur' # NoSnapshot
      PROVE  \E g \in 1 .. Len(published') : cur' = SnapshotOf(published'[g])
  <2>1. CASE cur' = cur
    <3>1. PICK g \in 1 .. Len(published) : cur = SnapshotOf(published[g])
      BY <1>4, <2>1 DEF Hashed
    <3>2. g \in 1 .. Len(published') /\ published'[g] = published[g]
      BY <1>1, PublishedKept
    <3> QED BY <2>1, <3>1, <3>2
  <2>2. ASSUME NEW r \in Writers, LoadBundleStep(r), Store(r)
        PROVE  \E g \in 1 .. Len(published') : cur' = SnapshotOf(published'[g])
    <3>1. lpc[r] = "load" /\ published' = published
      BY <2>2 DEF LoadBundleStep
    <3>2. fetched[r] \in 1 .. Len(published)
      BY <3>1 DEF LInv, LTypeOK, Fetched
    <3> QED BY <2>2, <3>1, <3>2, StoreServes
  <2>3. ASSUME NEW r \in Writers, SkipUnchanged(r)
        PROVE  cur' = cur
    BY <2>3 DEF SkipUnchanged, hvars
  <2> QED BY <1>1, <2>1, <2>2, <2>3, ServedCases
<1> QED BY <1>3, <1>4 DEF Hashed

\* While the owner only replaces its file, each step publishes what it wrote or nothing.
LEMMA AuthoredStep ==
    ASSUME LInv, FileInv, Authored, [FNext]_fvars
    PROVE  Authored'
<1> SUFFICES ASSUME ~InPlace, NEW g \in 1 .. Len(published')
             PROVE  \E k \in 1 .. Len(written') : published'[g].raw = written'[k]
  BY DEF Authored
<1>1. written \in Seq(Documents) /\ published \in Seq(Bundles) /\ Len(published) \in Nat
  BY LenProperties DEF FileInv, Owner, LInv, LTypeOK
<1>2. ASSUME NEW d \in Documents, Begin(d)
      PROVE  /\ Len(written') = Len(written) + 1 /\ Len(written) \in Nat
             /\ written'[Len(written) + 1] = d
             /\ \A k \in 1 .. Len(written) : written'[k] = written[k]
  BY <1>1, <1>2, AppendProperties, LenProperties DEF Begin
<1>3. CASE published'[g] = published[g] /\ g \in 1 .. Len(published)
  <2>1. PICK k \in 1 .. Len(written) : published[g].raw = written[k]
    BY <1>3 DEF Authored
  <2>2. written' = written \/ \E d \in Documents : Begin(d)
    BY WhatIsPublished
  <2>3. k \in 1 .. Len(written') /\ written'[k] = written[k]
    BY <1>2, <2>2
  <2> QED BY <1>3, <2>1, <2>3
<1>4. ASSUME NEW d \in Documents, Publish(BundleOf(d)), Begin(d)
      PROVE  \/ published'[g] = published[g] /\ g \in 1 .. Len(published)
             \/ \E k \in 1 .. Len(written') : published'[g].raw = written'[k]
  <2>1. /\ Len(published') = Len(published) + 1
        /\ published'[Len(published) + 1] = BundleOf(d)
        /\ \A h \in 1 .. Len(published) : published'[h] = published[h]
    BY <1>1, <1>4, DocumentIsBytes, AppendProperties DEF Publish
  <2>2. BundleOf(d).raw = d
    BY DEF BundleOf
  <2>3. CASE g \in 1 .. Len(published)
    BY <2>1, <2>3
  <2>4. CASE g = Len(published) + 1
    BY <1>2, <1>4, <2>1, <2>2, <2>4
  <2> QED BY <1>1, <2>1, <2>3, <2>4
<1> QED BY <1>3, <1>4, WhatIsPublished

\* The version that serves is the hash of the rules that serve, whatever mixtures the
\* Fetches read, for any hash: with the default verifier, which changes no byte.
LEMMA FileVersionsAreHashes ==
    ASSUME verify = PassthroughVerifier
    PROVE  FSpec => []VersionNamesRules
<1>1. FInit => Hashed
  BY DEF FInit, Init, HInit, Hashed
<1>2. LInv /\ Hashed => VersionNamesRules
  <2> SUFFICES ASSUME LInv, Hashed, cur # NoSnapshot
               PROVE  cur.id = contentVersion[cur.rules]
    BY DEF VersionNamesRules
  <2>1. PICK g \in 1 .. Len(published) : cur = SnapshotOf(published[g])
    BY DEF Hashed
  <2>2. published[g].raw \in Bytes
    <3>1. published[g] \in Bundles
      BY ElementOfSeq DEF LInv, LTypeOK
    <3> QED BY <3>1, LoaderAssumption
  <2>3. cur.id = published[g].version /\ cur.rules = published[g].raw
    BY <2>1, <2>2 DEF SnapshotOf, PassthroughVerifier
  <2> QED BY <2>3 DEF Hashed
<1>3. HInv /\ LInv /\ FileInv /\ Hashed /\ [FNext]_fvars => Hashed'
  BY HashedStep
<1> QED BY <1>1, <1>2, <1>3, FileInvariant, PTL DEF FSpec

\* While the owner only replaces its file, what serves is a document it wrote, whole.
LEMMA FileServesItsDocuments ==
    ASSUME ~InPlace, verify = PassthroughVerifier
    PROVE  FSpec => []NeverMixed
<1>1. FInit => Hashed /\ Authored
  BY DEF FInit, Init, HInit, Hashed, Authored
<1>2. LInv /\ FileInv /\ Hashed /\ Authored => NeverMixed
  <2> SUFFICES ASSUME LInv, FileInv, Hashed, Authored, cur # NoSnapshot
               PROVE  \E k \in DOMAIN written : cur.rules = written[k]
    BY DEF NeverMixed
  <2>1. PICK g \in 1 .. Len(published) : cur = SnapshotOf(published[g])
    BY DEF Hashed
  <2>2. published[g].raw \in Bytes
    <3>1. published[g] \in Bundles
      BY ElementOfSeq DEF LInv, LTypeOK
    <3> QED BY <3>1, LoaderAssumption
  <2>3. cur.rules = published[g].raw
    BY <2>1, <2>2 DEF SnapshotOf, PassthroughVerifier
  <2>4. DOMAIN written = 1 .. Len(written)
    BY LenProperties DEF FileInv, Owner
  <2> QED BY <2>3, <2>4 DEF Authored
<1>3. HInv /\ LInv /\ FileInv /\ Hashed /\ [FNext]_fvars => Hashed'
  BY HashedStep
<1>4. LInv /\ FileInv /\ Authored /\ [FNext]_fvars => Authored'
  BY AuthoredStep
<1> QED BY <1>1, <1>2, <1>3, <1>4, FileInvariant, PTL DEF FSpec

-----------------------------------------------------------------------------
(* A Loader over the source its host constructed. *)

\* The source is the one constructed first, for ever, and only it takes steps.
LEMMA OneSource ==
    /\ RSpec => (kind = "FileSource" => FSpec /\ [](document = NoDocument))
    /\ RSpec => (kind = "MemorySource" => MSpec /\ [](kind = "MemorySource"))
    /\ RSpec => kind \in {"FileSource", "MemorySource"}
<1>1. RInit => /\ FInit /\ MInit /\ kind \in {"FileSource", "MemorySource"}
               /\ document = NoDocument
  BY DEF RInit, MInit, FInit
<1>2. kind = "FileSource" /\ [RNext]_rvars => (kind = "FileSource")' /\ [FNext]_fvars
  BY DEF RNext, rvars, fvars
<1>3. kind = "MemorySource" /\ [RNext]_rvars => (kind = "MemorySource")' /\ [MNext]_mvars
  BY DEF RNext, rvars, mvars, fvars
<1>4. kind = "FileSource" /\ document = NoDocument /\ [RNext]_rvars => (document = NoDocument)'
  BY DEF RNext, rvars
<1>6. RSpec => (kind = "FileSource" => FSpec /\ [](document = NoDocument))
  BY <1>1, <1>2, <1>4, PTL DEF RSpec, FSpec
<1>7. RSpec => (kind = "MemorySource" => MSpec /\ [](kind = "MemorySource"))
  BY <1>1, <1>3, PTL DEF RSpec, MSpec
<1>8. RSpec => kind \in {"FileSource", "MemorySource"}
  BY <1>1, PTL DEF RSpec
<1> QED BY <1>6, <1>7, <1>8

LEMMA EitherSource ==
    kind \in {"FileSource", "MemorySource"} <=> kind = "FileSource" \/ kind = "MemorySource"
OBVIOUS

\* All that is proved of a Loader holds of one over either source of the package.
THEOREM ReferenceSourcesAreLoaders == RSpec => IsLoader
<1>1. MSpec => IsLoader
  BY MemorySourceIsLoader DEF IsLoader
<1> QED BY <1>1, OneSource, EitherSource, FileSourceIsLoader, PTL

\* Of a file, with the default verifier, the version served is the hash of the bytes
\* served, for any hash and whatever mixtures the Fetches read.  Of a slice it is not:
\* what its owner writes there before the first Refresh is served under the hash of
\* what it held before.
THEOREM VersionNamesFile ==
    ASSUME verify = PassthroughVerifier
    PROVE  RSpec => []FileVersionNamesRules
<1>1. VersionNamesRules => FileVersionNamesRules
  BY DEF FileVersionNamesRules
<1>2. kind = "MemorySource" => FileVersionNamesRules
  BY DEF FileVersionNamesRules
<1>3. FSpec => []VersionNamesRules
  BY FileVersionsAreHashes
<1> QED BY <1>1, <1>2, <1>3, OneSource, EitherSource, PTL

\* Of a file its owner only replaces, with the default verifier, what serves is a
\* document the owner wrote, whole.
THEOREM FileReplacedNeverMixes ==
    ASSUME ~InPlace, verify = PassthroughVerifier
    PROVE  RSpec => []FileNeverMixed
<1>1. NeverMixed => FileNeverMixed
  BY DEF FileNeverMixed
<1>2. kind = "MemorySource" => FileNeverMixed
  BY DEF FileNeverMixed
<1>3. FSpec => []NeverMixed
  BY FileServesItsDocuments
<1> QED BY <1>1, <1>2, <1>3, OneSource, EitherSource, PTL

\* With either source, once a policy from a slice serves, what its caller writes there
\* is never served.
THEOREM ReferenceSourcesAreDeaf == RSpec => DeafToWrites
<1>1. document = NoDocument => [document # NoDocument /\ cur # NoSnapshot => cur' = cur]_mvars
  OBVIOUS
<1> QED BY <1>1, OneSource, EitherSource, MemorySourceIsDeaf, PTL DEF DeafToWrites
=============================================================================
