-------------------------- MODULE SongFilesProofs --------------------------
(***************************************************************************)
(* Theorems about SongFiles, for every value of its constants.             *)
(***************************************************************************)
EXTENDS SongFiles, SequenceTheorems, WellFoundedInduction, TLAPS

-----------------------------------------------------------------------------
(* Facts about the operators of SongFiles. *)

\* A nonempty set of naturals has a least element, and Min is it.
LEMMA MinOfNaturals ==
    ASSUME NEW S \in SUBSET Nat, S # {}
    PROVE  Min(S) \in S
<1> DEFINE Less == OpToRel(<, Nat)
<1>1. IsWellFoundedOn(Less, Nat)
  BY NatLessThanWellFounded
<1>2. \A m, n \in Nat : m < n => <<m, n>> \in Less
  BY DEF OpToRel
<1>3. PICK y \in S : \A z \in S : y <= z
  <2> HIDE DEF Less
  <2>1. PICK y \in S : \A z \in S : ~ (<<z, y>> \in Less)
    BY <1>1, WFMin
  <2>2. ASSUME NEW z \in S
        PROVE  y <= z
    <3>1. y \in Nat /\ z \in Nat
      OBVIOUS
    <3>2. ~ (z < y)
      BY <1>2, <2>1, <3>1, Zenon
    <3> QED
      BY <3>1, <3>2
  <2> QED
    BY <2>2
<1> QED
  BY <1>3 DEF Min

\* A write at the offset leaves a file that is as long as it was, or ends there.
LEMMA WriteAtFacts ==
    ASSUME NEW S, NEW chunks \in Seq(S), NEW i \in Nat, NEW c \in S, Hole \in S
    PROVE  /\ WriteAt(chunks, i, c) \in Seq(S)
           /\ Len(WriteAt(chunks, i, c)) \in {i + 1, Len(chunks)}
           /\ i = Len(chunks) => WriteAt(chunks, i, c) = Append(chunks, c)
<1> DEFINE A == {i + 1, Len(chunks)}
           W == WriteAt(chunks, i, c)
<1>1. i + 1 \in Nat /\ Len(chunks) \in Nat
  OBVIOUS
<1>2. \E x \in A : \A y \in A : x >= y
  BY <1>1
<1>3. Max(A) \in A /\ \A y \in A : Max(A) >= y
  <2> HIDE DEF A
  <2> QED
    BY <1>2 DEF Max
<1>4. Max(A) \in Nat
  BY <1>1, <1>3
<1>5. W = [k \in 1 .. Max(A) |->
            IF k = i + 1 THEN c ELSE IF k <= Len(chunks) THEN chunks[k] ELSE Hole]
  BY DEF WriteAt
<1>6. \A k \in 1 .. Max(A) : W[k] \in S
  <2> HIDE DEF A
  <2> QED
    BY <1>4, <1>5
<1>7. W \in Seq(S) /\ Len(W) = Max(A)
  <2> HIDE DEF A, W
  <2>1. W = [k \in 1 .. Max(A) |-> W[k]]
    BY <1>5
  <2> QED
    BY <1>4, <1>6, <2>1
<1>8. ASSUME i = Len(chunks)
      PROVE  W = Append(chunks, c)
  <2>1. Max(A) = Len(chunks) + 1
    BY <1>1, <1>3, <1>8
  <2> HIDE DEF A
  <2>2. \A k \in 1 .. Len(chunks) + 1 : W[k] = Append(chunks, c)[k]
    BY <1>1, <1>5, <1>8, <2>1
  <2>3. Append(chunks, c) \in Seq(S) /\ Len(Append(chunks, c)) = Len(chunks) + 1
    OBVIOUS
  <2> HIDE DEF W
  <2> QED
    BY <1>7, <2>1, <2>2, <2>3, SeqEqual
<1> QED
  BY <1>3, <1>7, <1>8

\* A write at the end appends.
LEMMA WriteAtEnd ==
    ASSUME NEW S, NEW chunks \in Seq(S), NEW c \in S, Hole \in S
    PROVE  WriteAt(chunks, Len(chunks), c) = Append(chunks, c)
BY WriteAtFacts

-----------------------------------------------------------------------------
(* Types. *)

\* The places of an upload, of another request, of either.
UploadSteps == {"idle", "create", "write", "cover", "scan", "put"} \cup Ended
OtherSteps == {"idle", "stat", "open", "copy", "unlink", "rmdir", "uncover"} \cup Ended
Places == {"idle", "create", "write", "cover", "scan", "put", "stat", "open", "copy", "unlink",
           "rmdir", "uncover"} \cup Ended

\* How far an upload is, by where it is.
UploadProgress ==
    \A u \in Uploads :
        /\ pc[u] \in UploadSteps
        /\ pc[u] \in {"idle", "create", "put"} => offset[u] = 0 /\ file[u] = None
        /\ pc[u] = "write" => offset[u] < length[u] /\ file[u] # None
        /\ pc[u] \in {"cover", "scan"} => offset[u] = length[u] /\ file[u] # None

\* What a download has, by where it is; a delete has no file.
OtherProgress ==
    \A d \in Others :
        /\ pc[d] \in OtherSteps
        /\ pc[d] \in OtherSteps \ ({"copy"} \cup Ended) => file[d] = None /\ sent[d] = <<>>
        /\ pc[d] = "copy" => file[d] # None

\* No file is longer than the longest upload.
ContentFits == \A x \in Uploads : Len(content[x]) <= MaxChunks

\* The types, with what typing the next step needs to know of the requests.
TypeInv == TypeOK /\ UploadProgress /\ OtherProgress /\ ContentFits

\* Nothing has arrived at first.
LEMMA TypeInvInit == Init => TypeInv
<1> SUFFICES ASSUME Init
             PROVE  TypeInv
  OBVIOUS
<1>1. Min(Names) \in Names
  BY MinOfNaturals, NamesAssumption
<1>2. TypeOK
  <2>1. MaxChunks \in Nat
    BY MaxChunksAssumption
  <2>2. Listing = {}
    BY DEF Init, Listing
  <2>3. /\ \A u \in Uploads : <<>> \in Seq(Chunk \cup {Hole}) /\ None \in Uploads \cup {None}
        /\ 0 \in 0 .. MaxChunks /\ 0 \in Nat
    BY <2>1
  <2>4. directory \in BOOLEAN /\ cover \in BOOLEAN /\ apart \in BOOLEAN
    BY DEF Init
  <2>5. /\ content \in [Uploads -> Seq(Chunk \cup {Hole})]
        /\ sent \in [Others -> Seq(Chunk \cup {Hole})]
    BY DEF Init
  <2> QED
    BY <1>1, <2>1, <2>2, <2>3, <2>4, <2>5 DEF Init, TypeOK, Requests
<1>3. UploadProgress /\ OtherProgress
  BY DEF Init, UploadProgress, OtherProgress, UploadSteps, OtherSteps, Requests
<1>4. ContentFits
  <2>1. \A x \in Uploads : content[x] = <<>>
    BY DEF Init
  <2> QED
    BY <2>1, MaxChunksAssumption DEF ContentFits
<1> QED
  BY <1>2, <1>3, <1>4 DEF TypeInv

\* A chunk goes into a file of chunks, no further than the longest upload.
LEMMA ChunkWritten ==
    ASSUME TypeInv, NEW u \in Uploads, WriteChunk(u)
    PROVE  /\ file[u] \in Uploads /\ offset[u] < length[u] /\ length[u] \in 1 .. MaxChunks
           /\ content' \in [Uploads -> Seq(Chunk \cup {Hole})]
           /\ \A x \in Uploads : x # file[u] => content'[x] = content[x]
           /\ content'[file[u]] = WriteAt(content[file[u]], offset[u],
                                          [by |-> u, n |-> offset[u] + 1])
           /\ ContentFits'
<1>1. /\ file[u] \in Uploads /\ offset[u] \in Nat /\ offset[u] < length[u]
      /\ length[u] \in 1 .. MaxChunks /\ MaxChunks \in Nat
      /\ content \in [Uploads -> Seq(Chunk \cup {Hole})]
  BY MaxChunksAssumption DEF TypeInv, TypeOK, UploadProgress, WriteChunk, Requests
<1> DEFINE c == [by |-> u, n |-> offset[u] + 1]
           w == WriteAt(content[file[u]], offset[u], c)
<1>2. c \in Chunk
  BY <1>1 DEF Chunk
<1>3. content' = [content EXCEPT ![file[u]] = w]
  BY DEF WriteChunk
<1>4. /\ w \in Seq(Chunk \cup {Hole})
      /\ Len(w) \in {offset[u] + 1, Len(content[file[u]])}
  <2>1. content[file[u]] \in Seq(Chunk \cup {Hole}) /\ c \in Chunk \cup {Hole}
    BY <1>1, <1>2
  <2> HIDE DEF c
  <2> QED
    BY <1>1, <2>1, WriteAtFacts
<1> HIDE DEF w, c
<1>5. Len(w) <= MaxChunks
  BY <1>1, <1>4 DEF TypeInv, ContentFits
<1>6. ContentFits'
  BY <1>1, <1>3, <1>5 DEF TypeInv, ContentFits
<1> QED
  BY <1>1, <1>3, <1>4, <1>6 DEF w, c

\* Every step keeps the types: a request does its own steps only, in their order.
LEMMA TypeInvNext == TypeInv /\ [Next]_vars => TypeInv'
<1> SUFFICES ASSUME TypeInv, [Next]_vars
             PROVE  TypeInv'
  OBVIOUS
<1>0. TypeOK /\ UploadProgress /\ OtherProgress /\ ContentFits
  BY DEF TypeInv
<1> USE MaxChunksAssumption, RequestsAssumption
    DEF TypeInv, Requests, Ended, disk, uploadVars, downloadVars, Goto
<1>1. ASSUME NEW u \in Uploads, NEW f \in Names, Upload(u, f)
      PROVE  TypeInv'
  <2>1. TypeOK'
    BY <1>0, <1>1 DEF Upload, Arrives, TypeOK, Listing
  <2>2. UploadProgress' /\ OtherProgress' /\ ContentFits'
    BY <1>0, <1>1
    DEF Upload, Arrives, TypeOK, UploadProgress, OtherProgress, ContentFits, UploadSteps, OtherSteps
  <2> QED
    BY <2>1, <2>2
<1>2. ASSUME NEW u \in Uploads, CreateFile(u)
      PROVE  TypeInv'
  <2>1. CASE directory
    <3> DEFINE made == IF entry[name[u]] = None THEN u ELSE entry[name[u]]
    <3>1. /\ pc[u] = "create" /\ name[u] \in Names /\ made \in Uploads
          /\ entry' = [entry EXCEPT ![name[u]] = made]
          /\ content' = [content EXCEPT ![made] = <<>>]
          /\ file' = [file EXCEPT ![u] = made]
          /\ pc' = [pc EXCEPT ![u] = "write"]
          /\ UNCHANGED <<directory, cover, hash, name, uploadVars, downloadVars, found,
                         apart, faults>>
      BY <1>0, <1>2, <2>1 DEF CreateFile, TypeOK
    <3> HIDE DEF made
    <3>2. content' \in [Uploads -> Seq(Chunk \cup {Hole})]
      BY <1>0, <3>1 DEF TypeOK
    <3>a. shared' \subseteq Uploads
      BY <1>0, <1>2, <2>1 DEF CreateFile, Share, TypeOK
    <3>3. TypeOK'
      BY <1>0, <2>1, <3>1, <3>2, <3>a DEF TypeOK, Listing
    <3>4. ContentFits'
      <4>1. Len(<<>>) = 0
        OBVIOUS
      <4> QED
        BY <1>0, <3>1, <4>1 DEF TypeOK, ContentFits
    <3>5. UploadProgress' /\ OtherProgress'
      <4>1. UploadProgress'
        BY <1>0, <3>1, NoneAssumption DEF TypeOK, UploadProgress, UploadSteps
      <4>2. OtherProgress'
        BY <1>0, <3>1, NoneAssumption DEF TypeOK, OtherProgress
      <4> QED
        BY <4>1, <4>2
    <3> QED
      BY <3>3, <3>4, <3>5
  <2>2. CASE ~ directory
    <3>1. TypeOK' /\ ContentFits'
      BY <1>0, <1>2, <2>2 DEF CreateFile, TypeOK, Listing, ContentFits
    <3>2. UploadProgress' /\ OtherProgress'
      <4>1. UploadProgress'
        BY <1>0, <1>2, <2>2 DEF CreateFile, TypeOK, UploadProgress, UploadSteps
      <4>2. OtherProgress'
        BY <1>0, <1>2, <2>2 DEF CreateFile, TypeOK, OtherProgress
      <4> QED
        BY <4>1, <4>2
    <3> QED
      BY <3>1, <3>2
  <2> QED
    BY <2>1, <2>2
<1>3. ASSUME NEW u \in Uploads, WriteChunk(u)
      PROVE  TypeInv'
  <2>1. /\ offset[u] < length[u] /\ length[u] \in 1 .. MaxChunks
        /\ content' \in [Uploads -> Seq(Chunk \cup {Hole})]
        /\ ContentFits'
    BY <1>3, ChunkWritten
  <2>2. /\ pc[u] = "write" /\ offset' = [offset EXCEPT ![u] = @ + 1]
        /\ pc' = [pc EXCEPT ![u] = IF offset[u] + 1 = length[u] THEN "cover" ELSE "write"]
        /\ UNCHANGED <<directory, entry, cover, hash, name, file, length, size, sent, found,
                       apart, shared, faults>>
    BY <1>3 DEF WriteChunk
  <2>3. offset[u] \in 0 .. MaxChunks
    BY <1>0 DEF TypeOK
  <2>4. TypeOK'
    BY <1>0, <2>1, <2>2, <2>3, SMTT(20) DEF TypeOK, Listing
  <2>5. \A x \in Uploads \cup Others : x # u => pc'[x] = pc[x]
    BY <1>0, <2>2 DEF TypeOK
  <2>6. OtherProgress'
    BY <1>0, <2>2, <2>5 DEF OtherProgress
  <2>7. UploadProgress'
    <3>1. \A x \in Uploads : x # u => offset'[x] = offset[x]
      BY <1>0, <2>2 DEF TypeOK
    <3>2. /\ offset'[u] = offset[u] + 1
          /\ \/ pc'[u] = "cover" /\ offset'[u] = length[u]
             \/ pc'[u] = "write" /\ offset'[u] # length[u]
      BY <1>0, <2>2 DEF TypeOK
    <3>3. offset'[u] # length[u] => offset'[u] < length[u]
      BY <2>1, <2>3, <3>2
    <3>4. file[u] # None
      BY <1>0, <2>2 DEF UploadProgress
    <3> QED
      BY <1>0, <2>2, <2>5, <3>1, <3>2, <3>3, <3>4 DEF UploadProgress, UploadSteps
  <2> QED
    BY <2>1, <2>4, <2>6, <2>7
<1>4. ASSUME NEW u \in Uploads, SaveAudioFails(u)
      PROVE  TypeInv'
  <2>1. TypeOK' /\ ContentFits'
    BY <1>0, <1>4, SMTT(30) DEF SaveAudioFails, Fault, TypeOK, Listing, ContentFits
  <2>2. UploadProgress' /\ OtherProgress'
    <3>1. UploadProgress'
      BY <1>0, <1>4 DEF SaveAudioFails, TypeOK, UploadProgress, UploadSteps
    <3>2. OtherProgress'
      BY <1>0, <1>4 DEF SaveAudioFails, TypeOK, OtherProgress
    <3> QED
      BY <3>1, <3>2
  <2> QED
    BY <2>1, <2>2
<1>5. ASSUME NEW u \in Uploads, SaveCover(u)
      PROVE  TypeInv'
  <2>1. TypeOK' /\ ContentFits'
    BY <1>0, <1>5 DEF SaveCover, TypeOK, Listing, ContentFits
  <2>2. UploadProgress' /\ OtherProgress'
    <3>1. UploadProgress'
      BY <1>0, <1>5 DEF SaveCover, TypeOK, UploadProgress, UploadSteps
    <3>2. OtherProgress'
      BY <1>0, <1>5 DEF SaveCover, TypeOK, OtherProgress
    <3> QED
      BY <3>1, <3>2
  <2> QED
    BY <2>1, <2>2
<1>6. ASSUME NEW u \in Uploads, SaveHash(u) \/ ScanFails(u)
      PROVE  TypeInv'
  <2>1. TypeOK' /\ ContentFits'
    <3>1. CASE SaveHash(u)
      BY <1>0, <3>1 DEF SaveHash, Fault, TypeOK, Listing, ContentFits
    <3>2. CASE ScanFails(u)
      BY <1>0, <3>2 DEF ScanFails, Fault, TypeOK, Listing, ContentFits
    <3> QED
      BY <1>6, <3>1, <3>2
  <2>2. UploadProgress' /\ OtherProgress'
    <3>1. UploadProgress'
      BY <1>0, <1>6 DEF SaveHash, ScanFails, TypeOK, UploadProgress, UploadSteps
    <3>2. OtherProgress'
      BY <1>0, <1>6 DEF SaveHash, ScanFails, TypeOK, OtherProgress
    <3> QED
      BY <3>1, <3>2
  <2> QED
    BY <2>1, <2>2
<1>7. ASSUME NEW u \in Uploads, UploadCover(u)
      PROVE  TypeInv'
  <2>1. TypeOK' /\ ContentFits'
    BY <1>0, <1>7 DEF UploadCover, Arrives, TypeOK, Listing, ContentFits
  <2>2. UploadProgress' /\ OtherProgress'
    <3>1. UploadProgress'
      BY <1>0, <1>7 DEF UploadCover, Arrives, TypeOK, UploadProgress, UploadSteps
    <3>2. OtherProgress'
      BY <1>0, <1>7 DEF UploadCover, Arrives, TypeOK, OtherProgress
    <3> QED
      BY <3>1, <3>2
  <2> QED
    BY <2>1, <2>2
<1>8. ASSUME NEW u \in Uploads, PutCover(u) \/ PutCoverFails(u)
      PROVE  TypeInv'
  <2>1. TypeOK' /\ ContentFits'
    <3>1. CASE PutCover(u)
      BY <1>0, <3>1 DEF PutCover, Fault, TypeOK, Listing, ContentFits
    <3>2. CASE PutCoverFails(u)
      <4>1. cover' \in BOOLEAN
        BY <1>0, <3>2 DEF PutCoverFails, TypeOK
      <4>2. faults' \in Nat
        BY <1>0, <3>2 DEF PutCoverFails, Fault, TypeOK
      <4> QED
        BY <1>0, <3>2, <4>1, <4>2 DEF PutCoverFails, TypeOK, Listing, ContentFits
    <3> QED
      BY <1>8, <3>1, <3>2
  <2>2. UploadProgress' /\ OtherProgress'
    <3>1. UploadProgress'
      BY <1>0, <1>8 DEF PutCover, PutCoverFails, TypeOK, UploadProgress, UploadSteps
    <3>2. OtherProgress'
      BY <1>0, <1>8 DEF PutCover, PutCoverFails, TypeOK, OtherProgress
    <3> QED
      BY <3>1, <3>2
  <2> QED
    BY <2>1, <2>2
<1>9. ASSUME NEW d \in Others, Download(d)
      PROVE  TypeInv'
  <2>1. Listing # {} => Min(Listing) \in Names
    BY MinOfNaturals, NamesAssumption DEF Listing
  <2>2. TypeOK' /\ ContentFits'
    <3>1. name' \in [Requests -> Names] /\ pc' = [pc EXCEPT ![d] = pc'[d]]
          /\ pc'[d] \in {"stat", "failed"}
      <4>1. CASE Listing = {}
        BY <1>0, <1>9, <4>1 DEF Download, TypeOK
      <4>2. CASE Listing # {}
        <5>1. /\ name' = [name EXCEPT ![d] = Min(Listing)] /\ Min(Listing) \in Names
              /\ pc' = [pc EXCEPT ![d] = "stat"]
          BY <1>9, <2>1, <4>2 DEF Download
        <5> QED
          BY <1>0, <5>1 DEF TypeOK
      <4> QED
        BY <4>1, <4>2
    <3>2. apart' \in BOOLEAN
      BY <1>0, <1>9 DEF Download, Arrives, TypeOK
    <3>3. UNCHANGED <<disk, hash, file, uploadVars, downloadVars, found, shared, faults>>
      BY <1>9 DEF Download
    <3> QED
      BY <1>0, <3>1, <3>2, <3>3 DEF TypeOK, Listing, ContentFits
  <2>3. UploadProgress' /\ OtherProgress'
    <3>1. UploadProgress'
      BY <1>0, <1>9 DEF Download, Arrives, TypeOK, UploadProgress
    <3>2. OtherProgress'
      BY <1>0, <1>9 DEF Download, Arrives, TypeOK, OtherProgress, OtherSteps
    <3> QED
      BY <3>1, <3>2
  <2> QED
    BY <2>2, <2>3
<1>10. ASSUME NEW d \in Others, StatFile(d)
       PROVE  TypeInv'
  <2>1. ASSUME entry[name[d]] # None
        PROVE  Len(content[entry[name[d]]]) \in 0 .. MaxChunks
    <3>1. entry[name[d]] \in Uploads
      BY <1>0, <2>1 DEF TypeOK
    <3>2. content[entry[name[d]]] \in Seq(Chunk \cup {Hole})
      BY <1>0, <3>1 DEF TypeOK
    <3> QED
      BY <1>0, <3>1, <3>2 DEF ContentFits
  <2>2. TypeOK' /\ ContentFits'
    <3>1. size' \in [Others -> 0 .. MaxChunks] /\ pc' = [pc EXCEPT ![d] = pc'[d]]
          /\ pc'[d] \in {"open", "failed"}
      <4>1. CASE entry[name[d]] = None
        BY <1>0, <1>10, <4>1 DEF StatFile, TypeOK, Goto
      <4>2. CASE entry[name[d]] # None
        <5>1. /\ size' = [size EXCEPT ![d] = Len(content[entry[name[d]]])]
              /\ pc' = [pc EXCEPT ![d] = "open"]
          BY <1>10, <4>2 DEF StatFile, Goto
        <5>2. size \in [Others -> 0 .. MaxChunks] /\ d \in Requests
              /\ pc = [r \in Requests |-> pc[r]]
          BY <1>0 DEF TypeOK, Requests
        <5> QED
          BY <2>1, <4>2, <5>1, <5>2
      <4> QED
        BY <4>1, <4>2
    <3>2. UNCHANGED <<disk, hash, name, file, uploadVars, sent, found, apart, shared, faults>>
      BY <1>10 DEF StatFile
    <3> QED
      BY <1>0, <3>1, <3>2 DEF TypeOK, Listing, ContentFits
  <2>3. UploadProgress' /\ OtherProgress'
    <3>1. UploadProgress'
      BY <1>0, <1>10 DEF StatFile, TypeOK, UploadProgress
    <3>2. OtherProgress'
      BY <1>0, <1>10 DEF StatFile, TypeOK, OtherProgress, OtherSteps
    <3> QED
      BY <3>1, <3>2
  <2> QED
    BY <2>2, <2>3
<1>11. ASSUME NEW d \in Others, OpenFile(d)
       PROVE  TypeInv'
  <2>1. TypeOK' /\ ContentFits'
    BY <1>0, <1>11 DEF OpenFile, TypeOK, Listing, ContentFits
  <2>2. UploadProgress' /\ OtherProgress'
    <3>1. UploadProgress'
      BY <1>0, <1>11 DEF OpenFile, TypeOK, UploadProgress
    <3>2. OtherProgress'
      BY <1>0, <1>11 DEF OpenFile, TypeOK, OtherProgress, OtherSteps
    <3> QED
      BY <3>1, <3>2
  <2> QED
    BY <2>1, <2>2
<1>12. ASSUME NEW d \in Others, CopyChunk(d)
       PROVE  TypeInv'
  <2>1. /\ file[d] \in Uploads /\ sent[d] \in Seq(Chunk \cup {Hole})
        /\ content[file[d]] \in Seq(Chunk \cup {Hole}) /\ pc[d] = "copy"
    BY <1>0, <1>12 DEF CopyChunk, TypeOK, OtherProgress
  <2> DEFINE next == Len(sent[d]) + 1
  <2>2. next \in Nat \ {0} /\ Len(content[file[d]]) \in Nat
    BY <2>1
  <2>3. \/ /\ next <= Len(content[file[d]])
           /\ sent' = [sent EXCEPT ![d] = Append(@, content[file[d]][next])] /\ pc' = pc
        \/ sent' = sent /\ pc' = [pc EXCEPT ![d] = "done"]
        \/ sent' = sent /\ pc' = [pc EXCEPT ![d] = "failed"]
    BY <1>12 DEF CopyChunk
  <2>4. next <= Len(content[file[d]]) =>
          Append(sent[d], content[file[d]][next]) \in Seq(Chunk \cup {Hole})
    BY <2>1, <2>2
  <2> HIDE DEF next
  <2>5. sent' \in [Others -> Seq(Chunk \cup {Hole})]
    BY <1>0, <2>3, <2>4 DEF TypeOK
  <2>6. UNCHANGED <<disk, hash, name, file, uploadVars, size, found, apart, shared, faults>>
    BY <1>12 DEF CopyChunk
  <2>7. TypeOK' /\ ContentFits'
    BY <1>0, <2>3, <2>5, <2>6 DEF TypeOK, Listing, ContentFits
  <2>8. UploadProgress' /\ OtherProgress'
    <3>1. UploadProgress'
      BY <1>0, <2>1, <2>3, <2>6 DEF TypeOK, UploadProgress
    <3>2. OtherProgress'
      BY <1>0, <2>1, <2>3, <2>6 DEF TypeOK, OtherProgress, OtherSteps
    <3> QED
      BY <3>1, <3>2
  <2> QED
    BY <2>7, <2>8
<1>13. ASSUME NEW x \in Others, Delete(x) \/ RemoveDirectory(x)
       PROVE  TypeInv'
  <2>1. TypeOK' /\ ContentFits'
    <3>1. CASE Delete(x)
      BY <1>0, <3>1 DEF Delete, Arrives, TypeOK, Listing, ContentFits
    <3>2. CASE RemoveDirectory(x)
      BY <1>0, <3>2 DEF RemoveDirectory, Arrives, TypeOK, Listing, ContentFits
    <3> QED
      BY <1>13, <3>1, <3>2
  <2>2. UploadProgress' /\ OtherProgress'
    <3>1. UploadProgress'
      BY <1>0, <1>13 DEF Delete, RemoveDirectory, Arrives, TypeOK, UploadProgress
    <3>2. OtherProgress'
      BY <1>0, <1>13, ZenonT(40)
      DEF Delete, RemoveDirectory, Arrives, TypeOK, OtherProgress, OtherSteps
    <3> QED
      BY <3>1, <3>2
  <2> QED
    BY <2>1, <2>2
<1>14. ASSUME NEW x \in Others, RemoveFile(x)
       PROVE  TypeInv'
  <2>1. TypeOK' /\ ContentFits'
    BY <1>0, <1>14 DEF RemoveFile, TypeOK, Listing, ContentFits
  <2>2. UploadProgress' /\ OtherProgress'
    <3>1. UploadProgress'
      BY <1>0, <1>14 DEF RemoveFile, TypeOK, UploadProgress
    <3>2. OtherProgress'
      BY <1>0, <1>14 DEF RemoveFile, TypeOK, OtherProgress, OtherSteps
    <3> QED
      BY <3>1, <3>2
  <2> QED
    BY <2>1, <2>2
<1>15. ASSUME NEW x \in Others, RemoveCover(x) \/ DeleteFails(x)
       PROVE  TypeInv'
  <2>1. TypeOK' /\ ContentFits'
    <3>1. CASE RemoveCover(x)
      BY <1>0, <3>1 DEF RemoveCover, Fault, TypeOK, Listing, ContentFits
    <3>2. CASE DeleteFails(x)
      BY <1>0, <3>2 DEF DeleteFails, Fault, TypeOK, Listing, ContentFits
    <3> QED
      BY <1>15, <3>1, <3>2
  <2>2. UploadProgress' /\ OtherProgress'
    <3>1. UploadProgress'
      BY <1>0, <1>15 DEF RemoveCover, DeleteFails, TypeOK, UploadProgress
    <3>2. OtherProgress'
      BY <1>0, <1>15, ZenonT(40)
      DEF RemoveCover, DeleteFails, TypeOK, OtherProgress, OtherSteps
    <3> QED
      BY <3>1, <3>2
  <2> QED
    BY <2>1, <2>2
<1>16. ASSUME Crash
       PROVE  TypeInv'
  <2>1. TypeOK' /\ ContentFits'
    BY <1>0, <1>16 DEF Crash, Fault, InFlight, TypeOK, Listing, ContentFits
  <2>2. UploadProgress' /\ OtherProgress'
    <3>1. UploadProgress'
      BY <1>0, <1>16 DEF Crash, InFlight, TypeOK, UploadProgress, UploadSteps
    <3>2. OtherProgress'
      BY <1>0, <1>16 DEF Crash, InFlight, TypeOK, OtherProgress, OtherSteps
    <3> QED
      BY <3>1, <3>2
  <2> QED
    BY <2>1, <2>2
<1>17. ASSUME UNCHANGED vars
       PROVE  TypeInv'
  BY <1>0, <1>17
  DEF vars, TypeOK, Listing, ContentFits, UploadProgress, OtherProgress, UploadSteps, OtherSteps
<1> QED
  BY <1>1, <1>2, <1>3, <1>4, <1>5, <1>6, <1>7, <1>8, <1>9, <1>10, <1>11, <1>12, <1>13, <1>14,
     <1>15, <1>16, <1>17, Zenon
  DEF Next, UploadStep, DownloadStep, DeleteStep

-----------------------------------------------------------------------------
(* What a step does. *)

\* The step of an upload arrives, or finds it in flight; it is the only request it
\* changes.
LEMMA UploadChanges ==
    ASSUME TypeInv, NEW u \in Uploads, (\E f \in Names : Upload(u, f)) \/ UploadStep(u)
    PROVE  /\ Arrives(u) \/ (InFlight(u) /\ apart' = apart)
           /\ \A o \in Requests : o # u => /\ pc'[o] = pc[o] /\ file'[o] = file[o]
                                           /\ name'[o] = name[o]
           /\ \A o \in Uploads : o # u => offset'[o] = offset[o]
           /\ InFlight(u) => name' = name
           /\ pc[u] \in Ended => pc'[u] = pc[u]
           /\ UNCHANGED <<length, size, sent, found>>
<1> USE DEF TypeInv, TypeOK, Requests, InFlight, Ended, Goto, disk, uploadVars, downloadVars
<1>1. ASSUME \E f \in Names : Upload(u, f)
      PROVE  /\ Arrives(u)
             /\ \A o \in Requests : o # u => /\ pc'[o] = pc[o] /\ file'[o] = file[o]
                                             /\ name'[o] = name[o]
             /\ offset' = offset
             /\ UNCHANGED <<length, size, sent, found>>
  BY <1>1 DEF Upload
<1>2. ASSUME UploadCover(u)
      PROVE  /\ Arrives(u)
             /\ \A o \in Requests : o # u => /\ pc'[o] = pc[o] /\ file'[o] = file[o]
                                             /\ name'[o] = name[o]
             /\ offset' = offset
             /\ UNCHANGED <<length, size, sent, found>>
  BY <1>2 DEF UploadCover
<1>3. ASSUME CreateFile(u)
      PROVE  /\ InFlight(u) /\ apart' = apart
             /\ \A o \in Requests : o # u => pc'[o] = pc[o] /\ file'[o] = file[o]
             /\ UNCHANGED <<name, offset, length, size, sent, found>>
  BY <1>3 DEF CreateFile
<1>4. ASSUME WriteChunk(u)
      PROVE  /\ InFlight(u) /\ apart' = apart
             /\ \A o \in Requests : o # u => pc'[o] = pc[o]
             /\ \A o \in Uploads : o # u => offset'[o] = offset[o]
             /\ UNCHANGED <<name, file, length, size, sent, found>>
  BY <1>4 DEF WriteChunk
<1>5. ASSUME \/ SaveAudioFails(u) \/ SaveCover(u) \/ SaveHash(u) \/ ScanFails(u)
             \/ PutCover(u) \/ PutCoverFails(u)
      PROVE  /\ InFlight(u) /\ apart' = apart
             /\ \A o \in Requests : o # u => pc'[o] = pc[o]
             /\ UNCHANGED <<name, file, offset, length, size, sent, found>>
  BY <1>5 DEF SaveAudioFails, SaveCover, SaveHash, ScanFails, PutCover, PutCoverFails
<1>6. Arrives(u) => pc[u] = "idle"
  BY DEF Arrives
<1> HIDE DEF TypeInv, TypeOK, Requests, Goto, disk, uploadVars, downloadVars
<1> QED
  BY <1>1, <1>2, <1>3, <1>4, <1>5, <1>6 DEF UploadStep

\* The step of another request does the same; it changes no file, and takes names
\* away only.
LEMMA OtherChanges ==
    ASSUME TypeInv, NEW d \in Others, DownloadStep(d) \/ DeleteStep(d)
    PROVE  /\ Arrives(d) \/ (InFlight(d) /\ apart' = apart)
           /\ \A o \in Requests : o # d => /\ pc'[o] = pc[o] /\ file'[o] = file[o]
                                           /\ name'[o] = name[o]
           /\ \A o \in Others : o # d => size'[o] = size[o] /\ sent'[o] = sent[o]
           /\ \A f \in Names : entry'[f] = entry[f] \/ entry'[f] = None
           /\ pc[d] \in Ended => pc'[d] = pc[d]
           /\ UNCHANGED <<content, hash, offset, length>>
<1> USE DEF TypeInv, TypeOK, Requests, InFlight, Ended, Goto, disk, uploadVars, downloadVars
<1>1. ASSUME Download(d) \/ Delete(d)
      PROVE  /\ Arrives(d)
             /\ \A o \in Requests : o # d => pc'[o] = pc[o] /\ name'[o] = name[o]
             /\ UNCHANGED <<entry, content, hash, file, offset, length, size, sent>>
  BY <1>1 DEF Download, Delete
<1>2. ASSUME StatFile(d) \/ OpenFile(d) \/ CopyChunk(d)
      PROVE  /\ InFlight(d) /\ apart' = apart
             /\ \A o \in Requests : o # d => pc'[o] = pc[o] /\ file'[o] = file[o]
             /\ \A o \in Others : o # d => size'[o] = size[o] /\ sent'[o] = sent[o]
             /\ UNCHANGED <<entry, content, hash, name, offset, length>>
  <2>1. CASE StatFile(d)
    BY <2>1 DEF StatFile
  <2>2. CASE OpenFile(d)
    BY <2>2 DEF OpenFile
  <2>3. CASE CopyChunk(d)
    BY <2>3 DEF CopyChunk
  <2> QED
    BY <1>2, <2>1, <2>2, <2>3
<1>3. ASSUME RemoveFile(d)
      PROVE  /\ InFlight(d) /\ apart' = apart
             /\ \A o \in Requests : o # d => pc'[o] = pc[o]
             /\ \A f \in Names : entry'[f] = entry[f] \/ entry'[f] = None
             /\ UNCHANGED <<content, hash, name, file, offset, length, size, sent>>
  BY <1>3 DEF RemoveFile
<1>4. ASSUME RemoveDirectory(d) \/ RemoveCover(d) \/ DeleteFails(d)
      PROVE  /\ InFlight(d) /\ apart' = apart
             /\ \A o \in Requests : o # d => pc'[o] = pc[o]
             /\ UNCHANGED <<entry, content, hash, name, file, offset, length, size, sent>>
  BY <1>4 DEF RemoveDirectory, RemoveCover, DeleteFails
<1>5. Arrives(d) => pc[d] = "idle"
  BY DEF Arrives
<1> HIDE DEF TypeInv, TypeOK, Requests, Goto, disk, uploadVars, downloadVars
<1> QED
  BY <1>1, <1>2, <1>3, <1>4, <1>5 DEF DownloadStep, DeleteStep

\* Every step is one of a request, or the process dies, or nothing happens.
LEMMA Steps ==
    ASSUME [Next]_vars
    PROVE  \/ \E u \in Uploads : (\E f \in Names : Upload(u, f)) \/ UploadStep(u)
           \/ \E d \in Others : DownloadStep(d) \/ DeleteStep(d)
           \/ Crash
           \/ UNCHANGED vars
BY DEF Next

\* Every variable has its type, and no file is in a directory that is not there.
THEOREM TypeCorrect == Spec => []TypeOK
<1>1. TypeInv => TypeOK
  BY DEF TypeInv
<1> QED
  BY <1>1, TypeInvInit, TypeInvNext, PTL DEF Spec

-----------------------------------------------------------------------------
(* Uploads that overlap nothing. *)

\* An upload in flight is the only request in flight.
Solo == apart => \A u \in Uploads, r \in Requests : InFlight(u) /\ InFlight(r) => u = r

\* A step of a request leaves the others in flight or not, and arrives alone where
\* uploads overlap nothing.
LEMMA ArrivalSteps ==
    ASSUME TypeInv, [Next]_vars
    PROVE  \/ \E r \in Requests :
                /\ Arrives(r) \/ (InFlight(r) /\ apart' = apart)
                /\ \A o \in Requests : o # r => pc'[o] = pc[o]
           \/ apart' = apart /\ \A o \in Requests : pc'[o] = pc[o] \/ pc'[o] \in Ended
<1>1. ASSUME NEW u \in Uploads, (\E f \in Names : Upload(u, f)) \/ UploadStep(u)
      PROVE  /\ Arrives(u) \/ (InFlight(u) /\ apart' = apart)
             /\ \A o \in Requests : o # u => pc'[o] = pc[o]
  BY <1>1, UploadChanges
<1>2. ASSUME NEW d \in Others, DownloadStep(d) \/ DeleteStep(d)
      PROVE  /\ Arrives(d) \/ (InFlight(d) /\ apart' = apart)
             /\ \A o \in Requests : o # d => pc'[o] = pc[o]
  BY <1>2, OtherChanges
<1>3. CASE Crash
  BY <1>3 DEF Crash, Ended
<1>4. CASE UNCHANGED vars
  BY <1>4 DEF vars
<1> QED
  BY <1>1, <1>2, <1>3, <1>4, Steps DEF Requests

\* Every step keeps an upload that overlaps nothing alone.
LEMMA SoloNext ==
    ASSUME TypeInv, Solo, [Next]_vars
    PROVE  Solo' /\ (apart' => apart)
<1>0. pc \in [Requests -> Places]
  BY DEF TypeInv, TypeOK, Places
<1>1. ASSUME NEW r \in Requests, Arrives(r), \A o \in Requests : o # r => pc'[o] = pc[o]
      PROVE  Solo' /\ (apart' => apart)
  <2>1. apart' => apart
    BY <1>1 DEF Arrives
  <2> SUFFICES ASSUME apart', NEW u \in Uploads, NEW o \in Requests,
                      InFlight(u)', InFlight(o)'
               PROVE  u = o
    BY <2>1 DEF Solo
  <2>2. u \in Requests
    BY DEF Requests
  <2>3. CASE u # r /\ o # r
    BY <1>1, <2>1, <2>2, <2>3 DEF Solo, InFlight
  <2>4. CASE u = r /\ o # r
    <3>1. ~ InFlight(o)
      BY <1>1, <2>4 DEF Arrives
    <3> QED
      BY <1>1, <2>4, <3>1 DEF InFlight
  <2>5. CASE u # r /\ o = r
    <3>1. ~ InFlight(u)
      BY <1>1, <2>2, <2>5 DEF Arrives
    <3> QED
      BY <1>1, <2>2, <2>5, <3>1 DEF InFlight
  <2> QED
    BY <2>3, <2>4, <2>5
<1>2. ASSUME NEW r \in Requests, InFlight(r), apart' = apart,
             \A o \in Requests : o # r => pc'[o] = pc[o]
      PROVE  Solo' /\ (apart' => apart)
  BY <1>2 DEF Solo, InFlight, Requests
<1>3. ASSUME apart' = apart, \A o \in Requests : pc'[o] = pc[o] \/ pc'[o] \in Ended
      PROVE  Solo' /\ (apart' => apart)
  BY <1>3 DEF Solo, InFlight, Requests
<1> QED
  BY <1>1, <1>2, <1>3, ArrivalSteps

\* While such an upload is in flight, whatever happens is a step of it, or a crash.
LEMMA AloneStep ==
    ASSUME TypeInv, Solo, [Next]_vars, apart', NEW u \in Uploads, InFlight(u)
    PROVE  UploadStep(u) \/ Crash \/ UNCHANGED vars
<1>0. apart
  BY SoloNext
<1>1. \A r \in Requests : Arrives(r) => FALSE
  <2> SUFFICES ASSUME NEW r \in Requests, Arrives(r)
               PROVE  FALSE
    OBVIOUS
  <2>1. \A o \in IF r \in Uploads THEN Requests ELSE Uploads : ~ InFlight(o)
    BY DEF Arrives
  <2> QED
    BY <2>1 DEF Requests
<1>2. \A r \in Requests : InFlight(r) => r = u
  BY <1>0 DEF Solo
<1>3. ASSUME NEW v \in Uploads, (\E f \in Names : Upload(v, f)) \/ UploadStep(v)
      PROVE  UploadStep(u)
  <2>1. InFlight(v)
    BY <1>1, <1>3, UploadChanges DEF Requests
  <2>2. v = u
    BY <1>2, <2>1 DEF Requests
  <2> QED
    BY <1>1, <1>3, <2>2 DEF Upload, Requests
<1>4. ASSUME NEW d \in Others, DownloadStep(d) \/ DeleteStep(d)
      PROVE  FALSE
  <2>1. InFlight(d)
    BY <1>1, <1>4, OtherChanges DEF Requests
  <2> QED
    BY <1>2, <2>1, RequestsAssumption DEF Requests
<1> QED
  BY <1>3, <1>4, Steps

-----------------------------------------------------------------------------
(* Deletes. *)

\* A delete that has removed the directory finds it gone, as long as no upload can
\* have made it again.
DirectoryGone == apart => \A x \in Others : pc[x] = "uncover" => ~ directory

\* No step makes the directory while a delete is in flight.
LEMMA DirectoryGoneNext ==
    ASSUME TypeInv, Solo, DirectoryGone, [Next]_vars
    PROVE  DirectoryGone'
<1> SUFFICES ASSUME apart', NEW x \in Others, pc'[x] = "uncover"
             PROVE  ~ directory'
  BY DEF DirectoryGone
<1>0. /\ apart /\ (pc[x] = "uncover" => ~ directory)
      /\ pc \in [Requests -> Places]
      /\ ~ directory => Listing = {}
      /\ x \in Requests
  BY SoloNext DEF DirectoryGone, TypeInv, TypeOK, Places, Requests
<1>1. ASSUME NEW u \in Uploads, (\E f \in Names : Upload(u, f)) \/ UploadStep(u)
      PROVE  ~ directory'
  <2>1. x # u /\ u \in Requests
    BY RequestsAssumption DEF Requests
  <2>2. pc[x] = "uncover" /\ InFlight(x)
    BY <1>0, <1>1, <2>1, UploadChanges DEF InFlight, Ended
  <2>3. ~ Arrives(u)
    BY <1>0, <2>2 DEF Arrives
  <2>4. InFlight(u)
    BY <1>1, <2>3, UploadChanges
  <2> QED
    BY <1>0, <2>1, <2>2, <2>4 DEF Solo
<1>2. ASSUME NEW d \in Others, RemoveDirectory(d)
      PROVE  ~ directory'
  <2>1. pc[d] = "rmdir" /\ d \in Requests
    BY <1>2 DEF RemoveDirectory, Requests
  <2>2. CASE d = x
    <3>1. Listing = {}
      BY <1>0, <1>2, <2>2 DEF RemoveDirectory, Goto
    <3> QED
      BY <1>2, <3>1 DEF RemoveDirectory
  <2>3. CASE d # x
    <3>1. pc[x] = "uncover"
      BY <1>2, <2>3 DEF RemoveDirectory, Goto
    <3> QED
      BY <1>0, <1>2, <3>1 DEF RemoveDirectory
  <2> QED
    BY <2>2, <2>3
<1>3. ASSUME NEW d \in Others, DownloadStep(d) \/ DeleteStep(d), ~ RemoveDirectory(d)
      PROVE  ~ directory'
  <2>1. directory' = directory
    BY <1>3
    DEF DownloadStep, DeleteStep, Download, StatFile, OpenFile, CopyChunk, Delete, RemoveFile,
        RemoveCover, DeleteFails, disk
  <2>2. d = x => pc'[x] # "uncover" \/ pc'[x] = pc[x]
    BY <1>0, <1>3
    DEF DownloadStep, DeleteStep, Download, StatFile, OpenFile, CopyChunk, Delete, RemoveFile,
        RemoveCover, DeleteFails, Goto
  <2>3. d # x => pc'[x] = pc[x]
    BY <1>0, <1>3, OtherChanges
  <2> QED
    BY <1>0, <2>1, <2>2, <2>3
<1>4. CASE Crash
  BY <1>0, <1>4 DEF Crash, disk
<1>5. CASE UNCHANGED vars
  BY <1>0, <1>5 DEF vars, disk
<1> QED
  BY <1>1, <1>2, <1>3, <1>4, <1>5, Steps

\* A delete that succeeds leaves nothing on the disk, as long as uploads overlap
\* nothing.
THEOREM DeletedSongsAreGone == Spec => DeleteLeavesNothing
<1> DEFINE Inv == TypeInv /\ Solo /\ DirectoryGone
           Gone == apart => \A x \in Others : pc[x] = "uncover" /\ pc'[x] = "done" =>
                      ~ directory' /\ ~ cover' /\ Listing' = {}
<1>1. Init => Inv
  <2>1. Init => Solo /\ DirectoryGone
    BY DEF Init, Solo, DirectoryGone, InFlight, Requests
  <2> QED
    BY <2>1, TypeInvInit
<1>2. Inv /\ [Next]_vars => Inv'
  BY TypeInvNext, SoloNext, DirectoryGoneNext
<1>3. Inv /\ [Next]_vars => [Gone]_vars
  <2> SUFFICES ASSUME Inv, [Next]_vars, apart,
                      NEW x \in Others, pc[x] = "uncover", pc'[x] = "done"
               PROVE  ~ directory' /\ ~ cover' /\ Listing' = {}
    BY DEF Gone
  <2>0. /\ ~ directory /\ Listing = {} /\ x \in Requests
        /\ pc \in [Requests -> Places]
    BY DEF DirectoryGone, TypeInv, TypeOK, Places, Requests
  <2>1. RemoveCover(x)
    <3>1. ASSUME NEW u \in Uploads, (\E f \in Names : Upload(u, f)) \/ UploadStep(u)
          PROVE  FALSE
      <4>1. x # u
        BY RequestsAssumption
      <4> QED
        BY <2>0, <3>1, <4>1, UploadChanges
    <3>2. ASSUME NEW d \in Others, DownloadStep(d) \/ DeleteStep(d)
          PROVE  d = x
      BY <2>0, <3>2, OtherChanges
    <3>3. ~ Crash
      BY <2>0 DEF Crash
    <3>4. ~ UNCHANGED vars
      BY DEF vars
    <3>5. DownloadStep(x) \/ DeleteStep(x)
      BY <3>1, <3>2, <3>3, <3>4, Steps
    <3> QED
      BY <2>0, <3>5
      DEF DownloadStep, DeleteStep, Download, StatFile, OpenFile, CopyChunk, Delete, RemoveFile,
          RemoveDirectory, DeleteFails, Goto, Arrives
  <2> QED
    BY <2>0, <2>1 DEF RemoveCover, Listing
<1> HIDE DEF Inv
<1> QED
  BY <1>1, <1>2, <1>3, PTL DEF Spec, DeleteLeavesNothing

-----------------------------------------------------------------------------
(* Files. *)

\* What an upload has written so far.
Written(u) == [n \in 1 .. offset[u] |-> [by |-> u, n |-> n]]

\* The file of the upload's name is there, and empty.
LEMMA FileCreated ==
    ASSUME TypeInv, NEW u \in Uploads, CreateFile(u), directory
    PROVE  /\ pc[u] = "create" /\ pc'[u] = "write" /\ name[u] \in Names
           /\ file'[u] \in Uploads
           /\ entry' = [entry EXCEPT ![name[u]] = file'[u]]
           /\ content' = [content EXCEPT ![file'[u]] = <<>>]
           /\ UNCHANGED <<name, offset, length, hash>>
<1> DEFINE made == IF entry[name[u]] = None THEN u ELSE entry[name[u]]
<1>1. /\ pc[u] = "create" /\ name[u] \in Names /\ made \in Uploads
      /\ u \in Requests
      /\ file \in [Requests -> Uploads \cup {None}]
      /\ pc \in [Requests -> Places]
  BY DEF CreateFile, TypeInv, TypeOK, Places, Requests
<1>2. /\ entry' = [entry EXCEPT ![name[u]] = made]
      /\ content' = [content EXCEPT ![made] = <<>>]
      /\ file' = [file EXCEPT ![u] = made]
      /\ pc' = [pc EXCEPT ![u] = "write"]
      /\ UNCHANGED <<name, offset, length, hash>>
  BY DEF CreateFile, Goto, uploadVars
<1> HIDE DEF made
<1> QED
  BY <1>1, <1>2

\* The steps of an upload that touch the files are the making of its own, and the
\* writing of a chunk.
LEMMA FileSteps ==
    ASSUME TypeInv, NEW u \in Uploads, (\E f \in Names : Upload(u, f)) \/ UploadStep(u)
    PROVE  \/ CreateFile(u) /\ directory
           \/ WriteChunk(u)
           \/ /\ UNCHANGED <<entry, content, file>>
              /\ pc[u] # "write" \/ pc'[u] = "failed"
              /\ pc'[u] # "write"
              /\ pc'[u] \in {"cover", "scan"} => pc[u] = "cover" /\ offset' = offset
<1>0. /\ u \in Requests
      /\ pc \in [Requests -> Places]
  BY DEF TypeInv, TypeOK, Places, Requests
<1>1. ASSUME NEW f \in Names, Upload(u, f)
      PROVE  /\ UNCHANGED <<entry, content, file>>
             /\ pc[u] = "idle" /\ pc'[u] \notin {"write", "cover", "scan"}
  BY <1>0, <1>1 DEF Upload, Arrives, Goto
<1>2. CASE CreateFile(u) /\ ~ directory
  BY <1>0, <1>2 DEF CreateFile, Goto
<1>3. CASE \/ SaveAudioFails(u) \/ SaveCover(u) \/ SaveHash(u) \/ ScanFails(u)
           \/ UploadCover(u) \/ PutCover(u) \/ PutCoverFails(u)
  BY <1>0, <1>3
  DEF SaveAudioFails, SaveCover, SaveHash, ScanFails, UploadCover, Arrives, PutCover,
      PutCoverFails, Goto, disk, uploadVars
<1> QED
  BY <1>1, <1>2, <1>3 DEF UploadStep

\* A chunk goes behind those that the upload has written.
LEMMA OwnChunk ==
    ASSUME TypeInv, NEW u \in Uploads, WriteChunk(u), content[file[u]] = Written(u)
    PROVE  content'[file[u]] = Written(u)'
<1>0. /\ offset \in [Uploads -> 0 .. MaxChunks]
      /\ content \in [Uploads -> Seq(Chunk \cup {Hole})]
      /\ length \in [Uploads -> 1 .. MaxChunks] /\ MaxChunks \in Nat
      /\ offset' = [offset EXCEPT ![u] = @ + 1]
  BY MaxChunksAssumption DEF WriteChunk, TypeInv, TypeOK
<1> DEFINE c == [by |-> u, n |-> offset[u] + 1]
<1>1. /\ file[u] \in Uploads /\ offset[u] < length[u]
      /\ content'[file[u]] = WriteAt(content[file[u]], offset[u], c)
  BY ChunkWritten
<1>2. c \in Chunk
  BY <1>0, <1>1 DEF Chunk
<1>3. content[file[u]] \in Seq(Chunk \cup {Hole}) /\ offset[u] \in Nat
  BY <1>0, <1>1
<1>4. Len(content[file[u]]) = offset[u]
  BY <1>3 DEF Written
<1>5. content'[file[u]] = Append(content[file[u]], c)
  <2>1. c \in Chunk \cup {Hole}
    BY <1>2
  <2>2. WriteAt(content[file[u]], Len(content[file[u]]), c) = Append(content[file[u]], c)
    BY <1>3, <2>1, WriteAtEnd
  <2> HIDE DEF c
  <2> QED
    BY <1>1, <1>4, <2>2
<1>6. Append(Written(u), c) = [n \in 1 .. offset[u] + 1 |-> [by |-> u, n |-> n]]
  BY <1>3 DEF Written
<1>7. Written(u)' = [n \in 1 .. offset[u] + 1 |-> [by |-> u, n |-> n]]
  BY <1>0 DEF Written
<1> QED
  BY <1>5, <1>6, <1>7

\* An upload that is on its way to its scan has the bytes it has written in its file
\* and no others, and nobody else writes there, until another upload opens the file.
Unmixed ==
    \A u \in Uploads : pc[u] \in {"write", "cover", "scan"} /\ u \notin shared =>
        /\ content[file[u]] = Written(u)
        /\ \A v \in Uploads : v # u /\ pc[v] = "write" => file[v] # file[u]

\* Only another upload that opens the file mixes with one.
LEMMA UnmixedNext ==
    ASSUME TypeInv, Unmixed, [Next]_vars
    PROVE  Unmixed'
<1> SUFFICES ASSUME NEW u \in Uploads, pc'[u] \in {"write", "cover", "scan"}, u \notin shared'
             PROVE  /\ content'[file'[u]] = Written(u)'
                    /\ \A v \in Uploads : v # u /\ pc'[v] = "write" => file'[v] # file'[u]
  BY DEF Unmixed
<1> DEFINE Goal == /\ content'[file'[u]] = Written(u)'
                   /\ \A v \in Uploads : v # u /\ pc'[v] = "write" => file'[v] # file'[u]
<1>0. /\ pc \in [Requests -> Places] /\ Uploads \subseteq Requests
      /\ content \in [Uploads -> Seq(Chunk \cup {Hole})]
      /\ file \in [Requests -> Uploads \cup {None}]
      /\ \A v \in Uploads : v \notin Others
  BY RequestsAssumption DEF TypeInv, TypeOK, Places, Requests
<1>a. ASSUME pc[u] \in {"write", "cover", "scan"}, u \notin shared, file'[u] = file[u],
             offset'[u] = offset[u], content'[file[u]] = content[file[u]],
             \A v \in Uploads : v # u /\ pc'[v] = "write" =>
                pc[v] = "write" /\ file'[v] = file[v]
      PROVE  Goal
  BY <1>a DEF Unmixed, Written
<1> HIDE DEF Goal
<1>1. ASSUME NEW v \in Uploads, v # u, CreateFile(v), directory
      PROVE  Goal
  <2>1. /\ file'[v] \in Uploads /\ content' = [content EXCEPT ![file'[v]] = <<>>]
        /\ UNCHANGED offset
    BY <1>1, FileCreated
  <2>2. \A o \in Requests : o # v => pc'[o] = pc[o] /\ file'[o] = file[o]
    BY <1>1, UploadChanges DEF UploadStep
  <2>3. pc'[u] = pc[u] /\ file'[u] = file[u] /\ InFlight(u)
    BY <1>0, <1>1, <2>2 DEF InFlight, Ended
  <2>4. u \notin shared /\ file[u] # file'[v]
    <3> DEFINE made == IF entry[name[v]] = None THEN v ELSE entry[name[v]]
               same == {w \in Uploads : file[w] = made /\ InFlight(w)}
    <3>1. file'[v] = made
      BY <1>0, <1>1 DEF CreateFile
    <3>2. shared \cup same \subseteq shared'
      BY <1>1 DEF CreateFile, Share
    <3> HIDE DEF made
    <3> QED
      BY <2>3, <3>1, <3>2
  <2>5. content'[file[u]] = content[file[u]]
    BY <1>0, <2>1, <2>4
  <2>6. ASSUME NEW w \in Uploads, w # u, pc'[w] = "write"
        PROVE  file'[w] # file'[u]
    <3>1. CASE w = v
      BY <2>3, <2>4, <3>1
    <3>2. CASE w # v
      BY <1>0, <2>2, <2>3, <2>4, <2>6, <3>2 DEF Unmixed
    <3> QED
      BY <3>1, <3>2
  <2> QED
    BY <2>1, <2>3, <2>4, <2>5, <2>6 DEF Unmixed, Written, Goal
<1>2. ASSUME CreateFile(u), directory
      PROVE  Goal
  <2>1. /\ file'[u] \in Uploads /\ content' = [content EXCEPT ![file'[u]] = <<>>]
        /\ UNCHANGED offset /\ pc[u] = "create"
    BY <1>2, FileCreated
  <2>2. \A o \in Requests : o # u => pc'[o] = pc[o] /\ file'[o] = file[o]
    BY <1>2, UploadChanges DEF UploadStep
  <2>3. Written(u)' = <<>>
    <3>1. offset[u] = 0
      BY <2>1 DEF TypeInv, UploadProgress
    <3> QED
      BY <2>1, <3>1 DEF Written
  <2>4. content'[file'[u]] = <<>>
    BY <1>0, <2>1
  <2>5. \A w \in Uploads : InFlight(w) => file[w] # file'[u]
    <3> DEFINE made == IF entry[name[u]] = None THEN u ELSE entry[name[u]]
               same == {w \in Uploads : file[w] = made /\ InFlight(w)}
    <3>1. file'[u] = made
      BY <1>0, <1>2 DEF CreateFile
    <3>2. same = {}
      BY <1>2 DEF CreateFile, Share
    <3> HIDE DEF made
    <3> QED
      BY <3>1, <3>2
  <2>6. \A w \in Uploads : w # u /\ pc'[w] = "write" => file'[w] # file'[u]
    BY <1>0, <2>2, <2>5 DEF InFlight, Ended
  <2> QED
    BY <2>3, <2>4, <2>6 DEF Goal
<1>3. ASSUME NEW v \in Uploads, v # u, WriteChunk(v)
      PROVE  Goal
  <2>1. /\ pc[v] = "write" /\ UNCHANGED <<file, shared>>
        /\ content' = [content EXCEPT ![file[v]] =
                        WriteAt(@, offset[v], [by |-> v, n |-> offset[v] + 1])]
    BY <1>3 DEF WriteChunk
  <2>2. /\ \A o \in Requests : o # v => pc'[o] = pc[o]
        /\ offset'[u] = offset[u]
    BY <1>3, UploadChanges DEF UploadStep
  <2>3. u \notin shared /\ pc[u] \in {"write", "cover", "scan"}
    BY <1>0, <1>3, <2>1, <2>2
  <2>4. file[v] # file[u]
    BY <1>3, <2>1, <2>3 DEF Unmixed
  <2>5. content'[file[u]] = content[file[u]]
    BY <2>1, <2>4
  <2> QED
    BY <1>0, <1>a, <2>1, <2>2, <2>3, <2>5
<1>4. ASSUME WriteChunk(u)
      PROVE  Goal
  <2>1. pc[u] = "write" /\ UNCHANGED <<file, shared>>
    BY <1>4 DEF WriteChunk
  <2>2. \A o \in Requests : o # u => pc'[o] = pc[o]
    BY <1>4, UploadChanges DEF UploadStep
  <2>3. /\ content[file[u]] = Written(u)
        /\ \A v \in Uploads : v # u /\ pc[v] = "write" => file[v] # file[u]
    BY <2>1 DEF Unmixed
  <2>4. content'[file[u]] = Written(u)'
    BY <1>4, <2>3, OwnChunk
  <2> QED
    BY <1>0, <2>1, <2>2, <2>3, <2>4 DEF Goal
<1>5. ASSUME NEW v \in Uploads, (\E f \in Names : Upload(v, f)) \/ UploadStep(v),
             ~ (CreateFile(v) /\ directory), ~ WriteChunk(v)
      PROVE  Goal
  <2>1. /\ UNCHANGED <<entry, content, file>>
        /\ pc'[v] # "write"
        /\ pc'[v] \in {"cover", "scan"} => pc[v] = "cover" /\ offset' = offset
    BY <1>5, FileSteps
  <2>2. shared' = shared
    BY <1>5
    DEF Upload, UploadStep, CreateFile, SaveAudioFails, SaveCover, SaveHash, ScanFails,
        UploadCover, PutCover, PutCoverFails
  <2>3. /\ \A o \in Requests : o # v => pc'[o] = pc[o]
        /\ \A o \in Uploads : o # v => offset'[o] = offset[o]
    BY <1>5, UploadChanges
  <2>4. pc[u] \in {"write", "cover", "scan"} /\ offset'[u] = offset[u]
    <3>1. CASE u = v
      BY <2>1, <3>1
    <3>2. CASE u # v
      BY <1>0, <2>3, <3>2
    <3> QED
      BY <3>1, <3>2
  <2> QED
    BY <1>0, <1>a, <2>1, <2>2, <2>3, <2>4
<1>6. ASSUME NEW d \in Others, DownloadStep(d) \/ DeleteStep(d)
      PROVE  Goal
  <2>1. /\ \A o \in Requests : o # d => pc'[o] = pc[o] /\ file'[o] = file[o]
        /\ UNCHANGED <<content, offset>>
    BY <1>6, OtherChanges
  <2>2. shared' = shared
    BY <1>6
    DEF DownloadStep, DeleteStep, Download, StatFile, OpenFile, CopyChunk, Delete, RemoveFile,
        RemoveDirectory, RemoveCover, DeleteFails
  <2>3. \A v \in Uploads : pc'[v] = pc[v] /\ file'[v] = file[v]
    BY <1>0, <1>6, <2>1
  <2> QED
    BY <1>a, <2>1, <2>2, <2>3
<1>7. ASSUME Crash
      PROVE  Goal
  <2>1. /\ UNCHANGED <<content, file, offset, shared>>
        /\ \A r \in Requests : pc'[r] \in {pc[r], "failed"}
    BY <1>0, <1>7 DEF Crash, disk, uploadVars
  <2>2. \A v \in Uploads : pc'[v] = pc[v] \/ pc'[v] = "failed"
    BY <1>0, <2>1
  <2>3. pc[u] \in {"write", "cover", "scan"} /\ pc'[u] = pc[u] /\ u \notin shared
    BY <2>1, <2>2
  <2>4. /\ content[file[u]] = Written(u)
        /\ \A v \in Uploads : v # u /\ pc[v] = "write" => file[v] # file[u]
    BY <2>3 DEF Unmixed
  <2>5. Written(u)' = Written(u)
    BY <2>1 DEF Written
  <2> QED
    BY <2>1, <2>2, <2>3, <2>4, <2>5 DEF Goal
<1>8. ASSUME UNCHANGED vars
      PROVE  Goal
  <2>1. UNCHANGED <<pc, content, file, offset, shared>>
    BY <1>8 DEF vars, disk, uploadVars
  <2>2. /\ content[file[u]] = Written(u)
        /\ \A v \in Uploads : v # u /\ pc[v] = "write" => file[v] # file[u]
    BY <2>1 DEF Unmixed
  <2>3. Written(u)' = Written(u)
    BY <2>1 DEF Written
  <2> QED
    BY <2>1, <2>2, <2>3 DEF Goal
<1> QED
  BY <1>1, <1>2, <1>3, <1>4, <1>5, <1>6, <1>7, <1>8, Steps DEF Goal

\* When the record takes the hash of an upload, the file it wrote holds all its chunks
\* and no others, unless another upload opened that file meanwhile.
THEOREM ScannedUploadsAreSaved == Spec => ScannedIsSaved
<1> DEFINE Saved == hash' # hash /\ hash' \notin shared =>
                        file[hash'] # None /\ content[file[hash']] = Whole(hash')
<1>1. Init => Unmixed
  BY DEF Init, Unmixed, Requests
<1>2. TypeInv /\ Unmixed /\ [Next]_vars => Unmixed'
  BY UnmixedNext
<1>3. TypeInv /\ Unmixed /\ [Next]_vars => [Saved]_vars
  <2> SUFFICES ASSUME TypeInv, Unmixed, [Next]_vars, hash' # hash, hash' \notin shared
               PROVE  file[hash'] # None /\ content[file[hash']] = Whole(hash')
    OBVIOUS
  <2>1. ~ UNCHANGED vars /\ ~ Crash
    BY DEF vars, Crash
  <2>2. \A d \in Others : ~ (DownloadStep(d) \/ DeleteStep(d))
    BY OtherChanges
  <2>3. PICK u \in Uploads : (\E f \in Names : Upload(u, f)) \/ UploadStep(u)
    BY <2>1, <2>2, Steps
  <2>4. SaveHash(u)
    BY <2>3
    DEF Upload, UploadStep, CreateFile, WriteChunk, SaveAudioFails, SaveCover, ScanFails,
        UploadCover, PutCover, PutCoverFails, disk
  <2>5. hash' = u /\ pc[u] = "scan"
    BY <2>4 DEF SaveHash
  <2>6. offset[u] = length[u] /\ file[u] # None
    BY <2>5 DEF TypeInv, UploadProgress
  <2> QED
    BY <2>5, <2>6 DEF Unmixed, Written, Whole
<1> QED
  BY <1>1, <1>2, <1>3, TypeInvInit, TypeInvNext, PTL DEF Spec, ScannedIsSaved

\* An upload that overlaps nothing has its file under its name, with what it has
\* written and nothing else.
OwnFile ==
    apart => \A u \in Uploads : pc[u] \in {"write", "cover", "scan"} =>
                file[u] = entry[name[u]] /\ content[file[u]] = Written(u)

\* Nobody but the upload itself changes its file.
LEMMA OwnFileNext ==
    ASSUME TypeInv, Solo, OwnFile, [Next]_vars
    PROVE  OwnFile'
<1> SUFFICES ASSUME apart', NEW u \in Uploads, pc'[u] \in {"write", "cover", "scan"}
             PROVE  file'[u] = entry'[name'[u]] /\ content'[file'[u]] = Written(u)'
  BY DEF OwnFile
<1>0. /\ apart /\ u \in Requests
      /\ pc \in [Requests -> Places]
      /\ entry \in [Names -> Uploads \cup {None}] /\ name[u] \in Names
      /\ content \in [Uploads -> Seq(Chunk \cup {Hole})]
      /\ offset \in [Uploads -> 0 .. MaxChunks] /\ length \in [Uploads -> 1 .. MaxChunks]
      /\ MaxChunks \in Nat
  BY SoloNext, MaxChunksAssumption DEF TypeInv, TypeOK, Places, Requests
<1>1. pc[u] \in {"create", "write", "cover", "scan"}
  <2>1. ASSUME (\E f \in Names : Upload(u, f)) \/ UploadStep(u)
        PROVE  pc[u] \in {"create", "write", "cover", "scan"}
    BY <2>1, FileSteps, FileCreated, <1>0 DEF WriteChunk
  <2>2. ASSUME NEW v \in Uploads, v # u, (\E f \in Names : Upload(v, f)) \/ UploadStep(v)
        PROVE  pc'[u] = pc[u]
    BY <1>0, <2>2, UploadChanges
  <2>3. ASSUME NEW d \in Others, DownloadStep(d) \/ DeleteStep(d)
        PROVE  pc'[u] = pc[u]
    BY <1>0, <2>3, OtherChanges, RequestsAssumption
  <2>4. ASSUME Crash
        PROVE  pc'[u] = pc[u]
    BY <1>0, <2>4 DEF Crash
  <2>5. ASSUME UNCHANGED vars
        PROVE  pc'[u] = pc[u]
    BY <2>5 DEF vars
  <2> QED
    BY <2>1, <2>2, <2>3, <2>4, <2>5, Steps
<1>2. InFlight(u)
  BY <1>1 DEF InFlight, Ended
<1>3. UploadStep(u) \/ UNCHANGED vars
  <2>1. ~ Crash
    BY <1>0, <1>2 DEF Crash
  <2> QED
    BY <1>2, <2>1, AloneStep
<1>4. CASE UNCHANGED vars
  BY <1>0, <1>4 DEF vars, disk, uploadVars, OwnFile, Written
<1>5. CASE CreateFile(u) /\ directory
  <2>1. /\ pc[u] = "create" /\ file'[u] \in Uploads
        /\ entry' = [entry EXCEPT ![name[u]] = file'[u]]
        /\ content' = [content EXCEPT ![file'[u]] = <<>>]
        /\ UNCHANGED <<name, offset, length>>
    BY <1>5, FileCreated
  <2>2. offset'[u] = 0
    BY <2>1 DEF TypeInv, UploadProgress
  <2>3. Written(u)' = <<>>
    BY <2>2 DEF Written
  <2> QED
    BY <1>0, <2>1, <2>3
<1>6. CASE WriteChunk(u)
  <2>1. pc[u] = "write" /\ UNCHANGED <<entry, file, name>>
    BY <1>6 DEF WriteChunk
  <2>2. file[u] = entry[name[u]] /\ content[file[u]] = Written(u)
    BY <1>0, <2>1 DEF OwnFile
  <2> QED
    BY <1>6, <2>1, <2>2, OwnChunk
<1>7. CASE /\ UploadStep(u) /\ UNCHANGED <<entry, content, file>>
           /\ pc[u] = "cover" /\ offset' = offset
  <2>1. name' = name
    BY <1>2, <1>7, UploadChanges
  <2> QED
    BY <1>0, <1>7, <2>1 DEF OwnFile, Written
<1> QED
  BY <1>3, <1>4, <1>5, <1>6, <1>7, FileSteps

\* As long as uploads overlap nothing and none has failed, a file is the whole of an
\* upload, or is being written.
Sound == apart /\ \A u \in Uploads : pc[u] # "failed"

FilesWhole ==
    Sound => \A f \in Names : entry[f] # None =>
                \/ \E v \in Uploads : content[entry[f]] = Whole(v)
                \/ \E u \in Uploads : pc[u] = "write" /\ file[u] = entry[f]

\* An upload that overlaps nothing and does not fail leaves a file whole.
LEMMA FilesWholeNext ==
    ASSUME TypeInv, Solo, OwnFile, FilesWhole, [Next]_vars
    PROVE  FilesWhole' /\ (Sound' => Sound)
<1>0. /\ pc \in [Requests -> Places]
      /\ entry \in [Names -> Uploads \cup {None}] /\ name \in [Requests -> Names]
      /\ content \in [Uploads -> Seq(Chunk \cup {Hole})]
      /\ offset \in [Uploads -> 0 .. MaxChunks] /\ length \in [Uploads -> 1 .. MaxChunks]
      /\ MaxChunks \in Nat /\ Uploads \subseteq Requests
  BY MaxChunksAssumption DEF TypeInv, TypeOK, Places, Requests
<1>1. Sound' => Sound
  <2> SUFFICES ASSUME Sound', NEW u \in Uploads, pc[u] = "failed"
               PROVE  FALSE
    BY SoloNext DEF Sound
  <2>1. pc'[u] = "failed"
    <3>1. ASSUME NEW v \in Uploads, (\E f \in Names : Upload(v, f)) \/ UploadStep(v)
          PROVE  pc'[u] = pc[u]
      BY <1>0, <3>1, UploadChanges DEF Ended
    <3>2. ASSUME NEW d \in Others, DownloadStep(d) \/ DeleteStep(d)
          PROVE  pc'[u] = pc[u]
      BY <1>0, <3>2, OtherChanges, RequestsAssumption
    <3>3. CASE Crash
      BY <1>0, <3>3 DEF Crash
    <3>4. CASE UNCHANGED vars
      BY <3>4 DEF vars
    <3> QED
      BY <3>1, <3>2, <3>3, <3>4, Steps
  <2> QED
    BY <2>1 DEF Sound
<1> SUFFICES ASSUME Sound', NEW f \in Names, entry'[f] # None
             PROVE  \/ \E v \in Uploads : content'[entry'[f]] = Whole(v)'
                    \/ \E u \in Uploads : pc'[u] = "write" /\ file'[u] = entry'[f]
  BY <1>1 DEF FilesWhole
<1>2. /\ Sound /\ apart /\ apart'
      /\ \A u \in Uploads : pc'[u] # "failed"
      /\ entry[f] # None =>
            \/ \E v \in Uploads : content[entry[f]] = Whole(v)
            \/ \E u \in Uploads : pc[u] = "write" /\ file[u] = entry[f]
  BY <1>1 DEF Sound, FilesWhole
<1>3. \A v, w \in Uploads : pc[v] = "write" /\ InFlight(w) => v = w
  BY <1>0, <1>2 DEF Solo, InFlight, Ended
<1>4. ASSUME length' = length
      PROVE  \A v \in Uploads : Whole(v)' = Whole(v)
  BY <1>4 DEF Whole
<1>5. ASSUME NEW u \in Uploads, (\E g \in Names : Upload(u, g)) \/ UploadStep(u)
      PROVE  \/ \E v \in Uploads : content'[entry'[f]] = Whole(v)'
             \/ \E v \in Uploads : pc'[v] = "write" /\ file'[v] = entry'[f]
  <2>0. \A v \in Uploads : Whole(v)' = Whole(v)
    BY <1>4, <1>5, UploadChanges
  <2>1. CASE CreateFile(u) /\ directory
    <3>1. /\ pc[u] = "create" /\ pc'[u] = "write" /\ name[u] \in Names
          /\ file'[u] \in Uploads
          /\ entry' = [entry EXCEPT ![name[u]] = file'[u]]
          /\ content' = [content EXCEPT ![file'[u]] = <<>>]
      BY <2>1, FileCreated
    <3>2. CASE entry'[f] = file'[u]
      BY <3>1, <3>2
    <3>3. CASE entry'[f] # file'[u]
      <4>1. entry'[f] = entry[f] /\ content'[entry[f]] = content[entry[f]] /\ entry[f] # None
        BY <1>0, <3>1, <3>3
      <4>2. ~ \E v \in Uploads : pc[v] = "write"
        <5>1. InFlight(u)
          BY <3>1 DEF InFlight, Ended
        <5> QED
          BY <1>3, <3>1, <5>1
      <4> QED
        BY <1>2, <2>0, <4>1, <4>2
    <3> QED
      BY <3>2, <3>3
  <2>2. CASE WriteChunk(u)
    <3>1. /\ pc[u] = "write" /\ UNCHANGED <<entry, file, name, length>>
          /\ pc'[u] = IF offset[u] + 1 = length[u] THEN "cover" ELSE "write"
          /\ offset' = [offset EXCEPT ![u] = @ + 1]
      BY <1>0, <2>2 DEF WriteChunk, Goto
    <3>2. file[u] \in Uploads /\ \A x \in Uploads : x # file[u] => content'[x] = content[x]
      BY <2>2, ChunkWritten
    <3>3. CASE entry[f] = file[u] /\ offset[u] + 1 # length[u]
      BY <3>1, <3>3
    <3>4. CASE entry[f] = file[u] /\ offset[u] + 1 = length[u]
      <4>1. content'[file[u]] = Written(u)'
        <5>1. OwnFile'
          BY OwnFileNext
        <5>2. pc'[u] = "cover"
          BY <3>1, <3>4
        <5> QED
          BY <1>2, <3>1, <5>1, <5>2 DEF OwnFile
      <4>2. offset'[u] = length[u]
        BY <1>0, <3>1, <3>4
      <4>3. Written(u)' = Whole(u)'
        BY <3>1, <4>2 DEF Written, Whole
      <4> QED
        BY <3>1, <3>4, <4>1, <4>3
    <3>5. CASE entry[f] # file[u]
      <4>1. entry[f] \in Uploads /\ content'[entry[f]] = content[entry[f]]
        BY <1>0, <3>1, <3>2, <3>5
      <4>2. \A v \in Uploads : pc[v] = "write" => v = u
        BY <1>3, <3>1 DEF InFlight, Ended
      <4> QED
        BY <1>2, <2>0, <3>1, <3>5, <4>1, <4>2
    <3> QED
      BY <3>3, <3>4, <3>5
  <2>3. CASE UNCHANGED <<entry, content, file>> /\ (pc[u] # "write" \/ pc'[u] = "failed")
    <3>1. pc[u] # "write"
      BY <1>2, <2>3
    <3>2. \A v \in Uploads : pc[v] = "write" => pc'[v] = "write"
      BY <1>0, <1>5, <3>1, UploadChanges
    <3> QED
      BY <1>2, <2>0, <2>3, <3>2
  <2> QED
    BY <1>5, <2>1, <2>2, <2>3, FileSteps
<1>6. ASSUME NEW d \in Others, DownloadStep(d) \/ DeleteStep(d)
      PROVE  \/ \E v \in Uploads : content'[entry'[f]] = Whole(v)'
             \/ \E v \in Uploads : pc'[v] = "write" /\ file'[v] = entry'[f]
  <2>1. /\ entry'[f] = entry[f] /\ content' = content /\ length' = length
        /\ \A v \in Uploads : pc'[v] = pc[v] /\ file'[v] = file[v]
    BY <1>0, <1>6, OtherChanges, RequestsAssumption
  <2> QED
    BY <1>2, <1>4, <2>1
<1>7. CASE Crash
  <2>1. UNCHANGED <<entry, content, file, length>>
    BY <1>7 DEF Crash, disk, uploadVars
  <2>2. \A v \in Uploads : pc[v] # "write"
    <3> SUFFICES ASSUME NEW v \in Uploads, pc[v] = "write"
                 PROVE  pc'[v] = "failed"
      BY <1>2
    <3> QED
      BY <1>0, <1>7 DEF Crash, InFlight, Ended
  <2> QED
    BY <1>2, <1>4, <2>1, <2>2
<1>8. CASE UNCHANGED vars
  BY <1>2, <1>4, <1>8 DEF vars, disk, uploadVars
<1> QED
  BY <1>5, <1>6, <1>7, <1>8, Steps

-----------------------------------------------------------------------------
(* Downloads. *)

\* A download that is about to open its file knows its size, unless it is gone; one
\* that copies has sent a part of an upload, and will send as much as that has.
DownloadKnows(d) ==
    /\ pc[d] = "open" => entry[name[d]] = None \/ size[d] = Len(content[entry[name[d]]])
    /\ pc[d] = "copy" => \E v \in Uploads :
          /\ content[file[d]] = Whole(v)
          /\ size[d] = length[v]
          /\ Len(sent[d]) <= length[v]
          /\ \A n \in 1 .. Len(sent[d]) : sent[d][n] = Whole(v)[n]
    /\ pc[d] = "done" /\ file[d] # None => \E v \in Uploads : sent[d] = Whole(v)

DownloadsKnow == Sound => \A d \in Others : DownloadKnows(d)

\* What a download does keeps it so.
LEMMA DownloadKnowsStep ==
    ASSUME TypeInv, Solo, FilesWhole, Sound, NEW d \in Others, DownloadKnows(d),
           DownloadStep(d) \/ DeleteStep(d)
    PROVE  DownloadKnows(d)'
<1>0. /\ pc \in [Requests -> Places]
      /\ file \in [Requests -> Uploads \cup {None}] /\ name[d] \in Names
      /\ size \in [Others -> 0 .. MaxChunks] /\ MaxChunks \in Nat
      /\ sent \in [Others -> Seq(Chunk \cup {Hole})]
      /\ entry \in [Names -> Uploads \cup {None}]
      /\ content \in [Uploads -> Seq(Chunk \cup {Hole})]
      /\ length \in [Uploads -> 1 .. MaxChunks]
      /\ d \in Requests
  BY MaxChunksAssumption DEF TypeInv, TypeOK, Places, Requests
<1>1. CASE Download(d)
  <2>1. pc'[d] \in {"failed", "stat"}
    BY <1>0, <1>1 DEF Download, Goto
  <2> QED
    BY <2>1 DEF DownloadKnows
<1>2. CASE StatFile(d)
  <2>1. /\ UNCHANGED <<entry, content, name>>
        /\ pc'[d] \in {"failed", "open"}
        /\ pc'[d] = "open" => size'[d] = Len(content[entry[name[d]]])
    BY <1>0, <1>2 DEF StatFile, Goto, disk
  <2> QED
    BY <2>1 DEF DownloadKnows
<1>3. CASE OpenFile(d)
  <2>1. /\ pc[d] = "open" /\ pc'[d] \in {"failed", "copy"}
        /\ pc'[d] = "copy" => entry[name[d]] # None
        /\ file'[d] = entry[name[d]]
        /\ UNCHANGED <<content, size, sent, length>>
    BY <1>0, <1>3 DEF OpenFile, Goto, disk, uploadVars, downloadVars
  <2>2. CASE pc'[d] = "failed"
    BY <2>2 DEF DownloadKnows
  <2>3. CASE pc'[d] = "copy"
    <3>1. ~ \E u \in Uploads : pc[u] = "write"
      BY <1>0, <2>1, RequestsAssumption DEF Sound, Solo, InFlight, Ended
    <3>2. PICK v \in Uploads : content[entry[name[d]]] = Whole(v)
      BY <1>0, <2>1, <2>3, <3>1 DEF FilesWhole
    <3>3. size[d] = Len(Whole(v)) /\ sent[d] = <<>>
      <4>1. sent[d] = <<>>
        BY <2>1 DEF TypeInv, OtherProgress, OtherSteps, Ended
      <4>2. size[d] = Len(content[entry[name[d]]])
        BY <2>1, <2>3 DEF DownloadKnows
      <4> QED
        BY <3>2, <4>1, <4>2
    <3>4. Len(Whole(v)) = length[v] /\ length[v] \in Nat
      BY <1>0 DEF Whole
    <3>5. /\ content'[file'[d]] = Whole(v)' /\ size'[d] = length'[v]
          /\ sent'[d] = <<>>
      BY <2>1, <3>2, <3>3, <3>4 DEF Whole
    <3>6. /\ Len(sent'[d]) <= length'[v]
          /\ \A n \in 1 .. Len(sent'[d]) : sent'[d][n] = Whole(v)'[n]
      BY <2>1, <3>4, <3>5
    <3> QED
      BY <2>3, <3>5, <3>6 DEF DownloadKnows
  <2> QED
    BY <2>1, <2>2, <2>3
<1>4. CASE CopyChunk(d)
  <2>1. /\ pc[d] = "copy" /\ UNCHANGED <<content, size, length, file>>
    BY <1>4 DEF CopyChunk, disk, uploadVars
  <2>2. PICK v \in Uploads :
          /\ content[file[d]] = Whole(v)
          /\ size[d] = length[v]
          /\ Len(sent[d]) <= length[v]
          /\ \A n \in 1 .. Len(sent[d]) : sent[d][n] = Whole(v)[n]
    BY <2>1 DEF DownloadKnows
  <2>3. /\ Len(Whole(v)) = length[v] /\ length[v] \in Nat /\ Len(sent[d]) \in Nat
        /\ sent[d] \in Seq(Chunk \cup {Hole})
    BY <1>0 DEF Whole
  <2>4. Whole(v)' = Whole(v)
    BY <2>1 DEF Whole
  <2>5. CASE Len(sent[d]) + 1 <= length[v]
    <3>1. sent' = [sent EXCEPT ![d] = Append(@, Whole(v)[Len(sent[d]) + 1])] /\ pc' = pc
      BY <1>4, <2>2, <2>3, <2>5 DEF CopyChunk
    <3>2. sent'[d] = Append(sent[d], Whole(v)[Len(sent[d]) + 1])
      BY <1>0, <3>1
    <3> HIDE DEF Whole
    <3>3. /\ Len(sent'[d]) = Len(sent[d]) + 1
          /\ \A n \in 1 .. Len(sent[d]) : sent'[d][n] = sent[d][n]
          /\ sent'[d][Len(sent[d]) + 1] = Whole(v)[Len(sent[d]) + 1]
      BY <2>3, <3>2
    <3>4. \A n \in 1 .. Len(sent'[d]) : sent'[d][n] = Whole(v)[n]
      BY <2>2, <2>3, <3>3
    <3> QED
      BY <2>1, <2>2, <2>4, <2>5, <3>1, <3>3, <3>4, SMTT(30) DEF DownloadKnows
  <2>6. CASE ~ (Len(sent[d]) + 1 <= length[v])
    <3>1. sent' = sent /\ pc'[d] = "done"
      BY <1>0, <1>4, <2>2, <2>3, <2>6 DEF CopyChunk, Goto
    <3>2. Len(sent[d]) = length[v]
      BY <2>2, <2>3, <2>6
    <3>3. sent[d] = Whole(v)
      <4>1. Whole(v) = [n \in 1 .. length[v] |-> Whole(v)[n]]
        BY DEF Whole
      <4>2. sent[d] = [n \in 1 .. Len(sent[d]) |-> sent[d][n]]
        BY <2>3
      <4> QED
        BY <2>2, <3>2, <4>1, <4>2
    <3> QED
      BY <2>4, <3>1, <3>3 DEF DownloadKnows
  <2> QED
    BY <2>5, <2>6
<1>5. CASE DeleteStep(d)
  <2>1. /\ pc'[d] \notin {"open", "copy"} /\ file' = file
        /\ pc'[d] = "done" => pc[d] = "uncover"
    BY <1>0, <1>5
    DEF DeleteStep, Delete, RemoveFile, RemoveDirectory, RemoveCover, DeleteFails, Goto
  <2>2. pc[d] = "uncover" => file[d] = None
    BY DEF TypeInv, OtherProgress, OtherSteps, Ended
  <2> QED
    BY <2>1, <2>2 DEF DownloadKnows
<1> QED
  BY <1>1, <1>2, <1>3, <1>4, <1>5 DEF DownloadStep

\* What another request does, too: no upload writes while a download is in flight, and
\* a file that loses its name stays what it was.
LEMMA DownloadsKnowNext ==
    ASSUME TypeInv, Solo, OwnFile, FilesWhole, DownloadsKnow, [Next]_vars
    PROVE  DownloadsKnow'
<1> SUFFICES ASSUME Sound', NEW d \in Others
             PROVE  DownloadKnows(d)'
  BY DEF DownloadsKnow
<1>0. /\ Sound /\ apart /\ apart' /\ DownloadKnows(d) /\ d \in Requests
      /\ pc \in [Requests -> Places]
      /\ name[d] \in Names
      /\ Uploads \subseteq Requests
  BY FilesWholeNext DEF DownloadsKnow, Sound, TypeInv, TypeOK, Places, Requests
<1>1. ASSUME NEW u \in Uploads, (\E f \in Names : Upload(u, f)) \/ UploadStep(u)
      PROVE  DownloadKnows(d)'
  <2>1. /\ pc'[d] = pc[d] /\ file'[d] = file[d]
        /\ UNCHANGED <<length, sent>>
    BY <1>0, <1>1, UploadChanges, RequestsAssumption
  <2>2. pc[d] \notin {"open", "copy"}
    <3> SUFFICES ASSUME pc[d] \in {"open", "copy"}
                 PROVE  FALSE
      OBVIOUS
    <3>1. InFlight(d)
      BY DEF InFlight, Ended
    <3>2. ~ Arrives(u)
      BY <1>0, <3>1 DEF Arrives
    <3>3. InFlight(u)
      BY <1>1, <3>2, UploadChanges
    <3> QED
      BY <1>0, <3>1, <3>3, RequestsAssumption DEF Solo
  <2>3. \A v \in Uploads : Whole(v)' = Whole(v)
    BY <2>1 DEF Whole
  <2> QED
    BY <1>0, <2>1, <2>2, <2>3 DEF DownloadKnows
<1>2. ASSUME NEW x \in Others, x # d, DownloadStep(x) \/ DeleteStep(x)
      PROVE  DownloadKnows(d)'
  <2>1. /\ pc'[d] = pc[d] /\ file'[d] = file[d] /\ name'[d] = name[d]
        /\ size'[d] = size[d] /\ sent'[d] = sent[d]
        /\ entry'[name[d]] = entry[name[d]] \/ entry'[name[d]] = None
        /\ UNCHANGED <<content, length>>
    BY <1>0, <1>2, OtherChanges
  <2>2. \A v \in Uploads : Whole(v)' = Whole(v)
    BY <2>1 DEF Whole
  <2> QED
    BY <1>0, <2>1, <2>2 DEF DownloadKnows
<1>3. ASSUME DownloadStep(d) \/ DeleteStep(d)
      PROVE  DownloadKnows(d)'
  BY <1>0, <1>3, DownloadKnowsStep
<1>4. ASSUME Crash
      PROVE  DownloadKnows(d)'
  <2>1. /\ pc'[d] \in {"failed", pc[d]}
        /\ UNCHANGED <<entry, content, name, file, length, size, sent>>
    BY <1>0, <1>4 DEF Crash, disk, uploadVars, downloadVars
  <2>2. \A v \in Uploads : Whole(v)' = Whole(v)
    BY <2>1 DEF Whole
  <2> QED
    BY <1>0, <2>1, <2>2 DEF DownloadKnows
<1>5. ASSUME UNCHANGED vars
      PROVE  DownloadKnows(d)'
  <2>1. UNCHANGED <<pc, entry, content, name, file, length, size, sent>>
    BY <1>5 DEF vars, disk, uploadVars, downloadVars
  <2>2. \A v \in Uploads : Whole(v)' = Whole(v)
    BY <2>1 DEF Whole
  <2> QED
    BY <1>0, <2>1, <2>2 DEF DownloadKnows
<1> QED
  BY <1>1, <1>2, <1>3, <1>4, <1>5, Steps

\* A download that succeeds has sent one upload, whole.
THEOREM DownloadsAreSound == Spec => []DownloadsAreWhole
<1> DEFINE Inv == TypeInv /\ Solo /\ OwnFile /\ FilesWhole /\ DownloadsKnow
<1>1. Init => Inv
  <2>1. Init => Solo /\ OwnFile /\ DownloadsKnow
    BY DEF Init, Solo, OwnFile, DownloadsKnow, DownloadKnows, InFlight, Requests
  <2>2. Init => FilesWhole
    BY DEF Init, FilesWhole
  <2> QED
    BY <2>1, <2>2, TypeInvInit
<1>2. Inv /\ [Next]_vars => Inv'
  BY TypeInvNext, SoloNext, OwnFileNext, FilesWholeNext, DownloadsKnowNext
<1>3. Inv => DownloadsAreWhole
  BY DEF DownloadsKnow, DownloadKnows, Sound, DownloadsAreWhole
<1> HIDE DEF Inv
<1> QED
  BY <1>1, <1>2, <1>3, PTL DEF Spec

-----------------------------------------------------------------------------
(* The hash of the record. *)

\* The uploads that made or opened their file.
Begun == {u \in Uploads : file[u] # None}

\* What HashOfFile says of the uploads, of those in flight too.
Clean ==
    /\ apart
    /\ \A u \in Begun : pc[u] \notin {"failed", "unscanned"}
    /\ \A u, v \in Begun : name[u] = name[v]

\* A name is there because an upload made it.
NamesBegun == \A f \in Names : entry[f] # None => \E u \in Begun : name[u] = f

\* When no upload is between its first chunk and the writing of its hash, the files
\* have the hash of the record.
HashCurrent ==
    Clean /\ (\A u \in Uploads : pc[u] \notin {"write", "cover", "scan"}) =>
        \A f \in Names : entry[f] # None => hash \in Uploads /\ content[entry[f]] = Whole(hash)

\* An upload that has begun has begun for good, under its name; what has ended has.
LEMMA BegunStays ==
    ASSUME TypeInv, [Next]_vars, NEW u \in Uploads
    PROVE  /\ u \in Begun => u \in Begun' /\ name'[u] = name[u]
           /\ pc[u] \in Ended => pc'[u] = pc[u]
<1>0. /\ u \in Requests /\ Uploads \subseteq Requests /\ u \notin Others
      /\ pc \in [Requests -> Places]
  BY RequestsAssumption DEF TypeInv, TypeOK, Places, Requests
<1>1. ASSUME (\E f \in Names : Upload(u, f)) \/ UploadStep(u)
      PROVE  /\ u \in Begun => u \in Begun' /\ name'[u] = name[u]
             /\ pc[u] \in Ended => pc'[u] = pc[u]
  <2>1. ASSUME u \in Begun
        PROVE  name'[u] = name[u]
    <3>1. pc[u] # "idle"
      BY <2>1 DEF Begun, TypeInv, UploadProgress
    <3>2. InFlight(u)
      BY <1>1, <3>1, UploadChanges DEF Arrives
    <3> QED
      BY <1>1, <3>2, UploadChanges
  <2>2. ASSUME u \in Begun
        PROVE  u \in Begun'
    <3>1. file'[u] = file[u] \/ file'[u] \in Uploads
      BY <1>1, FileSteps, FileCreated DEF WriteChunk
    <3> QED
      BY <2>2, <3>1, NoneAssumption DEF Begun
  <2> QED
    BY <1>1, <2>1, <2>2, UploadChanges
<1>2. ASSUME NEW v \in Uploads, v # u, (\E f \in Names : Upload(v, f)) \/ UploadStep(v)
      PROVE  pc'[u] = pc[u] /\ file'[u] = file[u] /\ name'[u] = name[u]
  BY <1>0, <1>2, UploadChanges
<1>3. ASSUME NEW d \in Others, DownloadStep(d) \/ DeleteStep(d)
      PROVE  pc'[u] = pc[u] /\ file'[u] = file[u] /\ name'[u] = name[u]
  BY <1>0, <1>3, OtherChanges
<1>4. CASE Crash
  BY <1>0, <1>4 DEF Crash, Begun, InFlight, Ended
<1>5. CASE UNCHANGED vars
  BY <1>5 DEF vars, Begun
<1> QED
  BY <1>1, <1>2, <1>3, <1>4, <1>5, Steps DEF Begun

\* Uploads that are clean after a step were clean before it.
LEMMA CleanBefore ==
    ASSUME TypeInv, Solo, [Next]_vars, Clean'
    PROVE  Clean
<1>1. apart
  BY SoloNext DEF Clean
<1>2. \A u \in Begun : pc[u] \notin {"failed", "unscanned"}
  <2> SUFFICES ASSUME NEW u \in Begun, pc[u] \in {"failed", "unscanned"}
               PROVE  FALSE
    OBVIOUS
  <2>1. u \in Uploads /\ u \in Begun' /\ pc'[u] = pc[u]
    BY BegunStays DEF Begun, Ended
  <2> QED
    BY <2>1 DEF Clean
<1>3. ASSUME NEW u \in Begun, NEW v \in Begun
      PROVE  name[u] = name[v]
  <2>1. u \in Uploads /\ v \in Uploads
    BY DEF Begun
  <2>2. u \in Begun' /\ v \in Begun' /\ name'[u] = name[u] /\ name'[v] = name[v]
    BY <2>1, BegunStays
  <2> QED
    BY <2>2 DEF Clean
<1> QED
  BY <1>1, <1>2, <1>3 DEF Clean

\* Only an upload makes a name.
LEMMA NamesBegunNext ==
    ASSUME TypeInv, NamesBegun, [Next]_vars
    PROVE  NamesBegun'
<1> SUFFICES ASSUME NEW f \in Names, entry'[f] # None
             PROVE  \E u \in Begun' : name'[u] = f
  BY DEF NamesBegun
<1>1. ASSUME entry'[f] = entry[f]
      PROVE  \E u \in Begun' : name'[u] = f
  <2>1. PICK u \in Begun : name[u] = f
    BY <1>1 DEF NamesBegun
  <2>2. u \in Uploads
    BY DEF Begun
  <2> QED
    BY <2>1, <2>2, BegunStays
<1>2. ASSUME NEW u \in Uploads, CreateFile(u), directory
      PROVE  \E v \in Begun' : name'[v] = f
  <2>1. /\ name[u] \in Names /\ file'[u] \in Uploads /\ name' = name
        /\ entry' = [entry EXCEPT ![name[u]] = file'[u]]
    BY <1>2, FileCreated
  <2>2. CASE f = name[u]
    BY <2>1, <2>2, NoneAssumption DEF Begun
  <2>3. CASE f # name[u]
    <3>1. entry'[f] = entry[f]
      BY <2>1, <2>3 DEF TypeInv, TypeOK
    <3> QED
      BY <1>1, <3>1
  <2> QED
    BY <2>2, <2>3
<1>3. ASSUME NEW u \in Uploads, (\E g \in Names : Upload(u, g)) \/ UploadStep(u)
      PROVE  (CreateFile(u) /\ directory) \/ entry'[f] = entry[f]
  BY <1>3, FileSteps DEF WriteChunk
<1>4. ASSUME NEW d \in Others, DownloadStep(d) \/ DeleteStep(d)
      PROVE  entry'[f] = entry[f]
  BY <1>4, OtherChanges
<1>5. Crash \/ UNCHANGED vars => entry'[f] = entry[f]
  BY DEF Crash, vars, disk
<1> QED
  BY <1>1, <1>2, <1>3, <1>4, <1>5, Steps

\* The upload that ends last writes its hash, after its file.
LEMMA HashCurrentNext ==
    ASSUME TypeInv, Solo, OwnFile, NamesBegun, HashCurrent, [Next]_vars
    PROVE  HashCurrent'
<1> SUFFICES ASSUME Clean', \A u \in Uploads : pc'[u] \notin {"write", "cover", "scan"},
                    NEW f \in Names, entry'[f] # None
             PROVE  hash' \in Uploads /\ content'[entry'[f]] = Whole(hash)'
  BY DEF HashCurrent
<1>0. /\ Clean /\ apart /\ apart'
      /\ pc \in [Requests -> Places]
      /\ Uploads \subseteq Requests
  BY CleanBefore DEF Clean, TypeInv, TypeOK, Places, Requests
<1>1. CASE \A u \in Uploads : pc[u] \notin {"write", "cover", "scan"}
  <2>1. /\ entry'[f] = entry[f]
        /\ UNCHANGED <<content, hash, length>>
    <3>1. ASSUME NEW u \in Uploads, (\E g \in Names : Upload(u, g)) \/ UploadStep(u)
          PROVE  UNCHANGED <<entry, content, hash, length>>
      <4>1. ~ (CreateFile(u) /\ directory)
        BY FileCreated
      <4>2. ~ WriteChunk(u) /\ ~ SaveHash(u)
        BY <1>1 DEF WriteChunk, SaveHash
      <4>3. UNCHANGED <<entry, content>>
        BY <3>1, <4>1, <4>2, FileSteps
      <4>4. hash' = hash
        BY <3>1, <4>2
        DEF Upload, UploadStep, CreateFile, SaveAudioFails, SaveCover, ScanFails, UploadCover,
            PutCover, PutCoverFails
      <4> QED
        BY <3>1, <4>3, <4>4, UploadChanges
    <3>2. ASSUME NEW d \in Others, DownloadStep(d) \/ DeleteStep(d)
          PROVE  entry'[f] = entry[f] /\ UNCHANGED <<content, hash, length>>
      BY <3>2, OtherChanges
    <3>3. Crash \/ UNCHANGED vars => UNCHANGED <<entry, content, hash, length>>
      BY DEF Crash, vars, disk, uploadVars
    <3> QED
      BY <3>1, <3>2, <3>3, Steps
  <2>2. hash \in Uploads /\ content[entry[f]] = Whole(hash)
    BY <1>0, <1>1, <2>1 DEF HashCurrent
  <2> QED
    BY <2>1, <2>2 DEF Whole
<1>2. ASSUME NEW u \in Uploads, pc[u] \in {"write", "cover", "scan"}
      PROVE  hash' \in Uploads /\ content'[entry'[f]] = Whole(hash)'
  <2>1. InFlight(u) /\ u \in Begun
    BY <1>2 DEF InFlight, Ended, Begun, TypeInv, UploadProgress
  <2>2. pc'[u] \notin {"failed", "unscanned"}
    BY <2>1, BegunStays DEF Clean
  <2>3. ~ Crash
    BY <1>0, <2>1, <2>2 DEF Crash
  <2>4. ~ UNCHANGED vars
    BY <1>2 DEF vars
  <2>5. UploadStep(u)
    BY <1>0, <2>1, <2>3, <2>4, AloneStep
  <2>6. SaveHash(u)
    BY <1>0, <1>2, <2>2, <2>5
    DEF UploadStep, CreateFile, WriteChunk, SaveAudioFails, SaveCover, ScanFails, UploadCover,
        Arrives, PutCover, PutCoverFails, Goto
  <2>7. pc[u] = "scan" /\ hash' = u /\ UNCHANGED <<entry, content, length>>
    BY <2>6 DEF SaveHash, disk, uploadVars
  <2>8. PICK v \in Begun : name[v] = f
    BY <2>7 DEF NamesBegun
  <2>9. name[u] = f
    BY <1>0, <2>1, <2>8 DEF Clean
  <2>10. content[entry[f]] = Written(u) /\ offset[u] = length[u]
    BY <1>0, <2>7, <2>9 DEF OwnFile, TypeInv, UploadProgress
  <2> QED
    BY <2>7, <2>10 DEF Whole, Written
<1> QED
  BY <1>1, <1>2

\* At rest, the file a download would get has the hash of the record.
THEOREM TheHashIsOfTheFile == Spec => []HashOfFile
<1> DEFINE Inv == TypeInv /\ Solo /\ OwnFile /\ NamesBegun /\ HashCurrent
<1>1. Init => Inv
  <2>1. Init => Solo /\ OwnFile
    BY DEF Init, Solo, OwnFile, InFlight, Requests
  <2>2. Init => NamesBegun /\ HashCurrent
    BY DEF Init, NamesBegun, HashCurrent
  <2> QED
    BY <2>1, <2>2, TypeInvInit
<1>2. Inv /\ [Next]_vars => Inv'
  BY TypeInvNext, SoloNext, OwnFileNext, NamesBegunNext, HashCurrentNext
<1>3. Inv => HashOfFile
  <2> SUFFICES ASSUME Inv, apart, \A u \in Begun : pc[u] = "done",
                      \A u, v \in Begun : name[u] = name[v], Listing # {}
               PROVE  content[entry[Min(Listing)]] = Whole(hash)
    BY DEF HashOfFile, Begun
  <2>1. Min(Listing) \in Listing
    BY MinOfNaturals, NamesAssumption DEF Listing
  <2>2. Min(Listing) \in Names /\ entry[Min(Listing)] # None
    BY <2>1 DEF Listing
  <2>3. Clean
    BY DEF Clean
  <2>4. \A u \in Uploads : pc[u] \notin {"write", "cover", "scan"}
    BY DEF Begun, TypeInv, UploadProgress
  <2> QED
    BY <2>2, <2>3, <2>4 DEF HashCurrent
<1> HIDE DEF Inv
<1> QED
  BY <1>1, <1>2, <1>3, PTL DEF Spec

=============================================================================
