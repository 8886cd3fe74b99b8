------------------------------ MODULE SongFiles ------------------------------
(***************************************************************************)
(* The files of one song: the REST handlers of src/internal/rest over the  *)
(* LocalStorage of src/pkg/storage.                                        *)
(*                                                                         *)
(* An upload is first copied to a temporary file of its own, whose tags    *)
(* and hash are read; SaveAudio then copies it into the song's directory,  *)
(* chunk by chunk, into the file of that name, truncated if it exists; a   *)
(* cover is saved if there is one; and UpdateFromScan writes the hash to   *)
(* the song's record.  A download takes the first file of the directory,   *)
(* its size, a handle, and copies from the handle.  A delete removes the   *)
(* files, the directory and the cover.  Nothing holds any two of these     *)
(* steps together.                                                         *)
(*                                                                         *)
(* Songs share nothing, so the model has one.  An upload stands for its    *)
(* bytes and its hash, a file for the upload that made it; of a cover only *)
(* the presence is modelled.  The other columns of the record, and the two *)
(* statements of UpdateFromScan, are in SongTable.                         *)
(***************************************************************************)
EXTENDS Integers, SequencesExt

CONSTANTS
    Uploads,        \* uploads, of the audio or of a cover
    Others,         \* other requests: downloads of the audio, deletes
    Names,          \* file names, as numbers in the order of os.ReadDir
    MaxChunks,      \* bound: chunks of an upload
    Faults,         \* what may go wrong: "write", "crash"
    MaxFaults,      \* bound: faults in one behaviour
    None            \* no upload

ASSUME RequestsAssumption == Uploads \cap Others = {}
ASSUME NamesAssumption == Names \subseteq Nat /\ Names # {}
ASSUME MaxChunksAssumption == MaxChunks \in Nat \ {0}
ASSUME FaultsAssumption == Faults \subseteq {"write", "crash"}
ASSUME MaxFaultsAssumption == MaxFaults \in Nat
ASSUME NoneAssumption == None \notin Uploads

VARIABLES
    directory,  \* whether the song's directory exists
    entry,      \* the file of each name in it
    content,    \* of each file, also when no name leads to it any more
    cover,      \* whether the song has a cover
    hash,       \* the file_hash of the record, as the upload it is the hash of
    pc,         \* where each request is
    length,     \* the chunks of each upload
    name,       \* the file name it is saved as; what a download found
    file,       \* the file a request has open
    offset,     \* chunks an upload has written to it
    found,      \* the names a delete has still to remove
    size,       \* Content-Length of a download
    sent,       \* what it sent
    apart,      \* history: no upload has overlapped any other request
    shared,     \* history: uploads that were on their way while another opened their file
    faults      \* faults so far

disk == <<directory, entry, content, cover>>
uploadVars == <<length, offset>>
downloadVars == <<size, sent>>
vars == <<disk, hash, pc, name, file, uploadVars, downloadVars, found, apart, shared,
          faults>>

Requests == Uploads \cup Others
Ended == {"done", "unscanned", "failed"}

Chunk == [by : Uploads, n : 1 .. MaxChunks]

\* What was never written before a chunk that was: a hole in the file.
Hole == [by |-> None, n |-> 0]

Whole(u) == [n \in 1 .. length[u] |-> [by |-> u, n |-> n]]

\* The names ReadDir returns.
Listing == {f \in Names : entry[f] # None}

TypeOK ==
    /\ directory \in BOOLEAN
    /\ entry \in [Names -> Uploads \cup {None}]
    /\ content \in [Uploads -> Seq(Chunk \cup {Hole})]
    /\ cover \in BOOLEAN
    /\ hash \in Uploads \cup {None}
    /\ pc \in [Requests -> {"idle", "create", "write", "cover", "scan", "put", "stat",
                            "open", "copy", "unlink", "rmdir", "uncover"} \cup Ended]
    /\ length \in [Uploads -> 1 .. MaxChunks]
    /\ name \in [Requests -> Names]
    /\ file \in [Requests -> Uploads \cup {None}]
    /\ offset \in [Uploads -> 0 .. MaxChunks]
    /\ size \in [Others -> 0 .. MaxChunks]
    /\ sent \in [Others -> Seq(Chunk \cup {Hole})]
    /\ found \in [Others -> SUBSET Names]
    /\ apart \in BOOLEAN
    /\ shared \subseteq Uploads
    /\ faults \in Nat
    /\ ~ directory => Listing = {}

\* The record is there, with the hash of the file the client is about to upload.
Init ==
    /\ directory = FALSE
    /\ entry = [f \in Names |-> None]
    /\ content = [u \in Uploads |-> <<>>]
    /\ cover = FALSE
    /\ hash \in Uploads \cup {None}
    /\ pc = [r \in Requests |-> "idle"]
    /\ length \in [Uploads -> 1 .. MaxChunks]
    /\ name = [r \in Requests |-> Min(Names)]
    /\ file = [r \in Requests |-> None]
    /\ offset = [u \in Uploads |-> 0]
    /\ size = [d \in Others |-> 0]
    /\ sent = [d \in Others |-> <<>>]
    /\ found = [x \in Others |-> {}]
    /\ apart = TRUE
    /\ shared = {}
    /\ faults = 0

Goto(r, step) == pc' = [pc EXCEPT ![r] = step]

InFlight(r) == pc[r] \notin {"idle"} \cup Ended

Arrives(r) ==
    /\ pc[r] = "idle"
    /\ apart' = (apart /\ \A o \in IF r \in Uploads THEN Requests ELSE Uploads : ~ InFlight(o))

Fault(kind) == kind \in Faults /\ faults < MaxFaults /\ faults' = faults + 1

-----------------------------------------------------------------------------
(* handleUpload. *)

\* The upload is in its temporary file, and parsed; SaveAudio makes the directory.
Upload(u, f) ==
    /\ Arrives(u)
    /\ name' = [name EXCEPT ![u] = f]
    /\ directory' = TRUE
    /\ Goto(u, "create")
    /\ UNCHANGED <<entry, content, cover, hash, file, uploadVars, downloadVars,
                   found, shared, faults>>

\* Mutant: os.OpenFile without O_TRUNC.
CreateFileKeeps(u) ==
    /\ pc[u] = "create"
    /\ directory
    /\ entry' = [entry EXCEPT ![name[u]] = IF @ = None THEN u ELSE @]
    /\ file' = [file EXCEPT ![u] = entry'[name[u]]]
    /\ Goto(u, "write")
    /\ UNCHANGED <<directory, content, cover, hash, name, uploadVars, downloadVars,
                   found, apart, shared, faults>>

\* Upload u opens a file: the uploads that have it open will mix with it.
Share(u, opened) ==
    LET same == {v \in Uploads : file[v] = opened /\ InFlight(v)}
    IN  shared' = shared \cup same \cup IF same = {} THEN {} ELSE {u}

\* os.Create truncates a file of that name, or makes one; without the directory
\* it fails.
CreateFile(u) ==
    /\ pc[u] = "create"
    /\ IF directory
         THEN LET made == IF entry[name[u]] = None THEN u ELSE entry[name[u]]
              IN  /\ entry' = [entry EXCEPT ![name[u]] = made]
                  /\ content' = [content EXCEPT ![made] = <<>>]
                  /\ file' = [file EXCEPT ![u] = made]
                  /\ Share(u, made)
                  /\ Goto(u, "write")
         ELSE /\ Goto(u, "failed")
              /\ UNCHANGED <<entry, content, file, shared>>
    /\ UNCHANGED <<directory, cover, hash, name, uploadVars, downloadVars, found,
                   apart, faults>>

\* A file after chunk c was written at offset i.
WriteAt(chunks, i, c) ==
    [k \in 1 .. Max({i + 1, Len(chunks)}) |->
        IF k = i + 1 THEN c ELSE IF k <= Len(chunks) THEN chunks[k] ELSE Hole]

WriteChunk(u) ==
    /\ pc[u] = "write"
    /\ content' = [content EXCEPT ![file[u]] =
                    WriteAt(@, offset[u], [by |-> u, n |-> offset[u] + 1])]
    /\ offset' = [offset EXCEPT ![u] = @ + 1]
    /\ Goto(u, IF offset[u] + 1 = length[u] THEN "cover" ELSE "write")
    /\ UNCHANGED <<directory, entry, cover, hash, name, file, length, downloadVars,
                   found, apart, shared, faults>>

\* Mutant: the error of SaveAudio is ignored.
SaveAudioFailsSilently(u) ==
    /\ pc[u] \in {"create", "write"}
    /\ Fault("write")
    /\ Goto(u, "cover")
    /\ UNCHANGED <<disk, hash, name, file, uploadVars, downloadVars, found, apart, shared>>

\* The upload fails; what was written stays.
SaveAudioFails(u) ==
    /\ pc[u] \in {"create", "write"}
    /\ Fault("write")
    /\ Goto(u, "failed")
    /\ UNCHANGED <<disk, hash, name, file, uploadVars, downloadVars, found, apart, shared>>

\* There is a picture and SaveCover creates its file, or not: errors are ignored.
SaveCover(u) ==
    /\ pc[u] = "cover"
    /\ cover' \in {cover, TRUE}
    /\ Goto(u, "scan")
    /\ UNCHANGED <<directory, entry, content, hash, name, file, uploadVars,
                   downloadVars, found, apart, shared, faults>>

\* Mutant: the hash is only set when the record has none.
SaveHashIfNone(u) ==
    /\ pc[u] = "scan"
    /\ hash' = IF hash = None THEN u ELSE hash
    /\ Goto(u, "done")
    /\ UNCHANGED <<disk, name, file, uploadVars, downloadVars, found, apart, shared, faults>>

\* Whatever UpdateFromScan reads, it sets the hash.
SaveHash(u) ==
    /\ pc[u] = "scan"
    /\ hash' = u
    /\ Goto(u, "done")
    /\ UNCHANGED <<disk, name, file, uploadVars, downloadVars, found, apart, shared, faults>>

\* The tags could not be parsed, or UpdateFromScan fails: the upload succeeds
\* without.
ScanFails(u) ==
    /\ pc[u] = "scan"
    /\ Fault("write")
    /\ Goto(u, "unscanned")
    /\ UNCHANGED <<disk, hash, name, file, uploadVars, downloadVars, found, apart, shared>>

\* An upload of type cover.
UploadCover(u) ==
    /\ Arrives(u)
    /\ Goto(u, "put")
    /\ UNCHANGED <<disk, hash, name, file, uploadVars, downloadVars, found, shared, faults>>

PutCover(u) ==
    /\ pc[u] = "put"
    /\ cover' = TRUE
    /\ Goto(u, "done")
    /\ UNCHANGED <<directory, entry, content, hash, name, file, uploadVars,
                   downloadVars, found, apart, shared, faults>>

\* os.Create or the copy fails, before or after there is a file.
PutCoverFails(u) ==
    /\ pc[u] = "put"
    /\ Fault("write")
    /\ cover' \in {cover, TRUE}
    /\ Goto(u, "failed")
    /\ UNCHANGED <<directory, entry, content, hash, name, file, uploadVars,
                   downloadVars, found, apart, shared>>

-----------------------------------------------------------------------------
(* handleDownloadAudio. *)

\* os.ReadDir, and entries[0]: the first name.
Download(d) ==
    /\ Arrives(d)
    /\ IF Listing = {}
         THEN Goto(d, "failed") /\ UNCHANGED name
         ELSE name' = [name EXCEPT ![d] = Min(Listing)] /\ Goto(d, "stat")
    /\ UNCHANGED <<disk, hash, file, uploadVars, downloadVars, found, shared, faults>>

StatFile(d) ==
    /\ pc[d] = "stat"
    /\ IF entry[name[d]] = None
         THEN Goto(d, "failed") /\ UNCHANGED size
         ELSE /\ size' = [size EXCEPT ![d] = Len(content[entry[name[d]]])]
              /\ Goto(d, "open")
    /\ UNCHANGED <<disk, hash, name, file, uploadVars, sent, found, apart, shared, faults>>

OpenFile(d) ==
    /\ pc[d] = "open"
    /\ file' = [file EXCEPT ![d] = entry[name[d]]]
    /\ Goto(d, IF entry[name[d]] = None THEN "failed" ELSE "copy")
    /\ UNCHANGED <<disk, hash, name, uploadVars, downloadVars, found, apart, shared, faults>>

\* The server sends Content-Length bytes; fewer, and the client sees an error.
CopyChunk(d) ==
    /\ pc[d] = "copy"
    /\ LET next == Len(sent[d]) + 1
       IN  IF next <= size[d] /\ next <= Len(content[file[d]])
             THEN /\ sent' = [sent EXCEPT ![d] = Append(@, content[file[d]][next])]
                  /\ UNCHANGED pc
             ELSE /\ Goto(d, IF next > size[d] THEN "done" ELSE "failed")
                  /\ UNCHANGED sent
    /\ UNCHANGED <<disk, hash, name, file, uploadVars, size, found, apart, shared, faults>>

-----------------------------------------------------------------------------
(* handleDelete. *)

\* os.RemoveAll finds the files, removes them one by one, and then the directory,
\* which must be empty by then.
Delete(x) ==
    /\ Arrives(x)
    /\ found' = [found EXCEPT ![x] = Listing]
    /\ Goto(x, IF Listing = {} THEN "rmdir" ELSE "unlink")
    /\ UNCHANGED <<disk, hash, name, file, uploadVars, downloadVars, shared, faults>>

RemoveFile(x) ==
    /\ pc[x] = "unlink"
    /\ \E f \in found[x] :
        /\ entry' = [entry EXCEPT ![f] = None]
        /\ found' = [found EXCEPT ![x] = @ \ {f}]
        /\ Goto(x, IF found[x] = {f} THEN "rmdir" ELSE "unlink")
    /\ UNCHANGED <<directory, content, cover, hash, name, file, uploadVars,
                   downloadVars, apart, shared, faults>>

RemoveDirectory(x) ==
    /\ pc[x] = "rmdir"
    /\ directory' = (Listing # {})
    /\ Goto(x, IF Listing = {} THEN "uncover" ELSE "failed")
    /\ UNCHANGED <<entry, content, cover, hash, name, file, uploadVars, downloadVars,
                   found, apart, shared, faults>>

\* Mutant: a cover is left behind.
RemoveCoverNot(x) ==
    /\ pc[x] = "uncover"
    /\ Goto(x, "done")
    /\ UNCHANGED <<disk, hash, name, file, uploadVars, downloadVars, found, apart, shared, faults>>

RemoveCover(x) ==
    /\ pc[x] = "uncover"
    /\ cover' = FALSE
    /\ Goto(x, "done")
    /\ UNCHANGED <<directory, entry, content, hash, name, file, uploadVars,
                   downloadVars, found, apart, shared, faults>>

DeleteFails(x) ==
    /\ pc[x] \in {"unlink", "rmdir", "uncover"}
    /\ Fault("write")
    /\ Goto(x, "failed")
    /\ UNCHANGED <<disk, hash, name, file, uploadVars, downloadVars, found, apart, shared>>

-----------------------------------------------------------------------------

\* The process dies: the disk and the record are what they are.
Crash ==
    /\ Fault("crash")
    /\ pc' = [r \in Requests |-> IF InFlight(r) THEN "failed" ELSE pc[r]]
    /\ UNCHANGED <<disk, hash, name, file, uploadVars, downloadVars, found, apart, shared>>

UploadStep(u) ==
    \/ CreateFile(u) \/ WriteChunk(u) \/ SaveAudioFails(u)
    \/ SaveCover(u) \/ SaveHash(u) \/ ScanFails(u)
    \/ UploadCover(u) \/ PutCover(u) \/ PutCoverFails(u)

DownloadStep(d) ==
    \/ Download(d) \/ StatFile(d) \/ OpenFile(d) \/ CopyChunk(d)

DeleteStep(x) ==
    \/ Delete(x) \/ RemoveFile(x) \/ RemoveDirectory(x) \/ RemoveCover(x)
    \/ DeleteFails(x)

Next ==
    \/ \E u \in Uploads, f \in Names : Upload(u, f)
    \/ \E u \in Uploads : UploadStep(u)
    \/ \E r \in Others : DownloadStep(r) \/ DeleteStep(r)
    \/ Crash

Spec == Init /\ [][Next]_vars

-----------------------------------------------------------------------------
(* Properties. *)

\* When the record takes the hash of an upload, the file it wrote holds all its chunks
\* and no others, unless another upload opened that file meanwhile: downloads,
\* deletes, uploads of other names, failures and crashes do not bring the record ahead
\* of what was stored, though a delete may have taken the file's name since (SaveAudio
\* comes before UpdateFromScan, and its error ends the upload).
ScannedIsSaved ==
    [][hash' # hash /\ hash' \notin shared =>
        file[hash'] # None /\ content[file[hash']] = Whole(hash')]_vars

\* As long as uploads overlap nothing and none has failed, a download that succeeds
\* has sent one upload, whole, though the song is deleted under it (handle,
\* Content-Length and file agree).
DownloadsAreWhole ==
    apart /\ (\A u \in Uploads : pc[u] # "failed")
        => \A d \in Others : pc[d] = "done" /\ file[d] # None =>
              \E u \in Uploads : sent[d] = Whole(u)

\* As long as uploads overlap nothing, a delete that succeeds leaves nothing on the
\* disk, though another delete of the song runs with it, or an upload died halfway
\* before (DeleteSongFiles).
DeleteLeavesNothing ==
    [][apart => \A x \in Others : pc[x] = "uncover" /\ pc'[x] = "done" =>
        ~ directory' /\ ~ cover' /\ Listing' = {}]_vars

\* At rest after uploads that overlapped nothing, succeeded and had one name, the
\* file a download would get has the hash of the record: storage and database agree
\* (SaveAudio, UpdateFromScan, entries[0] of GetAudio).
HashOfFile ==
    LET begun == {u \in Uploads : file[u] # None}
    IN  /\ apart
        /\ begun # {}
        /\ \A u \in begun : pc[u] = "done"
        /\ \A u, v \in begun : name[u] = name[v]
        /\ Listing # {}
        => content[entry[Min(Listing)]] = Whole(hash)
=============================================================================
