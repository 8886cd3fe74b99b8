------------------------------ MODULE SongTable ------------------------------
(***************************************************************************)
(* The songs table of EchoVault: src/internal/service/song over the ent    *)
(* builders of src/internal/ent, as clients use it.                        *)
(*                                                                         *)
(* A client that has a file asks whether its hash is known, publishes a    *)
(* song if not, and uploads the file, whose tags UpdateFromScan writes to  *)
(* the columns that are empty; or it uploads a file to a song that is      *)
(* there.  The check, the insert, the read of the row and its update are   *)
(* statements of their own, and clients interleave between them.           *)
(*                                                                         *)
(* A column holds nothing, what the user gave, ent's default, or the tag   *)
(* of a client's file.  The id PublishSong makes up is named by the client *)
(* that called it.  No song is ever deleted or edited by a user.           *)
(***************************************************************************)
EXTENDS Naturals

CONSTANTS
    Clients,
    Hashes,         \* hashes of files
    TextColumns,    \* columns with a MaxLen: title, artist, album, genre
    NumberColumns,  \* columns of an int32: track_number, disc_number, year
    Given,          \* the columns PublishSong has a value for
    Tags,           \* the tags a file may have, see TagsAssumption
    Preset,         \* those ent gives a default that is not empty: disc_number
    User,           \* a value the user gave
    Default,        \* ent's default
    Faults,         \* what may go wrong: "read", "write", "crash"
    MaxFaults,      \* bound: faults in one behaviour
    None            \* an empty column, no row

Columns == TextColumns \cup NumberColumns

ASSUME ColumnsAssumption ==
    /\ TextColumns \cap NumberColumns = {}
    /\ Given \subseteq Columns
    /\ Preset \subseteq Columns \ Given

\* Of each column none, one that fits it, or one that is too long.
ASSUME TagsAssumption ==
    \A t \in Tags :
        /\ t \in [Columns -> {"none", "fits", "long"}]
        /\ \A f \in NumberColumns : t[f] # "long"
ASSUME ValuesAssumption ==
    /\ {User, Default, None} \cap Clients = {}
    /\ User # Default /\ User # None /\ Default # None
    /\ None \notin Hashes
ASSUME FaultsAssumption == Faults \subseteq {"read", "write", "crash"}
ASSUME MaxFaultsAssumption == MaxFaults \in Nat

VARIABLES
    songs,      \* the songs table: the row of each id
    pc,         \* where each client is
    hash,       \* the hash of its file
    tags,       \* the tags in it
    target,     \* the song it uploads to
    was,        \* the columns UpdateFromScan read
    tidy,       \* history: clients came one at a time, and asked before they uploaded
    crossed,    \* history: songs that two uploads read before either wrote
    faults      \* faults so far

file == <<hash, tags>>
history == <<tidy, crossed>>
vars == <<songs, pc, file, target, was, history, faults>>

Ended == {"known", "done", "unscanned", "failed"}
Running == {"check", "publish", "upload", "read", "save"}

Values == Clients \cup {User, Default, None}
Row == [columns : [Columns -> Values], hash : Hashes \cup {None}]
NoTags == [f \in Columns |-> "none"]

\* A value in the table fits its column: it is not a tag that is too long.
Fits(v, f) == v \in Clients => tags[v][f] = "fits"

TypeOK ==
    /\ DOMAIN songs \subseteq Clients
    /\ songs \in [DOMAIN songs -> Row]
    /\ \A s \in DOMAIN songs, f \in Columns : Fits(songs[s].columns[f], f)
    /\ pc \in [Clients -> {"idle"} \cup Running \cup Ended]
    /\ hash \in [Clients -> Hashes \cup {None}]
    /\ tags \in [Clients -> Tags \cup {NoTags}]
    /\ target \in [Clients -> Clients]
    /\ was \in [Clients -> [Columns -> Values]]
    /\ tidy \in BOOLEAN
    /\ crossed \subseteq Clients
    /\ faults \in Nat

Init ==
    /\ songs = [s \in {} |-> None]
    /\ pc = [c \in Clients |-> "idle"]
    /\ hash = [c \in Clients |-> None]
    /\ tags = [c \in Clients |-> NoTags]
    /\ target = [c \in Clients |-> c]
    /\ was = [c \in Clients |-> [f \in Columns |-> None]]
    /\ tidy = TRUE
    /\ crossed = {}
    /\ faults = 0

Goto(c, step) == pc' = [pc EXCEPT ![c] = step]

Fault(kind) == kind \in Faults /\ faults < MaxFaults /\ faults' = faults + 1

-----------------------------------------------------------------------------
(* CheckSongsByHash. *)

\* A client comes with a file, to publish it if the server does not have it.
Begin(c, h) ==
    /\ pc[c] = "idle"
    /\ hash' = [hash EXCEPT ![c] = h]
    /\ tidy' = (tidy /\ \A o \in Clients : pc[o] \notin Running)
    /\ Goto(c, "check")
    /\ UNCHANGED <<songs, tags, target, was, crossed, faults>>

\* Mutant: a song counts once its file was uploaded.
KnownUploaded(h) ==
    \E s \in DOMAIN songs : songs[s].hash = h /\ \E c \in Clients : target[c] = s /\ pc[c] = "done"

Known(h) == \E s \in DOMAIN songs : songs[s].hash = h

CheckSongsByHash(c) ==
    /\ pc[c] = "check"
    /\ Goto(c, IF Known(hash[c]) THEN "known" ELSE "publish")
    /\ UNCHANGED <<songs, file, target, was, history, faults>>

-----------------------------------------------------------------------------
(* PublishSong. *)

\* ent fills in the columns the service does not set.
Defaults == [f \in Columns |-> IF f \in Preset THEN Default ELSE None]

\* The row of a song to which the user gave some columns, and its hash or none.
NewSong(given, h) ==
    [columns |-> [f \in Columns |-> IF f \in given THEN User ELSE Defaults[f]],
     hash    |-> h]

PublishSong(c, given, h) ==
    /\ pc[c] = "publish"
    /\ songs' = [s \in DOMAIN songs \cup {c} |->
                    IF s = c THEN NewSong(given, h) ELSE songs[s]]
    /\ Goto(c, "upload")
    /\ UNCHANGED <<file, target, was, history, faults>>

\* A column the user gave is too long: check refuses it, and the client is told.
PublishRejected(c) ==
    /\ pc[c] = "publish"
    /\ Goto(c, "failed")
    /\ UNCHANGED <<songs, file, target, was, history, faults>>

-----------------------------------------------------------------------------
(* The upload, once the file is stored and parsed. *)

Upload(c, t) ==
    /\ pc[c] = "upload"
    /\ tags' = [tags EXCEPT ![c] = t]
    /\ Goto(c, "read")
    /\ UNCHANGED <<songs, hash, target, was, history, faults>>

\* The adapter of main refuses a number beyond an int32, whether or not its column
\* is empty; the handler ignores the error.
NumberOverflows(c) ==
    /\ pc[c] = "upload"
    /\ Goto(c, "unscanned")
    /\ UNCHANGED <<songs, file, target, was, history, faults>>

\* To a song another client published, without asking first.
UploadTo(c, s, h, t) ==
    /\ pc[c] = "idle"
    /\ s \in DOMAIN songs
    /\ hash' = [hash EXCEPT ![c] = h]
    /\ target' = [target EXCEPT ![c] = s]
    /\ tags' = [tags EXCEPT ![c] = t]
    /\ tidy' = FALSE
    /\ Goto(c, "read")
    /\ UNCHANGED <<songs, was, crossed, faults>>

\* Song.Get.
ReadSong(c) ==
    /\ pc[c] = "read"
    /\ was' = [was EXCEPT ![c] = songs[target[c]].columns]
    /\ crossed' = crossed \cup
        {s \in {target[c]} : \E o \in Clients : pc[o] = "save" /\ target[o] = s}
    /\ Goto(c, "save")
    /\ UNCHANGED <<songs, file, target, tidy, faults>>

\* Mutant: columns that are not empty are replaced too.
FillsAll(c) == {f \in Columns : tags[c][f] # "none"}

\* applyMetadataIfEmpty: the columns that were empty and have a tag.
Fills(c) == {f \in Columns : was[c][f] = None /\ tags[c][f] # "none"}

\* The validators look at the columns that are set, and at them only.
UpdateFits(c) == \A f \in Fills(c) \cap TextColumns : tags[c][f] = "fits"

\* Mutant: the whole row is written back, not only the columns that are set.
UpdatedFromRead(c) ==
    [columns |-> [f \in Columns |-> IF f \in Fills(c) THEN c ELSE was[c][f]],
     hash    |-> hash[c]]

\* The row after UPDATE songs SET the columns to fill, and always the hash.
Updated(c) ==
    [columns |-> [f \in Columns |->
                    IF f \in Fills(c) THEN c ELSE songs[target[c]].columns[f]],
     hash    |-> hash[c]]

UpdateSong(c) ==
    /\ pc[c] = "save"
    /\ UpdateFits(c)
    /\ songs' = [songs EXCEPT ![target[c]] = Updated(c)]
    /\ Goto(c, "done")
    /\ UNCHANGED <<file, target, was, history, faults>>

\* One tag that is too long, and no column is written, nor the hash.
UpdateRejected(c) ==
    /\ pc[c] = "save"
    /\ ~ UpdateFits(c)
    /\ Goto(c, "unscanned")
    /\ UNCHANGED <<songs, file, target, was, history, faults>>

-----------------------------------------------------------------------------
(* Failures. *)

\* A statement of the song service, or the storage, fails.  The upload succeeds
\* whatever UpdateFromScan returns.
StatementFails(c) ==
    /\ \/ pc[c] \in {"check", "read"} /\ Fault("read")
       \/ pc[c] \in {"publish", "upload", "save"} /\ Fault("write")
    /\ Goto(c, IF pc[c] \in {"read", "save"} THEN "unscanned" ELSE "failed")
    /\ UNCHANGED <<songs, file, target, was, history>>

Crash ==
    /\ Fault("crash")
    /\ pc' = [c \in Clients |-> IF pc[c] \in Running THEN "failed" ELSE pc[c]]
    /\ UNCHANGED <<songs, file, target, was, history>>

-----------------------------------------------------------------------------

Step(c) ==
    \/ CheckSongsByHash(c) \/ PublishRejected(c)
    \/ \E given \in SUBSET Given, h \in {hash[c], None} : PublishSong(c, given, h)
    \/ NumberOverflows(c) \/ \E t \in Tags : Upload(c, t)
    \/ ReadSong(c) \/ UpdateSong(c) \/ UpdateRejected(c)
    \/ StatementFails(c)

Next ==
    \/ \E c \in Clients, h \in Hashes :
        Begin(c, h) \/ \E s \in Clients, t \in Tags : UploadTo(c, s, h, t)
    \/ \E c \in Clients : Step(c)
    \/ Crash

Spec == Init /\ [][Next]_vars

-----------------------------------------------------------------------------
(* Properties. *)

\* A column that has a value keeps it: what the user gave always, and what one
\* file filled in unless another upload had read the row before that (the two
\* statements of UpdateFromScan).
FilledStays ==
    [][\A s \in DOMAIN songs, f \in Columns :
        LET v == songs[s].columns[f]
        IN  v # None /\ songs'[s].columns[f] # v => v \in Clients /\ s \in crossed]_vars

\* What a scan had a tag for is not empty in the song afterwards, though another
\* upload read the row before and wrote it later: an update writes only the columns
\* it sets (UpdateFromScan, SongUpdateOne).
EveryTagLands ==
    \A c \in Clients : pc[c] = "done" =>
        \A f \in Columns : tags[c][f] = "fits" => songs[target[c]].columns[f] # None

\* A file whose upload was scanned, or was said to be known, is that of exactly one
\* song, as long as clients come one at a time, whatever fails on the way: a device
\* that asks first never publishes a second one (CheckSongsByHash, PublishSong).
OneSongPerFile ==
    tidy => \A h \in Hashes :
        LET of == {s \in DOMAIN songs : songs[s].hash = h}
        IN  /\ \A s, t \in of : s = t
            /\ (\E c \in Clients : hash[c] = h /\ pc[c] \in {"known", "done"}) => of # {}
=============================================================================
