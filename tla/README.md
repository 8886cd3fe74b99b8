# EchoVault server: TLA+ models and proofs

EchoVault keeps a user's music library: a Go server with a gRPC API (songs,
playlists, lyrics, users, sync), a REST API for the audio and cover files, SQLite
behind ent, and a directory of files. This directory holds TLA+ models of the
parts of it that hold state and run concurrently, the TLC configurations that
check them, and theorems about them that TLAPS checks.

    tlc -workers 2 -config SyncConcurrent.cfg MCSyncService.tla
    tlapm SyncProofs.tla

`PROJECT.json` lists every run, what each definition models (file and lines), the
mutants that show each property can fail, the hazards and the theorems.

## 1. The system

Every gRPC call and every HTTP request runs in a goroutine of its own. Services
keep no state in memory, except the Notifier. They share one SQLite database in
WAL mode with a busy timeout (`setupDB` in `cmd/server/main.go`): one statement is
atomic, and two are not, unless a transaction holds them together, which only
`ReorderSongs` has. Most operations are a query, a decision and a write, in two or
three statements. That is where nearly all hard behaviour of this code comes from.

| Component | State | Operations | Interacts with |
|---|---|---|---|
| Sync service (`internal/service/sync`, `handler_sync.go`) | `sync_logs`: the change log; its `acked` column | PushChanges, PullChanges, AckChanges | calls the Notifier after each row |
| Change notifications (`notifier.go`, `SubscribeChanges`) | map from device to channel under an RWMutex; buffered channels | Subscribe, Unsubscribe, Notify, the forwarding loop | told by PushChanges; tells devices to pull |
| Playlists (`internal/service/playlist`) | `playlists`, `playlist_songs` | Create, Update, Delete, AddSong, RemoveSong, ReorderSongs, List | the database |
| Song records (`internal/service/song`, `handler_song.go`) | `songs` | CheckSongsByHash, PublishSong, UpdateFromScan, Get, Search, List | UpdateFromScan is called by the upload handler |
| Files (`internal/rest`, `pkg/storage/local.go`) | one directory of audio per song, one cover | upload of audio or cover, download, delete | handlers call storage, then the song service |
| Range requests (`serveRangeRequest`) | one response | parse the header, seek or skip, copy | reads from storage |
| Lyrics (`internal/service/lyric`) | `lyrics` | SaveLyric, DeleteLyric, Get, List | the database |
| Accounts and devices (`internal/service/user`, `handler_user.go`) | `users`, `devices` | Register, Login, RegisterDevice, RemoveDevice | the database, tokens |
| Authentication (`auth_interceptor.go`, `pkg/auth`) | none: a signed token names its account | the check before each unary call but Register and Login | hands the account to the handlers |
| Server lifecycle (`cmd/server/main.go`) | three goroutines, two servers, the database handle | set up, serve, signal, GracefulStop, Shutdown, Close | everything |
| Configuration, metadata, conversions, S3 stub | none, or read once | | |
| Generated code (`internal/ent`, `api/grpc/generated`) | none of its own | the statements, defaults and validators the services use | under every service |

What is hard in each, and what makes it correct:

- **Sync.** Concurrent pushes interleave statement by statement; a query that fails
  is read as an empty answer; an insert may fail or the process die in the middle
  of a batch, and the device sends the batch again; pages may break anywhere.
  Correct: no number is skipped, conflicts are real, nothing is logged twice, and,
  when pushes come one at a time, each device receives the whole feed in order.
- **Notifications.** Streams of one device overlap, since registrations are by
  device; a push walks the map while streams end; buffers fill up. Correct: at most
  one copy, no abandoned channel, nothing sent to a channel taken out, no push held
  up by a client.
- **Playlists.** Check then insert, read maximum then insert, delete in two
  statements, a transaction that may fail. Correct: a song once, reorders whole,
  the write lock let go, a list that does what each call says.
- **Song records.** Check, publish, upload are calls of their own; UpdateFromScan reads
  the row, decides what is empty and writes; one tag that is too long fails it all.
  Correct: what the user gave stays, no tag is lost, one song for one file.
- **Files.** An upload is a file, a cover and a record in separate steps; downloads
  and deletes overlap. Correct: a download is one upload, whole; file and record
  agree; a delete leaves nothing.
- **Ranges.** Boundaries of the header, short reads, readers that cannot seek.
- **Lyrics.** Query then insert or update by id, against deletes. Correct: a save is
  one step or none.
- **Accounts.** Check then insert against a unique column; answers that are lost;
  errors that are all answered with one code. Correct: an account opens to its
  password only, one name and one device have one owner, refusals say what is so.
- **Lifecycle.** The order in which the servers, the database and the process start
  and end, and a signal at any point of it.

## 2. Modules

    ChangeFeed  <--implements--  SyncService  <--EXTENDS--  SyncServer
                                                              |  INSTANCE
                                                           Notifier
    SongList    <--implements--  Playlist
    LyricStore  <--implements--  LyricTable
    SongTable     SongFiles     RangeRequest     Account     ServerShutdown

The theorems are in modules beside these: `SyncProofs` (SyncService and SyncServer),
`NotifierProofs`, `PlaylistProofs`, `SongTableProofs`, `SongFilesProofs`,
`RangeRequestProofs`, `LyricTableProofs`, and `ServerProofs` (Account, and
ServerShutdown, whose specification is named `LifeSpec` so that one module can extend
both).

`MC*` modules declare the model values of the runs and their symmetry. Symmetry is used
only in runs without liveness: calls, streams, entities and songs are interchangeable in
them, since no definition orders them.

### SyncService, ChangeFeed

`log` is the table in insertion order. Each PushChanges call is a process with a
program counter: `resolve` (Resolve, one query per change), `apply` (shouldSkip, then
VersionTracker.Next), `append` (ChangeLogger.Append), `notify`, `respond`
(VersionTracker.Current). One action is one statement, which is what is atomic in
the code. `ResolveBlind`, `NextVersionBlind` and `RespondBlind` are the queries whose
error the code takes for 0, 1 and 0; `AppendFails` and `Crash` leave the logged rows.
`Retry` sends a batch again whose earlier attempt has ended. A device is its cursor
and what it was sent; `Pull` delivers any start of a page, rows of one version in any
order, because the query orders by version alone. `Ack` marks the rows of every device
up to the version the request names: the code compares it with nothing, and the tests
acknowledge what was never pulled, so the model has acks of any version at any time.
`faults` is a history of what
failed, so that a property may say "as long as no query failed".

`ChangeFeed` is what devices are entitled to expect: one sequence of changes, of
which each device has received a prefix. `SyncService` implements it (`FeedSpec`) when
pushes come one at a time and no query fails.

Left out: the payload of a change (no step reads it) and timestamps. A client that
sends a batch again while its first attempt still runs is a second call that arrives
with an equal batch: the racing runs have it, and both may log the batch. `LoggedOnce`
is about attempts in turn.

### Notifier, SyncServer

`subscribers` is the map. A channel is named by the stream that made it; a second
stream of the device takes the registered channel, as Subscribe does. A notifier
holds the read lock from `Begin` to `End` and offers the message to the channels in
any order (a Go map), dropping it where the buffer is full. Subscribe and
Unsubscribe need the write lock. `SendFails` loses the message it had taken.

`SyncServer` puts the two together: the call that logged a row is the notifier, and
its `notify` step is Begin, Offers and End. A crash empties the Notifier. That notifying
changes nothing of the sync service shows in how the module is written, and is not
checked; what it checks is that a notification is of a row with that version, type and
action.

### Playlist, SongList

AddSong is `check`, `max`, `insert`; ReorderSongs is `fetch`, one `move` per song,
`commit`; DeletePlaylist is `clear`, `drop`. `writer` and `draft` are the SQLite
transaction of a reorder: the first update takes the write lock, readers go on to see
`rows`, and Commit, Rollback or a crash let it go. A request names any songs, some more
than once or not at all: FetchSongs only looks whether each is in the playlist, and the
last mention counts. Its positions are converted to an int32 (`ToInt32`, with the wrap)
where those of AddSong are capped. `CreatePlaylist`, `RemoveSong` and
`UpdatePlaylist` are single statements; of the last only its wait for the lock and its
failure are modelled, since nothing else reads the name or the description.

`SongList` is the list of songs a user expects, with the orders that were asked for and
not yet answered: a reorder gives one of these, or nothing. Racing calls do not implement
it, so `tidy` is a history: it stays true as long as calls come one at a time, reorders
name every song of the list once, the positions fit in 32 bits, and no query whose error
is ignored fails. `ListSpec` and `NoOrphans`
are stated while it is true; the other properties hold always. One run has both.

### SongTable

A client has a file: it asks for the hash (`check`), publishes a song (`publish`), and
uploads (`upload`), or it uploads to a song of another client. UpdateFromScan is
`ReadSong` and `UpdateSong`; in between, other clients act. A row has columns of two
kinds, text with a MaxLen and numbers, and a column holds nothing, what the user gave,
ent's default, or the tag of a client's file, so that it can be seen who wrote it.
`Fills` is applyMetadataIfEmpty, `UpdateFits` the validators of the builder, `Updated`
what the UPDATE statement sets: the columns to fill, and always the hash. Two
histories: `tidy`, that clients came one at a time and asked before they uploaded, and
`crossed`, the songs that two uploads had both read before either wrote.

### SongFiles

One song, since songs share nothing. A file is named by the upload that made it and
consists of chunks that know which upload wrote them, so that a mixture can be seen.
`directory` and `entry` are the file system's view; a handle goes on to lead to a file
whose entry is gone, as on Unix. Of a cover the presence is modelled, and `hash` is
the one column of the record; the others, and the two statements that write them, are
in SongTable. Two histories: `apart`, that no upload has overlapped any other request,
and `shared`, the uploads that were on their way while another opened their file.

### Account

A call is one request with a program counter. Register is `name` (ValidatePassword and
the query), `user` (hash, insert) and `read` (the handler reads the account back);
Login is `login` and `read`; RegisterDevice is `device` and `register`; RemoveDevice is
one statement. `Reply` is the handler's answer, with the code it makes of the error.
`Committed` leaves an answer to a change on its way, so that a crash can lose it. A
token is the account it was signed for; a device call takes its user from the token of
a Register or Login that has returned (`Authentic`), or is turned away. A request is
valid, or has a password ValidatePassword refuses, or a text too long for its column
or for bcrypt.

### RangeRequest

One request, from the header to the last byte; `Start`, `End` and `Satisfiable` are
parseRangeHeader, and byte i of the file stands for its content. The reader may seek
or not, its Seek may fail, which the handler ignores (`Origin` is where the bytes then
begin), and it may deliver more or less than the size promised. `Asked` defines the
bytes a header asks for independently of how the code computes them.

### LyricTable, LyricStore

SaveLyric's query, and its update by id or its insert against the unique index;
DeleteLyric's one statement. `LyricStore` is a map that Save and Delete change in one
step.

### ServerShutdown

main step by step: database, tables, listener, storage, signals, the goroutine of the
REST server, Serve. The first four may fail, which ends the process. A signal ends it
before `signal.Notify` and fills `sigCh` afterwards. `GracefulStop` waits for handlers,
or stops a server that does not serve yet at once; Serve returns after it, or at once
if it came first; main closes the database and returns, and that kills whatever runs.
`ServeFails` and `RestFails` are os.Exit and log.Fatalf: the process ends with all its
calls, and the database is not closed.

## 3. Runs

All of them complete; the state space is finite because calls, streams and uploads
are used once and faults are bounded by `MaxFaults`.

| Run | Bounds | Distinct states | Properties |
|---|---|---|---|
| sync_concurrent | 2 pushes of up to 2 changes, 2 entities, 1 device, 1 failed query, insert or crash | 1 077 641 (symmetry) | NoVersionGaps, ConflictsGenuine, OwnChangesOrdered, LoggedOnce, DistinctBatchesAnswered, NoVersionSkipped |
| sync_serial | 2 pushes in turn of up to 2 changes, 2 devices, pages of 2, acks of any version, 1 failed insert or crash | 39 458 | DenseVersions, NoLostChange, NoLostUpdate, AcksReachBack, EveryChangeArrives, FeedSpec |
| notifier | 3 streams, 2 devices, 2 pushes notifying, 2 messages, buffer of 1 | 524 228 | AtMostOnce, NoAbandonedChannel, UnsubscribeStops, LiveStreamRegistered, NotifyEnds |
| server | 2 racing pushes of 1 change, 2 streams, 1 device, 1 fault of any kind | 301 981 (symmetry) | NotifiedChangeIsPullable |
| playlist | 4 racing calls, 1 playlist, 2 songs, reorders of up to 3 ids, positions -20..19, 1 fault of any kind | 442 397 (symmetry) | TypeOK, SongOnce, LockIsLetGo, NoOrphans, ReordersAreWhole, ListSpec |
| songs | 3 clients, 2 files, a text column and a preset number column, tags of every kind, 1 fault of any kind | 760 996 (symmetry) | EveryTagLands, OneSongPerFile, FilledStays |
| songfiles | 2 uploads of up to 2 chunks under 2 names, 2 downloads or deletes, 1 failed write or crash | 3 742 122 (symmetry) | DownloadsAreWhole, HashOfFile, ScannedIsSaved, DeleteLeavesNothing |
| accounts | 4 calls, 2 names, 2 passwords, 1 device id, 1 fault of any kind | 506 829 (symmetry) | RefusalsAreTrue, DeviceKept, PasswordOpens |
| range_served | every header over -1..6, files of 0..5 bytes, a reader that seeks, fails to or cannot, buffer of 2, 1 failed read or write | 64 040 | RangeIsAsked, SentIsRange, Completes |
| lyric_concurrent | 4 calls, 2 keys, a type the enum does not have, 1 fault of any kind | 45 266 | StoreSpec |
| shutdown_calls | 2 calls, 2 streams, 2 uploads, the set-up, Serve and the REST server may fail | 8 253 | CallsFinish, ShutdownEnds |
| sync_pull_skips | 2 racing pushes of 1 change | violated | NoLostChange |

Why the bounds are enough to show something. The races are between two statements of
one call and one statement of another, so two calls reach each of them, and a third
(playlists, lyrics, devices) the ones that need a delete between. A device call needs a
Register before it: four calls are two accounts with one device call each, or one that
registers, loses the answer and tries again. Three clients are two that cross on a song
and one that asks for its file afterwards. Batches of two changes are
the smallest in which a batch can conflict with, or order, itself. Two devices, pages
of two and batches of two give partial pages and devices at different cursors. A
buffer of one is full after one message. Three streams are
an old one of a device, the one that takes its place, and one that opens after both, or
is another device's. Positions up to 19 with steps of 10 reach the cap of AddSong with a
second song, and the wrap of ReorderSongs with the third id; two songs and three ids are
the least in which a song is named before and after another. Files of two chunks can be cut or mixed; buffers of two bytes make a file of
five take three reads. One fault at a time is what the code is written against; a
retry or another call follows it in the same behaviour. Each property has a mutant of
the code, a plausible slip, under which its run finds it violated.

`CHECK_DEADLOCK FALSE` stands where requests are used up and the system is at rest.

### Fairness

- *SyncService*: a call that has arrived takes its next step (a goroutine runs; no
  statement waits for another call), and a device that is behind pulls again and is
  sent something. Arrivals, retries, acks, crashes are not fair. The devices' fairness
  is an assumption on clients that `EveryChangeArrives` and `FeedSpec` need.
- *Notifier*: a notifier goes on (weak). No stream need ever read or end, so
  `NotifyEnds` does not rest on clients.
- *ServerShutdown*: main and its goroutines go on, and ordinary calls end.
  `ClientsLeaveSpec` adds that clients of streams leave in the end, which nothing in the
  server sees to: `ShutdownEnds` holds under that assumption and not without it.

## 4. Proofs

Checked by TLAPS for every value of the constants, from the named assumptions in the
modules: bounds are naturals, page and buffer sizes are positive, fault kinds are the
ones the actions know, `None` is no call, stream, request or answer, an order has
finitely many songs to name, uploads are not downloads or deletes. No theorem assumes
anything of the number of calls, devices or faults. Where a theorem is about calls
that come one at a time, that is an assumption in its statement (`~ Concurrent`,
`"read" \notin Faults`), or a history in the property (`tidy`, `apart`).

Each property has an invariant it needs; the same invariants, checked by TLC on the
instances of section 3 first, showed what had to be strengthened.

**SyncProofs**, for pushes that race, fail and are tried again:

- `TypeCorrect`: TypeOK, a call that works on a change is inside its batch (`InBatch`),
  and versions in hand are bounded by the table (`VersionsBounded`), without which the
  maximum of a query need not exist.
- `VersionsHaveNoGaps`: the same has to be said of versions that were read and not yet
  inserted (`PendingHasNoGaps`).
- `VersionsAreNotSkipped`: a page takes the lowest versions above the cursor, and there is
  a row of every version, so the rows a device was sent leave no number out. What a racing
  push may log behind a cursor has a number the device was sent another row of.
- `ReportedConflictsAreGenuine`: a change is judged before any change of its call is
  logged, and one in conflict is skipped (`JudgedInOrder`, `RowsInOrder`), so a conflict
  is never with the call's own row.
- `PushesStayInOrder`: the version in hand is above those of the call's rows
  (`PendingIsNewest`): queries that work read a table that holds them.
- `RetriesLogOnce`: of the attempts at a batch one at most is running (`Attempts`); a row
  is newer than the base of its change (`RowsAreNewer`, from `BasesKnown`), so whatever
  an earlier attempt logged is a conflict for the running one (`EarlierIsConflict`).
- `DistinctBatchesAreAnswered`: the changes a call is past were each counted or skipped
  for a conflict (`Counted`), an argument about cardinalities.
- `PulledActionsAreUnspecified`: see section 5.

for pushes that come one at a time, with working queries:

- `SerialVersionsAreDense`: one call runs at most, and the version it holds is the length
  of the table plus one.
- `SerialAcksReachBack`: rows are logged behind all others, so an ack by version is an ack
  of the first rows.
- `SerialPullsLoseNothing`, `SerialImplementsFeed`: what a device
  has received is exactly the rows up to its cursor (`ReceivedPrefix`); a page of a dense
  table is an interval, which is the heart of the refinement.
- `SerialUpdatesAreKept`: what others wrote for the entity of a judged change, the change
  was based on or conflicts with (`NewerIsConflict`).

and for the server with its notifier:

- `NotifiedChangesCanBePulled`: messages in hand, in buffers and with clients are of rows,
  and so is the change a push is about to notify of (`ServerInv`).

**NotifierProofs.** `NoChannelIsAbandoned`, `UnsubscribingStops` and
`LiveStreamsStayRegistered` rest on `MapInv`: what a notifier has still to offer to is
registered, because the map does not change under its read lock, and a channel serves
one device. `NoNotificationTwice` rests on `CopyInv`: what a notifier has still to
offer to a channel is nowhere with the device yet (`Fresh`), two notifiers carry
different messages, and the places of one device's streams hold different messages
(`Apart`), from which the cardinality follows.

**PlaylistProofs.** `TypeCorrect` is where the cap of AddSong and the conversion of
ReorderSongs show: no position leaves the 32 bits, however long a request is. `SongsAreOnce` and `TheLockIsLetGo` are proved together: the table stands
still while a draft of it exists, so a commit cannot undo the unique index.
`SongsHaveTheirPlaylist`, for calls one at a time, from what such a call may assume of its
playlist (`Alone`). `ReordersComeWhole`: the draft is the table with the first songs of
the order moved, each to where the request last named it so far (`DraftFrom`,
`DraftMoved`), with rows known by their ids, which their
AddSong calls never share. `ListsAreKept`: what the query of ListPlaylistSongs answers
changes as a list does. The rows of a playlist have one order (`SortsOne`), since no two
have one position (`Ordered`); what an insert has read is the greatest position still
(`MaxRead`), a reorder has the songs of its playlist still (`OrderFits`), and its draft
has every row (`DraftHas`). `tidy` is what it needs of positions: AddSong
caps them at math.MaxInt32 and then gives the last one again, and ReorderSongs wraps, and
songs that share a position are listed in an order nobody chose.

**SongTableProofs.** UpdateFromScan decides by the row it has read and writes to the row
that is there by then, so the invariant says what may have become of that row
(`SeenIsThere`): a column that was seen with a value still has one, and one that was
seen empty and is not any more was filled by an upload that had read the row too, so
that the song is in `crossed` (`BothReadIsCrossed`). That in turn needs that songs do
not disappear under an upload (`TargetsExist`) and that only a client that is done has
a tag in the table (`WritersAreDone`), or its tags could still change. From it:
`TagsLand`, `ValuesStay` (an action property), and `PresetsAreNeverFilled`.
`FilesHaveOneSong` is about clients that come one at a time (`TidyInv`): each works on a
song of its own file (`OwnSong`), and publishes only a file no song has (`Unknown`).

**SongFilesProofs.** `ScannedUploadsAreSaved`: a file is only written by uploads that
opened it, so that of an upload in flight that shares it with none holds just what the
upload has written (`Unmixed`), which at its end is all of it; downloads, deletes and other
uploads do not touch it. The others rest on `Solo`: an upload that overlaps nothing is the only request in flight,
and every step then is its own or a crash. `DeletedSongsAreGone`: the directory stays
away from its removal to the removal of the cover. `DownloadsAreSound`: a file that a
download could open is one upload, whole or in the making, and the upload a download
has opened changes no more. `TheHashIsOfTheFile`: as long as uploads had one name, the
directory has one entry and it leads to the file of the record.

**RangeRequestProofs.** `IInv` is TypeOK, where the reader stands (`Aligned`), where each
byte sent came from (`SentInPlace`, counted from `Origin`) and how a response that ended came to end
(`Finished`). From it: `SentIsTheRange`, `RangeIsTheOneAsked`, `ResponsesComplete`.

**LyricTableProofs.** `OneLyricEach` and `ImplementsStore`. The mapping reads a key's
content off its row, so it needs one row per key; and an update by id is an update of
the call's own key only because a row found is of that key and no other row ever gets
its id (`IdsAreCalls`, `FoundIsOfKey`).

**ServerProofs.** Of Account: rows are what their calls asked for (`RowsAsked`), and the
columns are unique (`Unique`), so the query of Login finds the one account there is
(`AccountsOpen`). `DevicesAreKept`: only a removal its user asked for takes a device away.
`RefusalsAreSo`: accounts stay; and a Register that races no other of its name still
finds the name free when it inserts (`NameStaysFree`), so that it can only be refused
with the code of a taken name. Of ServerShutdown: `CallsAreFinished`, from: a gRPC
server that is down, listens only or has stopped has no handler in flight, and main
leaves Serve only after it has stopped, unless Serve has failed.

**Only model-checked.** Every safety property of the runs is proved. Liveness under
fairness stays with TLC, since the prover has no rules for it: `EveryChangeArrives`,
`NotifyEnds`, `ShutdownEnds`, and the fairness that `FeedSpec` includes, whose safety
part is `SerialImplementsFeed`.

## 5. Where code and its documents part

`sync_pull_skips`: two concurrent pushes may log one version twice, and a device that
has pulled the first row never gets the second.

Others that the models show, when a constant of a configuration is changed or a history
is left out of a property:

- `SyncSerial.cfg` with `Concurrent = TRUE`: DenseVersions, NoLostUpdate and NoLostChange
  fail. Two pushes that change one entity from one base are both accepted.
- AckChanges marks every row up to the version in the request, whichever device sends it
  and whatever it was sent: `acked` does not say that a device has a change.
- A failed Seek of a ranged download is ignored, and the start of the file is sent under
  the headers of the range (`seek = "fails"` in RangeRequest).
- `Playlist.cfg` with `tidy` left out of ListSpec or NoOrphans: two songs that are added
  at once get one position, a failed query of the greatest position gives a song the
  position of another, and a song added between the two statements of DeletePlaylist
  stays without its playlist.
- `SongFiles.cfg` with `apart` left out of DownloadsAreWhole: a download that overlaps an
  upload ends with success and has bytes of two uploads, or part of one. An upload that
  fails halfway leaves its part under the name, and later downloads serve it. With
  uploads under two names `HashOfFile` does not hold, and is therefore stated for one
  name: GetAudio returns the first entry of the directory, whichever is in the record.
- `SongTable.cfg` with `tidy` left out of OneSongPerFile: two clients that ask at once
  both publish; a scan that fails, for one over-long tag say, leaves the song without
  its hash. With `crossed` left out of FilledStays: one upload replaces what another
  had just filled in.
- The disc number of a file never gets to the table: ent inserts the column as 1
  (`schema/song.go`), and UpdateFromScan fills in only what is 0
  (`PresetsAreNeverFilled`).
- `Account.cfg` with `apart` left out of RefusalsAreTrue: of two Registers of one name
  that race, the second is told InvalidArgument, the unique column's error, where
  `tests/e2e/smoke_test.go:149` expects AlreadyExists of a name that is taken. A
  password of more than 72 bytes passes ValidatePassword, which allows 128, and is
  refused by bcrypt; a device name that is too long is answered with AlreadyExists.
- When Serve fails, os.Exit ends the calls that run, and the database is not closed.
- `ShutdownCalls.cfg` with `FairSpec`: a stream whose client stays keeps the server from
  ending, as GracefulStop has no deadline. Uploads may be cut off: main does not wait
  for the REST server's Shutdown.
- The action of a change is stored under the name of its enum value and looked up under
  another, so every device is sent ACTION_UNSPECIFIED. This one is proved for every
  value (`PulledActionsAreUnspecified`).
- A change can be left out and not reported: shouldSkip goes by entity_id, so that a
  change of another entity type, or of the same entity later in the batch, goes with
  the one in conflict. `DistinctBatchesAnswered` says exactly when this cannot happen.
- A stream is cut off from its notifications when an earlier stream of its device ends
  after it began; `LiveStreamRegistered` says that nothing else does this.

## 6. Not modelled

- *Configuration*: `pkg/config` reads settings once; main reads its own from viper.
- *Tag parsing* (`pkg/metadata`): a library reads one file; what it finds is an input of
  SongTable and SongFiles.
- *Conversions* between entity and protobuf types: field by field, without state. The
  one that changes what a client sees, that of the action of a change, is modelled.
- *Queries*: search, list and single-row reads change nothing and are one statement.
  (ListSongs ignores its page token, and no operation updates `song_count`.)
- *The cover's ETag*: it is made of the song's id, so a client that has a cover is told
  304 after another was uploaded. No state decides it, so there is nothing to check.
- *S3*: its constructor returns an error, which is in ServerShutdown; its methods are
  never reached.
- *Generated code*: nine tenths of the code under `src/` that is not a test are ent's
  builders, mutations, predicates and clients, and protobuf's messages. What one statement does to
  a row (defaults, validators, unique columns, the columns it sets) is modelled where a
  service uses it, in SongTable and Account from the builders themselves. The rest has
  no state of the program, which is why the share of lines the map covers is small.
- *Cryptography*: a token is the account it was signed for, a hash matches its password.

## 7. Plan

Done: the models of every component that keeps state, the runs, and proofs of every
safety property they check.

Next: the refinement of the feed for pushes that race, with the rows a device can miss
taken out of it, so that `FeedSpec` says what is left of the promise when calls are
concurrent; a theorem for pages that fail in between.
