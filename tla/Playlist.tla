------------------------------ MODULE Playlist ------------------------------
(***************************************************************************)
(* The playlist service of EchoVault: src/internal/service/playlist.       *)
(*                                                                         *)
(* A playlist is a row of the playlists table; its songs are rows of the   *)
(* playlist_songs table, listed by their position.  AddSong asks whether   *)
(* the song is there, reads the greatest position and inserts a row, in    *)
(* three statements; DeletePlaylist deletes the songs and the playlist in  *)
(* two; ReorderSongs checks the song ids in one statement and then writes  *)
(* the positions in a transaction.  Calls run in goroutines of their own,  *)
(* so that the statements of several calls interleave.                     *)
(*                                                                         *)
(* The database is SQLite in WAL mode: a query sees what is committed; one *)
(* writer at a time, and a transaction is the writer from its first write. *)
(***************************************************************************)
EXTENDS Integers, SequencesExt

CONSTANTS
    Calls,          \* calls of several statements, and of UpdatePlaylist
    Playlists,      \* playlist ids
    Songs,          \* song ids
    PositionStep,   \* positionStep
    MaxPosition,    \* math.MaxInt32
    MaxOrder,       \* bound: song ids in one ReorderSongs request
    Faults,         \* what may go wrong: "read", "write", "crash"
    MaxFaults,      \* bound: faults in one behaviour
    None            \* no call, playlist or song

ASSUME PositionAssumption ==
    /\ IsFiniteSet(Songs)
    /\ PositionStep \in Nat \ {0}
    /\ MaxPosition \in Nat
    /\ MaxOrder \in Nat
ASSUME FaultsAssumption == Faults \subseteq {"read", "write", "crash"}
ASSUME MaxFaultsAssumption == MaxFaults \in Nat
ASSUME NoneAssumption == None \notin Calls \cup Playlists \cup Songs

VARIABLES
    playlists,  \* the playlists table
    deleted,    \* the ids of playlists that were deleted
    rows,       \* the playlist_songs table
    writer,     \* the call whose transaction has written, or None
    draft,      \* the playlist_songs table as that transaction sees it
    pc,         \* where each call is
    list,       \* the playlist of each call
    song,       \* the song of an AddSong call
    maxPos,     \* the greatest position it read
    order,      \* the songs of a ReorderSongs call
    next,       \* the song it moves next
    tidy,       \* history: calls came one at a time, with the ids they were shown, the
                \* positions they needed fit in 32 bits, and the queries AddSong ignores
                \* the errors of did not fail
    faults      \* faults so far

tables == <<playlists, deleted, rows>>
transaction == <<writer, draft>>
request == <<list, song, order>>
vars == <<tables, transaction, pc, request, maxPos, next, tidy, faults>>

Running == {"check", "max", "insert", "fetch", "move", "commit", "clear", "drop"}
Ended == {"done", "failed"}

\* The values of the position column, an int32.
Positions == -(MaxPosition + 1) .. MaxPosition

\* Mutant: as if the column were as wide as the int of the code.
ToInt(n) == n

\* int32(n): the conversion wraps.
ToInt32(n) == ((n + MaxPosition + 1) % (2 * (MaxPosition + 1))) - (MaxPosition + 1)

Row == [id : Calls, playlist : Playlists, song : Songs, position : Positions]

RowsOf(p) == {r \in rows : r.playlist = p}
SongsOf(p) == {r.song : r \in RowsOf(p)}

TypeOK ==
    /\ playlists \subseteq Playlists
    /\ deleted \subseteq Playlists \ playlists
    /\ rows \subseteq Row
    /\ writer \in Calls \cup {None}
    /\ draft \subseteq Row
    /\ pc \in [Calls -> {"idle"} \cup Running \cup Ended]
    /\ list \in [Calls -> Playlists \cup {None}]
    /\ song \in [Calls -> Songs \cup {None}]
    /\ maxPos \in [Calls -> Positions]
    /\ order \in [Calls -> Seq(Songs)]
    /\ next \in [Calls -> Nat \ {0}]
    /\ tidy \in BOOLEAN
    /\ faults \in Nat

Init ==
    /\ playlists = {}
    /\ deleted = {}
    /\ rows = {}
    /\ writer = None
    /\ draft = {}
    /\ pc = [c \in Calls |-> "idle"]
    /\ list = [c \in Calls |-> None]
    /\ song = [c \in Calls |-> None]
    /\ maxPos = [c \in Calls |-> 0]
    /\ order = [c \in Calls |-> <<>>]
    /\ next = [c \in Calls |-> 1]
    /\ tidy = TRUE
    /\ faults = 0

Fault(kind) == kind \in Faults /\ faults < MaxFaults /\ faults' = faults + 1

\* A statement that writes waits for a transaction that has written.
MayWrite == writer = None

Goto(c, step) == pc' = [pc EXCEPT ![c] = step]

Quiet == \A c \in Calls : pc[c] \notin Running

\* A call that arrives; asTold: its ids are what the client was last shown.
Arrives(c, asTold) ==
    /\ pc[c] = "idle"
    /\ tidy' = (tidy /\ Quiet /\ asTold)

-----------------------------------------------------------------------------
(* Operations of one statement. *)

CreatePlaylist(p) ==
    /\ p \notin playlists \cup deleted
    /\ MayWrite
    /\ playlists' = playlists \cup {p}
    /\ UNCHANGED <<deleted, rows, transaction, pc, request, maxPos, next, tidy, faults>>

\* DELETE ... WHERE playlist_id = p AND song_id = s; an error when it finds none.
RemoveSong(p, s) ==
    /\ s \in SongsOf(p)
    /\ MayWrite
    /\ rows' = {r \in rows : ~ (r.playlist = p /\ r.song = s)}
    /\ tidy' = (tidy /\ Quiet)
    /\ UNCHANGED <<playlists, deleted, transaction, pc, request, maxPos, next, faults>>

\* UPDATE of the name and the description, which are not modelled; an error when
\* there is no such playlist.
UpdatePlaylist(c, p) ==
    /\ Arrives(c, p \in playlists)
    /\ p \in playlists \cup deleted
    /\ MayWrite
    /\ list' = [list EXCEPT ![c] = p]
    /\ Goto(c, IF p \in playlists THEN "done" ELSE "failed")
    /\ UNCHANGED <<tables, transaction, song, order, maxPos, next, faults>>

-----------------------------------------------------------------------------
(* AddSong. *)

AddSong(c, p, s) ==
    /\ Arrives(c, p \in playlists)
    /\ p \in playlists \cup deleted
    /\ list' = [list EXCEPT ![c] = p]
    /\ song' = [song EXCEPT ![c] = s]
    /\ Goto(c, "check")
    /\ UNCHANGED <<tables, transaction, order, maxPos, next, faults>>

CheckExists(c) ==
    /\ pc[c] = "check"
    /\ Goto(c, IF song[c] \in SongsOf(list[c]) THEN "failed" ELSE "max")
    /\ UNCHANGED <<tables, transaction, request, maxPos, next, tidy, faults>>

\* The error of Exist is ignored: a query that fails answers false.
CheckBlind(c) ==
    /\ pc[c] = "check"
    /\ Fault("read")
    /\ tidy' = FALSE
    /\ Goto(c, "max")
    /\ UNCHANGED <<tables, transaction, request, maxPos, next>>

\* The aggregate Max; below 0 when a reorder wrapped all the positions.
LastPosition(p) == Max({r.position : r \in RowsOf(p)})

ReadMax(c) ==
    /\ pc[c] = "max"
    /\ maxPos' = [maxPos EXCEPT ![c] = IF RowsOf(list[c]) = {} THEN 0 ELSE LastPosition(list[c])]
    /\ Goto(c, "insert")
    /\ UNCHANGED <<tables, transaction, request, next, tidy, faults>>

\* Every error of the query is taken for an empty playlist.
ReadMaxBlind(c) ==
    /\ pc[c] = "max"
    /\ Fault("read")
    /\ tidy' = FALSE
    /\ maxPos' = [maxPos EXCEPT ![c] = 0]
    /\ Goto(c, "insert")
    /\ UNCHANGED <<tables, transaction, request, next>>

\* Mutant: by the number of songs.
NewPositionByCount(c) == Cardinality(RowsOf(list[c])) * PositionStep

NewPosition(c) == Min({maxPos[c] + PositionStep, MaxPosition})

\* Mutant: no unique index.
IndexedNot(c) == TRUE

\* The unique index on playlist_id and song_id lets the row in.
Indexed(c) == song[c] \notin SongsOf(list[c])

InsertSong(c) ==
    /\ pc[c] = "insert"
    /\ MayWrite
    /\ Indexed(c)
    /\ rows' = rows \cup {[id |-> c, playlist |-> list[c], song |-> song[c],
                           position |-> NewPosition(c)]}
    /\ tidy' = (tidy /\ maxPos[c] < MaxPosition)
    /\ Goto(c, "done")
    /\ UNCHANGED <<playlists, deleted, transaction, request, maxPos, next, faults>>

InsertRejected(c) ==
    /\ pc[c] = "insert"
    /\ ~ Indexed(c)
    /\ Goto(c, "failed")
    /\ UNCHANGED <<tables, transaction, request, maxPos, next, tidy, faults>>

-----------------------------------------------------------------------------
(* ReorderSongs. *)

\* Every song of the playlist once, at positions that fit.
Permutes(o, p) ==
    /\ o \in SetToSeqs(SongsOf(p))
    /\ Len(o) = 0 \/ (Len(o) - 1) * PositionStep <= MaxPosition

ReorderSongs(c, p, o) ==
    /\ Arrives(c, Permutes(o, p))
    /\ p \in playlists
    /\ list' = [list EXCEPT ![c] = p]
    /\ order' = [order EXCEPT ![c] = o]
    /\ Goto(c, "fetch")
    /\ UNCHANGED <<tables, transaction, song, maxPos, next, faults>>

\* The step after song i of the order was moved, or after the check (i = 0).
AfterSong(c, i) == IF i = Len(order[c]) THEN "commit" ELSE "move"

\* Every song of the order must be in the playlist when the call looks.
FetchSongs(c) ==
    /\ pc[c] = "fetch"
    /\ Goto(c, IF ToSet(order[c]) \subseteq SongsOf(list[c])
                 THEN AfterSong(c, 0) ELSE "failed")
    /\ UNCHANGED <<tables, transaction, request, maxPos, next, tidy, faults>>

\* The position that song i of an order is given.
Place(i) == ToInt32((i - 1) * PositionStep)

\* The playlist_songs table after UPDATE ... SET position for the next song.
Moved(c, table) ==
    {IF r.playlist = list[c] /\ r.song = order[c][next[c]]
       THEN [r EXCEPT !.position = Place(next[c])] ELSE r : r \in table}

\* Mutant: the positions are written outside of the transaction.
MoveSongDirectly(c) ==
    /\ pc[c] = "move"
    /\ MayWrite
    /\ rows' = Moved(c, rows)
    /\ next' = [next EXCEPT ![c] = @ + 1]
    /\ Goto(c, AfterSong(c, next[c]))
    /\ UNCHANGED <<playlists, deleted, transaction, request, maxPos, tidy, faults>>

\* The first update makes the call the writer.
MoveSong(c) ==
    /\ pc[c] = "move"
    /\ writer \in {None, c}
    /\ writer' = c
    /\ draft' = Moved(c, IF writer = c THEN draft ELSE rows)
    /\ next' = [next EXCEPT ![c] = @ + 1]
    /\ Goto(c, AfterSong(c, next[c]))
    /\ UNCHANGED <<tables, request, maxPos, tidy, faults>>

EndTransaction(c) ==
    /\ writer' = IF writer = c THEN None ELSE writer
    /\ draft' = IF writer = c THEN {} ELSE draft

Commit(c) ==
    /\ pc[c] = "commit"
    /\ rows' = IF writer = c THEN draft ELSE rows
    /\ EndTransaction(c)
    /\ Goto(c, "done")
    /\ UNCHANGED <<playlists, deleted, request, maxPos, next, tidy, faults>>

\* Mutant: no rollback.
RollbackNot(c) ==
    /\ pc[c] \in {"move", "commit"}
    /\ Fault("write")
    /\ Goto(c, "failed")
    /\ UNCHANGED <<tables, transaction, request, maxPos, next, tidy>>

\* An update or the commit fails: the deferred function rolls back.
Rollback(c) ==
    /\ pc[c] \in {"move", "commit"}
    /\ Fault("write")
    /\ EndTransaction(c)
    /\ Goto(c, "failed")
    /\ UNCHANGED <<tables, request, maxPos, next, tidy>>

-----------------------------------------------------------------------------
(* DeletePlaylist. *)

DeletePlaylist(c, p) ==
    /\ Arrives(c, TRUE)
    /\ p \in playlists
    /\ list' = [list EXCEPT ![c] = p]
    /\ Goto(c, "clear")
    /\ UNCHANGED <<tables, transaction, song, order, maxPos, next, faults>>

\* Mutant: the playlist goes before its songs.
DeletePlaylistFirst(c) ==
    /\ pc[c] = "clear"
    /\ MayWrite
    /\ playlists' = playlists \ {list[c]}
    /\ deleted' = deleted \cup {list[c]}
    /\ Goto(c, "drop")
    /\ UNCHANGED <<rows, transaction, request, maxPos, next, tidy, faults>>

DeleteSongs(c) ==
    /\ pc[c] = "clear"
    /\ MayWrite
    /\ rows' = rows \ RowsOf(list[c])
    /\ Goto(c, "drop")
    /\ UNCHANGED <<playlists, deleted, transaction, request, maxPos, next, tidy, faults>>

\* DeleteOneID is an error when another call has deleted the playlist.
DropPlaylist(c) ==
    /\ pc[c] = "drop"
    /\ MayWrite
    /\ playlists' = playlists \ {list[c]}
    /\ deleted' = deleted \cup {list[c]}
    /\ Goto(c, IF list[c] \in playlists THEN "done" ELSE "failed")
    /\ UNCHANGED <<rows, transaction, request, maxPos, next, tidy, faults>>

-----------------------------------------------------------------------------
(* Failures. *)

\* The query of ReorderSongs fails; an insert or a delete fails, or gives up the
\* wait for the writer (_busy_timeout).  The call returns the error.
StatementFails(c) ==
    /\ \/ pc[c] = "fetch" /\ Fault("read")
       \/ pc[c] \in {"insert", "clear", "drop"} /\ Fault("write")
    /\ Goto(c, "failed")
    /\ UNCHANGED <<tables, transaction, request, maxPos, next, tidy>>

\* The process dies: what is not committed is gone.
Crash ==
    /\ Fault("crash")
    /\ pc' = [c \in Calls |-> IF pc[c] \in Running THEN "failed" ELSE pc[c]]
    /\ writer' = None
    /\ draft' = {}
    /\ UNCHANGED <<tables, request, maxPos, next, tidy>>

-----------------------------------------------------------------------------

Step(c) ==
    \/ CheckExists(c) \/ CheckBlind(c) \/ ReadMax(c) \/ ReadMaxBlind(c)
    \/ InsertSong(c) \/ InsertRejected(c)
    \/ FetchSongs(c) \/ MoveSong(c) \/ Commit(c) \/ Rollback(c)
    \/ DeleteSongs(c) \/ DropPlaylist(c)
    \/ StatementFails(c)

\* The orders a client sends: any song ids, some left out or named more than once.
Orders == SeqOf(Songs, MaxOrder)

Next ==
    \/ \E p \in Playlists : CreatePlaylist(p)
    \/ \E p \in Playlists, s \in Songs : RemoveSong(p, s)
    \/ \E c \in Calls, p \in Playlists :
        \/ \E s \in Songs : AddSong(c, p, s)
        \/ \E o \in Orders : ReorderSongs(c, p, o)
        \/ UpdatePlaylist(c, p) \/ DeletePlaylist(c, p)
    \/ \E c \in Calls : Step(c)
    \/ Crash

Spec == Init /\ [][Next]_vars

-----------------------------------------------------------------------------
(* What holds however calls interleave and whatever fails. *)

\* A song is in a playlist once, though two AddSong calls both found it missing.
SongOnce ==
    \A r, t \in rows : r.playlist = t.playlist /\ r.song = t.song => r = t

\* Where a request last names a song.
LastMention(o, s) == Max({i \in DOMAIN o : o[i] = s})

\* A step that moves songs puts every song of one request where the request last
\* names it: no reader sees a half-done reorder, and reorders that race do not mix.
ReordersAreWhole ==
    [][\A r \in rows, t \in rows' :
        r.id = t.id /\ r.position # t.position =>
            \E c \in Calls :
                /\ list[c] = r.playlist
                /\ Contains(order[c], r.song)
                /\ \A u \in rows' :
                    u.playlist = list[c] /\ Contains(order[c], u.song) =>
                        u.position = Place(LastMention(order[c], u.song))]_vars

\* The write lock is held by a call that is on its way to Commit or Rollback, so
\* that no call waits for ever, whatever failed (the deferred function).
LockIsLetGo == writer # None => pc[writer] \in {"move", "commit"}

-----------------------------------------------------------------------------
(* What holds while the history is tidy, writes fail and the process dies. *)

\* A song that is listed has its playlist: a call that stops halfway leaves a
\* playlist without songs, never songs without a playlist (DeletePlaylist).
NoOrphans == tidy => \A r \in rows : r.playlist \in playlists

\* The rows in the order of their positions.
ByPosition(S) ==
    CHOOSE q \in SetToSeqs(S) : \A i, j \in DOMAIN q : i < j => q[i].position <= q[j].position

\* The songs of a playlist in the order of ListPlaylistSongs.
Listed(p) == LET q == ByPosition(RowsOf(p)) IN [i \in DOMAIN q |-> q[i].song]

\* The orders of the ReorderSongs calls that have not been answered.
Asks(c) == pc[c] \in {"fetch", "move", "commit"}
Asked(p) == {order[c] : c \in {d \in Calls : list[d] = p /\ Asks(d)}}

\* A playlist is a list of songs: an added song comes last, a removed one leaves
\* the rest as it was, and a reorder gives the order that was asked for, or nothing.
Lists == [p \in Playlists |-> Listed(p)]
Askeds == [p \in Playlists |-> Asked(p)]
List == INSTANCE SongList WITH list <- Lists, asked <- Askeds

ListSpec == List!Init /\ [][tidy' => List!Step]_vars
=============================================================================
