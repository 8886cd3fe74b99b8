-------------------------- MODULE SongTableProofs --------------------------
(***************************************************************************)
(* The properties of SongTable for any clients, files, columns and tags.   *)
(*                                                                         *)
(* UpdateFromScan decides by the row it has read and writes to the row     *)
(* that is there by then.  What makes that right is what the row may have  *)
(* become in between: a column that was seen with a value has one still,   *)
(* and a column that was seen empty and is not any more was filled by an   *)
(* upload that had read the row before too, so that the two have crossed.  *)
(***************************************************************************)
EXTENDS SongTable, TLAPS

\* A client past its check or its choice uploads to a song that is there.
TargetsExist ==
    \A c \in Clients :
        /\ pc[c] \in {"upload", "read", "save", "done"} => target[c] \in DOMAIN songs
        /\ pc[c] \in {"idle", "check", "publish", "upload"} => target[c] = c
        /\ pc[c] \in {"idle", "check", "publish"} => c \notin DOMAIN songs

\* A tag is in the table only after the scan of its client has ended.
WritersAreDone ==
    \A s \in DOMAIN songs, f \in Columns :
        songs[s].columns[f] \in Clients => pc[songs[s].columns[f]] = "done"

\* What became of the row a client has read.
SeenIsThere ==
    \A c \in Clients, f \in Columns : pc[c] = "save" =>
        LET v == songs[target[c]].columns[f]
        IN  /\ was[c][f] # None => v # None
            /\ was[c][f] = None /\ v # None => v \in Clients /\ target[c] \in crossed

\* Two uploads that have both read a song have crossed.
BothReadIsCrossed ==
    \A c, o \in Clients :
        c # o /\ pc[c] = "save" /\ pc[o] = "save" /\ target[c] = target[o]
            => target[c] \in crossed

\* A preset column has its default, in the table and in what was read of it.
PresetStays ==
    /\ \A s \in DOMAIN songs, f \in Preset : songs[s].columns[f] = Default
    /\ \A c \in Clients, f \in Preset : pc[c] = "save" => was[c][f] = Default

IInv ==
    /\ TypeOK /\ TargetsExist /\ WritersAreDone /\ SeenIsThere
    /\ BothReadIsCrossed /\ PresetStays /\ EveryTagLands

\* IInv holds when the table is empty.
LEMMA IInvInit == Init => IInv
BY ValuesAssumption
   DEF Init, IInv, TypeOK, TargetsExist, WritersAreDone, SeenIsThere,
       BothReadIsCrossed, PresetStays, EveryTagLands, Values, Running, Ended

\* The row PublishSong makes is one of the table, with ent's defaults.
LEMMA NewSongIsRow ==
    ASSUME NEW given \in SUBSET Given, NEW h \in Hashes \cup {None}
    PROVE  /\ NewSong(given, h) \in Row
           /\ \A f \in Columns : NewSong(given, h).columns[f] \notin Clients
           /\ \A f \in Preset : NewSong(given, h).columns[f] = Default
BY ValuesAssumption, ColumnsAssumption DEF NewSong, Defaults, Row, Values

\* The row an update leaves: of each column the value it had, or the tag of the file,
\* where the column was read empty and the tag fits.
LEMMA UpdatedIsRow ==
    ASSUME TypeOK, NEW c \in Clients, target[c] \in DOMAIN songs, UpdateFits(c)
    PROVE  /\ Updated(c) \in Row
           /\ Updated(c).hash = hash[c]
           /\ \A f \in Columns :
                IF was[c][f] = None /\ tags[c][f] # "none"
                  THEN Updated(c).columns[f] = c /\ tags[c][f] = "fits"
                  ELSE Updated(c).columns[f] = songs[target[c]].columns[f]
<1>1. songs[target[c]] \in Row /\ hash[c] \in Hashes \cup {None}
    BY DEF TypeOK
<1>2. /\ Updated(c).hash = hash[c]
      /\ \A f \in Columns : Updated(c).columns[f] =
            IF f \in Fills(c) THEN c ELSE songs[target[c]].columns[f]
    BY DEF Updated
<1>3. Updated(c) \in Row
    BY <1>1 DEF Updated, Row, Values
<1>4. \A f \in Columns : f \in Fills(c) <=> was[c][f] = None /\ tags[c][f] # "none"
    BY DEF Fills
<1>5. \A f \in Columns : f \in Fills(c) => tags[c][f] = "fits"
  <2>1. tags[c] \in Tags \cup {NoTags}
      BY DEF TypeOK
  <2>2. \A f \in NumberColumns : tags[c][f] # "none" => tags[c][f] = "fits"
      BY <2>1, TagsAssumption DEF NoTags, Columns
  <2>. QED  BY <2>2, <1>4 DEF UpdateFits, Columns
<1>. QED  BY <1>2, <1>3, <1>4, <1>5

\* Every step keeps IInv.
LEMMA IInvNext == IInv /\ [Next]_vars => IInv'
<1> SUFFICES ASSUME IInv, [Next]_vars
             PROVE  IInv'
    OBVIOUS
<1> USE DEF IInv, TargetsExist, WritersAreDone, SeenIsThere, BothReadIsCrossed,
           PresetStays, EveryTagLands, Goto, file, history
<1>1. ASSUME NEW c \in Clients, NEW h \in Hashes, Begin(c, h)
      PROVE  IInv'
    BY <1>1 DEF Begin, TypeOK, Fits, Running, Ended
<1>2. ASSUME NEW c \in Clients, NEW s \in Clients, NEW h \in Hashes, NEW t \in Tags,
             UploadTo(c, s, h, t)
      PROVE  IInv'
  <2>1. /\ UNCHANGED <<songs, was, crossed>>
        /\ pc[c] = "idle" /\ s \in DOMAIN songs
        /\ pc' = [pc EXCEPT ![c] = "read"]
        /\ target' = [target EXCEPT ![c] = s]
        /\ tags' = [tags EXCEPT ![c] = t]
      BY <1>2 DEF UploadTo
  <2>2. TypeOK'
    <3>1. \A r \in DOMAIN songs, f \in Columns : songs[r].columns[f] # c
        BY <2>1
    <3>2. \A r \in DOMAIN songs, f \in Columns : Fits(songs[r].columns[f], f)'
        BY <2>1, <3>1 DEF TypeOK, Fits
    <3>3. pc' \in [Clients -> {"idle"} \cup Running \cup Ended]
        BY <2>1 DEF TypeOK, Running
    <3>4. /\ hash' \in [Clients -> Hashes \cup {None}]
          /\ tags' \in [Clients -> Tags \cup {NoTags}]
          /\ target' \in [Clients -> Clients]
          /\ tidy' \in BOOLEAN /\ faults' = faults
        BY <1>2 DEF UploadTo, TypeOK
    <3>. QED  BY <2>1, <3>2, <3>3, <3>4 DEF TypeOK, Fits
  <2>3. TargetsExist' /\ WritersAreDone'
      BY <2>1 DEF TypeOK
  <2>4. SeenIsThere' /\ BothReadIsCrossed'
      BY <2>1 DEF TypeOK
  <2>5. PresetStays' /\ EveryTagLands'
      BY <2>1 DEF TypeOK
  <2>. QED  BY <2>2, <2>3, <2>4, <2>5
<1>3. ASSUME NEW c \in Clients, CheckSongsByHash(c)
      PROVE  IInv'
    BY <1>3 DEF CheckSongsByHash, TypeOK, Fits, Running, Ended
<1>4. ASSUME NEW c \in Clients, PublishRejected(c)
      PROVE  IInv'
    BY <1>4 DEF PublishRejected, TypeOK, Fits, Running, Ended
<1>5. ASSUME NEW c \in Clients, NEW given \in SUBSET Given,
             NEW h \in {hash[c], None}, PublishSong(c, given, h)
      PROVE  IInv'
  <2>1. /\ pc[c] = "publish" /\ c \notin DOMAIN songs /\ target[c] = c
        /\ DOMAIN songs' = DOMAIN songs \cup {c}
        /\ \A s \in DOMAIN songs : songs'[s] = songs[s]
        /\ songs'[c] = NewSong(given, h)
        /\ pc' = [pc EXCEPT ![c] = "upload"]
        /\ UNCHANGED <<file, target, was, history, faults>>
      BY <1>5 DEF PublishSong
  <2>2. h \in Hashes \cup {None}
      BY DEF TypeOK
  <2>3. /\ songs'[c] \in Row
        /\ \A f \in Columns : songs'[c].columns[f] \notin Clients
        /\ \A f \in Preset : songs'[c].columns[f] = Default
    <3>1. /\ NewSong(given, h) \in Row
          /\ \A f \in Columns : NewSong(given, h).columns[f] \notin Clients
          /\ \A f \in Preset : NewSong(given, h).columns[f] = Default
        BY <2>2, NewSongIsRow
    <3>. QED  BY <2>1, <3>1
  <2>4. songs' \in [DOMAIN songs' -> Row]
      BY <1>5, <2>1, <2>3 DEF PublishSong, TypeOK
  <2>5. TypeOK'
      BY <2>1, <2>3, <2>4 DEF TypeOK, Fits, Running, Ended
  <2>6. TargetsExist' /\ WritersAreDone'
      BY <2>1, <2>3 DEF TypeOK
  <2>7. SeenIsThere' /\ BothReadIsCrossed'
      BY <2>1 DEF TypeOK
  <2>8. PresetStays'
      BY <2>1, <2>3 DEF TypeOK
  <2>9. EveryTagLands'
      BY <2>1 DEF TypeOK
  <2>. QED  BY <2>5, <2>6, <2>7, <2>8, <2>9
<1>6. ASSUME NEW c \in Clients, NumberOverflows(c)
      PROVE  IInv'
    BY <1>6 DEF NumberOverflows, TypeOK, Fits, Running, Ended
<1>7. ASSUME NEW c \in Clients, NEW t \in Tags, Upload(c, t)
      PROVE  IInv'
  <2>1. /\ pc[c] = "upload"
        /\ UNCHANGED <<songs, hash, target, was, crossed>>
        /\ pc' = [pc EXCEPT ![c] = "read"]
        /\ tags' = [tags EXCEPT ![c] = t]
      BY <1>7 DEF Upload
  <2>2. TypeOK'
      BY <1>7, <2>1 DEF Upload, TypeOK, Fits, Running, Ended
  <2>. QED  BY <2>1, <2>2 DEF TypeOK
<1>8. ASSUME NEW c \in Clients, ReadSong(c)
      PROVE  IInv'
  <2>1. /\ pc[c] = "read" /\ target[c] \in DOMAIN songs
        /\ pc' = [pc EXCEPT ![c] = "save"]
        /\ was' = [was EXCEPT ![c] = songs[target[c]].columns]
        /\ UNCHANGED <<songs, file, target, tidy, faults>>
        /\ crossed \subseteq crossed'
        /\ crossed' \subseteq crossed \cup {target[c]}
        /\ \A o \in Clients : pc[o] = "save" /\ target[o] = target[c]
                => target[c] \in crossed'
      BY <1>8 DEF ReadSong
  <2>2. songs[target[c]].columns \in [Columns -> Values]
      BY <2>1 DEF TypeOK, Row
  <2>3. TypeOK'
      BY <2>1, <2>2 DEF TypeOK, Fits, Running, Ended
  <2>4. BothReadIsCrossed'
      BY <2>1 DEF TypeOK
  <2>5. SeenIsThere'
      BY <2>1 DEF TypeOK
  <2>6. PresetStays'
      BY <2>1 DEF TypeOK
  <2>. QED  BY <2>1, <2>3, <2>4, <2>5, <2>6 DEF TypeOK
<1>9. ASSUME NEW c \in Clients, UpdateSong(c)
      PROVE  IInv'
  <2>1. /\ pc[c] = "save" /\ target[c] \in DOMAIN songs /\ UpdateFits(c)
        /\ songs' = [songs EXCEPT ![target[c]] = Updated(c)]
        /\ pc' = [pc EXCEPT ![c] = "done"]
        /\ UNCHANGED <<file, target, was, history, faults>>
      BY <1>9 DEF UpdateSong
  <2>2. /\ DOMAIN songs' = DOMAIN songs
        /\ songs'[target[c]] = Updated(c)
        /\ \A s \in DOMAIN songs : s # target[c] => songs'[s] = songs[s]
      BY <2>1
  <2>3. /\ Updated(c) \in Row
        /\ \A f \in Columns :
             IF was[c][f] = None /\ tags[c][f] # "none"
               THEN Updated(c).columns[f] = c /\ tags[c][f] = "fits"
               ELSE Updated(c).columns[f] = songs[target[c]].columns[f]
      BY <2>1, UpdatedIsRow
  <2>4. songs' \in [DOMAIN songs' -> Row]
      BY <2>1, <2>3 DEF TypeOK
  <2>5. TypeOK'
      BY <2>1, <2>2, <2>3, <2>4 DEF TypeOK, Fits, Running, Ended
  <2>6. TargetsExist' /\ WritersAreDone'
      BY <2>1, <2>2, <2>3 DEF TypeOK
  <2>7. c # None
      BY ValuesAssumption
  <2>8. SeenIsThere'
      BY <2>1, <2>2, <2>3, <2>7 DEF TypeOK
  <2>9. BothReadIsCrossed'
      BY <2>1 DEF TypeOK
  <2>10. PresetStays'
      BY <2>1, <2>2, <2>3, ValuesAssumption, ColumnsAssumption DEF TypeOK
  <2>11. EveryTagLands'
      BY <2>1, <2>2, <2>3, <2>7 DEF TypeOK
  <2>. QED  BY <2>5, <2>6, <2>8, <2>9, <2>10, <2>11
<1>10. ASSUME NEW c \in Clients, UpdateRejected(c)
       PROVE  IInv'
    BY <1>10 DEF UpdateRejected, TypeOK, Fits, Running, Ended
<1>11. ASSUME NEW c \in Clients, StatementFails(c)
       PROVE  IInv'
    BY <1>11 DEF StatementFails, Fault, TypeOK, Fits, Running, Ended
<1>12. CASE Crash
    BY <1>12 DEF Crash, Fault, TypeOK, Fits, Running, Ended
<1>13. CASE UNCHANGED vars
  <2>1. UNCHANGED <<songs, pc, hash, tags, target, was, tidy, crossed, faults>>
      BY <1>13 DEF vars
  <2>2. TypeOK'
      BY <2>1 DEF TypeOK, Fits
  <2>. QED  BY <2>1, <2>2
<1> HIDE DEF IInv, Goto
<1>. QED
    BY <1>1, <1>2, <1>3, <1>4, <1>5, <1>6, <1>7, <1>8, <1>9, <1>10, <1>11,
       <1>12, <1>13 DEF Next, Step

\* IInv is an invariant of the songs table.
THEOREM Invariant == Spec => []IInv
BY IInvInit, IInvNext, PTL DEF Spec

\* Every reachable state is well typed, and no tag in the table is too long for its
\* column, for any clients, files, columns and faults.
THEOREM TypeCorrect == Spec => []TypeOK
BY Invariant, PTL DEF IInv

\* What a scan had a tag for is not empty afterwards, however uploads of one song
\* interleave, fail and crash (UpdateFromScan).
THEOREM TagsLand == Spec => []EveryTagLands
BY Invariant, PTL DEF IInv

\* A column with a value keeps it, except for the tag of one of two uploads that
\* had both read the row (applyMetadataIfEmpty, UpdateFromScan).
THEOREM ValuesStay == Spec => FilledStays
<1>1. ASSUME IInv, [Next]_vars,
             NEW s \in DOMAIN songs, NEW f \in Columns,
             songs[s].columns[f] # None, songs'[s].columns[f] # songs[s].columns[f]
      PROVE  songs[s].columns[f] \in Clients /\ s \in crossed
  <2>1. CASE \E c \in Clients : UpdateSong(c)
    <3>1. PICK c \in Clients : UpdateSong(c)
        BY <2>1
    <3>2. /\ pc[c] = "save" /\ target[c] \in DOMAIN songs /\ UpdateFits(c)
          /\ songs' = [songs EXCEPT ![target[c]] = Updated(c)]
        BY <1>1, <3>1 DEF UpdateSong, IInv, TargetsExist
    <3>3. s = target[c]
        BY <1>1, <3>2
    <3>4. songs'[s].columns[f] = Updated(c).columns[f]
        BY <3>2, <3>3
    <3>5. was[c][f] = None
        BY <1>1, <3>2, <3>3, <3>4, UpdatedIsRow DEF IInv
    <3>. QED  BY <1>1, <3>2, <3>3, <3>5 DEF IInv, SeenIsThere
  <2>2. CASE ~ \E c \in Clients : UpdateSong(c)
    <3>1. songs'[s] = songs[s]
      <4>1. CASE \E c \in Clients, given \in SUBSET Given : \E h \in {hash[c], None} :
                    PublishSong(c, given, h)
        <5>1. PICK c \in Clients, given \in SUBSET Given : \E h \in {hash[c], None} :
                    PublishSong(c, given, h)
            BY <4>1
        <5>2. PICK h \in {hash[c], None} : PublishSong(c, given, h)
            BY <5>1
        <5>3. s # c
            BY <1>1, <5>2 DEF PublishSong, IInv, TargetsExist
        <5>. QED  BY <5>2, <5>3 DEF PublishSong
      <4>2. CASE ~ \E c \in Clients, given \in SUBSET Given : \E h \in {hash[c], None} :
                    PublishSong(c, given, h)
          BY <1>1, <2>2, <4>2
             DEF Next, Step, vars, Begin, UploadTo, CheckSongsByHash, PublishRejected,
                 NumberOverflows, Upload, ReadSong, UpdateRejected, StatementFails, Crash
      <4>. QED  BY <4>1, <4>2
    <3>. QED  BY <1>1, <3>1
  <2>. QED  BY <2>1, <2>2
<1>2. IInv /\ [Next]_vars =>
        [\A s \in DOMAIN songs, f \in Columns :
            LET v == songs[s].columns[f]
            IN  v # None /\ songs'[s].columns[f] # v => v \in Clients /\ s \in crossed]_vars
    BY <1>1
<1>. QED  BY Invariant, <1>2, PTL DEF Spec, FilledStays

\* The disc number of a file never reaches the table: ent inserts disc_number as 1,
\* and UpdateFromScan fills in only what is 0 (song/service.go:190, schema/song.go).
THEOREM PresetsAreNeverFilled ==
    Spec => [](\A s \in DOMAIN songs, f \in Preset : songs[s].columns[f] = Default)
<1>1. IInv => \A s \in DOMAIN songs, f \in Preset : songs[s].columns[f] = Default
    BY DEF IInv, PresetStays
<1>. QED  BY Invariant, <1>1, PTL

-----------------------------------------------------------------------------
(* Clients that come one at a time. *)

\* Only one client is between its check and the end of its upload.
OneAtATime == \A c, o \in Clients : pc[c] \in Running /\ pc[o] \in Running => c = o

\* A client has a file, and uploads it to the song it publishes.
OwnSong ==
    \A c \in Clients :
        /\ target[c] = c
        /\ pc[c] # "idle" => hash[c] \in Hashes
        /\ c \in DOMAIN songs => songs[c].hash \in {hash[c], None}

\* No other song has the hash of a file that was not known when its client asked.
Unknown ==
    \A c \in Clients : pc[c] \in Running \ {"check"} =>
        \A s \in DOMAIN songs : s # c => songs[s].hash # hash[c]

OneSongEach ==
    \A s, t \in DOMAIN songs : songs[s].hash = songs[t].hash /\ songs[s].hash # None => s = t

\* A file that was found, or scanned, is in the table.
FileIsKnown == \A c \in Clients : pc[c] \in {"known", "done"} => Known(hash[c])

TidyInv == tidy => OneAtATime /\ OwnSong /\ Unknown /\ OneSongEach /\ FileIsKnown

\* Every step keeps it: a client that comes while another runs, or that does not ask,
\* is not tidy.
LEMMA TidyInvNext == IInv /\ TidyInv /\ [Next]_vars => TidyInv'
<1> SUFFICES ASSUME IInv, TidyInv, [Next]_vars, tidy'
             PROVE  (OneAtATime /\ OwnSong /\ Unknown /\ OneSongEach /\ FileIsKnown)'
    BY DEF TidyInv
<1>1. tidy
    BY DEF Next, Step, Begin, UploadTo, CheckSongsByHash, PublishSong, PublishRejected,
           NumberOverflows, Upload, ReadSong, UpdateSong, UpdateRejected, StatementFails,
           Crash, vars, history
<1>2. /\ OneAtATime /\ OwnSong /\ Unknown /\ OneSongEach /\ FileIsKnown
      /\ pc \in [Clients -> {"idle"} \cup Running \cup Ended]
      /\ hash \in [Clients -> Hashes \cup {None}]
      /\ DOMAIN songs \subseteq Clients
      /\ TargetsExist /\ None \notin Hashes
    BY <1>1, ValuesAssumption DEF TidyInv, IInv, TypeOK
<1> DEFINE Good == OneAtATime /\ OwnSong /\ Unknown /\ OneSongEach /\ FileIsKnown
\* A client that goes on, or ends, with the table as it was.
<1>3. ASSUME NEW c \in Clients, NEW step, pc' = [pc EXCEPT ![c] = step],
             pc[c] \in Running, UNCHANGED <<songs, hash, target>>,
             \/ step \in Running \ {"check"} /\ pc[c] # "check"
             \/ step \in {"failed", "unscanned"}
             \/ step = "publish" /\ ~ Known(hash[c])
             \/ step = "known" /\ Known(hash[c])
      PROVE  Good'
  <2>1. OneAtATime'
      BY <1>2, <1>3 DEF OneAtATime, Running, Ended
  <2>2. OwnSong' /\ OneSongEach'
      BY <1>2, <1>3 DEF OwnSong, OneSongEach, Running
  <2>3. Unknown'
      BY <1>2, <1>3 DEF Unknown, Running, Known
  <2>4. FileIsKnown'
      BY <1>2, <1>3 DEF FileIsKnown, Running, Known
  <2>. QED  BY <2>1, <2>2, <2>3, <2>4
<1>4. ASSUME NEW c \in Clients, NEW h \in Hashes, Begin(c, h)
      PROVE  Good'
  <2>1. /\ pc[c] = "idle" /\ \A o \in Clients : pc[o] \notin Running
        /\ pc' = [pc EXCEPT ![c] = "check"] /\ hash' = [hash EXCEPT ![c] = h]
        /\ UNCHANGED <<songs, target>> /\ c \notin DOMAIN songs
      BY <1>2, <1>4 DEF Begin, Goto, TargetsExist
  <2>2. OneAtATime' /\ OwnSong' /\ OneSongEach'
      BY <1>2, <2>1 DEF OneAtATime, OwnSong, OneSongEach
  <2>3. Unknown' /\ FileIsKnown'
      BY <1>2, <2>1 DEF Unknown, FileIsKnown, Known
  <2>. QED  BY <2>2, <2>3
<1>5. ASSUME NEW c \in Clients, NEW given \in SUBSET Given,
             NEW h \in {hash[c], None}, PublishSong(c, given, h)
      PROVE  Good'
  <2>1. /\ pc[c] = "publish" /\ c \notin DOMAIN songs
        /\ DOMAIN songs' = DOMAIN songs \cup {c}
        /\ \A s \in DOMAIN songs : songs'[s] = songs[s]
        /\ songs'[c].hash = h
        /\ pc' = [pc EXCEPT ![c] = "upload"]
        /\ UNCHANGED <<hash, target>>
      BY <1>2, <1>5 DEF PublishSong, Goto, file, TargetsExist, NewSong
  <2>2. \A o \in Clients : o # c => pc[o] \notin Running
      BY <1>2, <2>1 DEF OneAtATime, Running
  <2>3. \A s \in DOMAIN songs : songs[s].hash # hash[c]
      BY <1>2, <2>1 DEF Unknown, Running
  <2>4. OneAtATime' /\ OwnSong'
      BY <1>2, <2>1, <2>2 DEF OneAtATime, OwnSong, Running
  <2>5. Unknown'
      BY <1>2, <2>1, <2>2, <2>3 DEF Unknown, Running
  <2>6. OneSongEach'
      BY <1>2, <2>1, <2>3 DEF OneSongEach
  <2>7. FileIsKnown'
      BY <1>2, <2>1 DEF FileIsKnown, Known
  <2>. QED  BY <2>4, <2>5, <2>6, <2>7
<1>6. ASSUME NEW c \in Clients, UpdateSong(c)
      PROVE  Good'
  <2>1. /\ pc[c] = "save" /\ target[c] = c /\ c \in DOMAIN songs
        /\ songs' = [songs EXCEPT ![c] = Updated(c)] /\ Updated(c).hash = hash[c]
        /\ pc' = [pc EXCEPT ![c] = "done"]
        /\ UNCHANGED <<hash, target>>
    <3>1. /\ pc[c] = "save" /\ target[c] = c
          /\ songs' = [songs EXCEPT ![target[c]] = Updated(c)] /\ Updated(c).hash = hash[c]
          /\ pc' = [pc EXCEPT ![c] = "done"]
          /\ UNCHANGED <<hash, target>>
        BY <1>2, <1>6 DEF UpdateSong, Goto, file, OwnSong, Updated
    <3>2. target[c] \in DOMAIN songs
        BY <1>2, <3>1 DEF TargetsExist
    <3>. QED  BY <3>1, <3>2
  <2>2. /\ DOMAIN songs' = DOMAIN songs
        /\ \A s \in DOMAIN songs : s # c => songs'[s] = songs[s]
        /\ songs'[c].hash = hash[c]
      BY <2>1
  <2>3. \A o \in Clients : o # c => pc[o] \notin Running
      BY <1>2, <2>1 DEF OneAtATime, Running
  <2>4. \A s \in DOMAIN songs : s # c => songs[s].hash # hash[c]
      BY <1>2, <2>1 DEF Unknown, Running
  <2>5. OneAtATime' /\ OwnSong'
      BY <1>2, <2>1, <2>2, <2>3 DEF OneAtATime, OwnSong, Running
  <2>6. Unknown'
      BY <1>2, <2>1, <2>2, <2>3 DEF Unknown, Running
  <2>7. OneSongEach'
      BY <1>2, <2>2, <2>4 DEF OneSongEach
  <2>8. \A k \in Hashes : Known(k) => Known(k)'
    <3> SUFFICES ASSUME NEW k \in Hashes, NEW s \in DOMAIN songs, songs[s].hash = k
                 PROVE  songs'[s].hash = k
        BY <2>2 DEF Known
    <3>. QED  BY <1>2, <2>2 DEF OwnSong
  <2>9. FileIsKnown'
    <3> SUFFICES ASSUME NEW o \in Clients, pc'[o] \in {"known", "done"}
                 PROVE  Known(hash[o])'
        BY <2>1 DEF FileIsKnown, Known
    <3>1. CASE o = c
        BY <2>1, <2>2, <3>1 DEF Known
    <3>2. CASE o # c
      <4>1. pc[o] \in {"known", "done"} /\ hash[o] \in Hashes /\ hash'[o] = hash[o]
          BY <1>2, <2>1, <3>2 DEF OwnSong
      <4>. QED  BY <1>2, <2>8, <4>1 DEF FileIsKnown
    <3>. QED  BY <3>1, <3>2
  <2>. QED  BY <2>5, <2>6, <2>7, <2>9
<1>7. ASSUME Crash
      PROVE  Good'
  <2>1. /\ pc' = [c \in Clients |-> IF pc[c] \in Running THEN "failed" ELSE pc[c]]
        /\ UNCHANGED <<songs, hash, target>>
      BY <1>7 DEF Crash, file
  <2>2. OneAtATime' /\ OwnSong' /\ OneSongEach'
      BY <1>2, <2>1 DEF OneAtATime, OwnSong, OneSongEach, Running
  <2>3. Unknown' /\ FileIsKnown'
      BY <1>2, <2>1 DEF Unknown, FileIsKnown, Known, Running
  <2>. QED  BY <2>2, <2>3
<1>8. ASSUME UNCHANGED vars
      PROVE  Good'
  <2>1. UNCHANGED <<songs, pc, hash, target>>
      BY <1>8 DEF vars, file
  <2>. QED  BY <1>2, <2>1 DEF OneAtATime, OwnSong, OneSongEach, Unknown, FileIsKnown, Known
<1>9. ASSUME NEW c \in Clients, CheckSongsByHash(c)
      PROVE  Good'
  <2>1. pc[c] \in Running /\ UNCHANGED <<songs, hash, target>>
      BY <1>9 DEF CheckSongsByHash, file, Running
  <2>2. CASE Known(hash[c])
    <3>1. pc' = [pc EXCEPT ![c] = "known"]
        BY <1>9, <2>2 DEF CheckSongsByHash, Goto
    <3>. QED  BY <1>3, <2>1, <2>2, <3>1
  <2>3. CASE ~ Known(hash[c])
    <3>1. pc' = [pc EXCEPT ![c] = "publish"]
        BY <1>9, <2>3 DEF CheckSongsByHash, Goto
    <3>. QED  BY <1>3, <2>1, <2>3, <3>1
  <2>. QED  BY <2>2, <2>3
<1>10. ASSUME NEW c \in Clients,
              PublishRejected(c) \/ NumberOverflows(c) \/ UpdateRejected(c) \/ StatementFails(c)
       PROVE  Good'
  <2>1. \/ pc' = [pc EXCEPT ![c] = "failed"]
        \/ pc' = [pc EXCEPT ![c] = "unscanned"]
      BY <1>10 DEF PublishRejected, NumberOverflows, UpdateRejected, StatementFails, Goto
  <2>2. pc[c] \in Running /\ UNCHANGED <<songs, hash, target>>
      BY <1>10
         DEF PublishRejected, NumberOverflows, UpdateRejected, StatementFails, file, Running
  <2>. QED  BY <1>3, <2>1, <2>2
<1>11. ASSUME NEW c \in Clients, ReadSong(c) \/ \E t \in Tags : Upload(c, t)
       PROVE  Good'
  <2>1. \/ pc' = [pc EXCEPT ![c] = "read"]
        \/ pc' = [pc EXCEPT ![c] = "save"]
      BY <1>11 DEF ReadSong, Upload, Goto
  <2>2. pc[c] \in Running \ {"check"} /\ UNCHANGED <<songs, hash, target>>
      BY <1>11 DEF ReadSong, Upload, file, Running
  <2>. QED  BY <1>3, <2>1, <2>2 DEF Running
<1>12. ASSUME NEW c \in Clients, NEW s \in Clients, NEW h \in Hashes, NEW t \in Tags,
              UploadTo(c, s, h, t)
       PROVE  FALSE
    BY <1>12 DEF UploadTo
<1> HIDE DEF Good
<1>13. ASSUME NEW c \in Clients, Step(c)
       PROVE  Good'
    BY <1>5, <1>6, <1>9, <1>10, <1>11, <1>13 DEF Step
<1>14. Good'
    BY <1>4, <1>7, <1>8, <1>12, <1>13 DEF Next
<1>. QED  BY <1>14 DEF Good

\* As long as clients come one at a time and ask before they upload, a file that was
\* found or scanned is that of exactly one song (CheckSongsByHash, PublishSong).
THEOREM FilesHaveOneSong == Spec => []OneSongPerFile
<1>1. Init => TidyInv
    BY DEF Init, TidyInv, OneAtATime, OwnSong, Unknown, OneSongEach, FileIsKnown, Running
<1>2. TidyInv => OneSongPerFile
  <2> SUFFICES ASSUME OwnSong, OneSongEach, FileIsKnown
               PROVE  OneSongPerFile
      BY DEF TidyInv, OneSongPerFile
  <2>. QED  BY ValuesAssumption DEF OneSongPerFile, OneSongEach, FileIsKnown, Known
<1>. QED  BY Invariant, TidyInvNext, <1>1, <1>2, PTL DEF Spec

=============================================================================
