--------------------------- MODULE PlaylistProofs ---------------------------
(***************************************************************************)
(* Theorems about Playlist, for every value of its constants.              *)
(***************************************************************************)
EXTENDS Playlist, FiniteSetTheorems, SequenceTheorems, WellFoundedInduction,
        NaturalsInduction, TLAPS

-----------------------------------------------------------------------------
(* Facts about the operators of Playlist. *)

\* A set of numbers that a number bounds has a greatest element, and Max is it.
LEMMA MaxOfBounded ==
    ASSUME NEW S \in SUBSET Int, S # {},
           NEW b \in Int, \A x \in S : x <= b
    PROVE  /\ Max(S) \in S
           /\ \A x \in S : x <= Max(S)
<1> DEFINE Below == {b - x : x \in S}
           Less == OpToRel(<, Nat)
<1>1. Below \subseteq Nat /\ Below # {}
  <2>1. \A x \in S : b - x \in Nat
    OBVIOUS
  <2>2. PICK x \in S : TRUE
    OBVIOUS
  <2>3. b - x \in Below
    OBVIOUS
  <2> QED
    BY <2>1, <2>3
<1>2. IsWellFoundedOn(Less, Nat)
  BY NatLessThanWellFounded
<1>3. \A m, n \in Nat : m < n => <<m, n>> \in Less
  BY DEF OpToRel
<1>4. PICK y \in Below : \A z \in Below : y <= z
  <2> HIDE DEF Below, Less
  <2>1. PICK y \in Below : \A z \in Below : ~ (<<z, y>> \in Less)
    BY <1>1, <1>2, WFMin
  <2>2. ASSUME NEW z \in Below
        PROVE  y <= z
    <3>1. y \in Nat /\ z \in Nat
      BY <1>1
    <3>2. ~ (z < y)
      BY <1>3, <2>1, <3>1, Zenon
    <3> QED
      BY <3>1, <3>2
  <2> QED
    BY <2>2
<1>5. PICK m \in S : y = b - m
  OBVIOUS
<1>6. \A x \in S : m >= x
  BY <1>4, <1>5
<1> QED
  BY <1>6 DEF Max

\* A conversion to 32 bits gives a position, and leaves a number that fits.
LEMMA ToInt32Facts ==
    ASSUME NEW n \in Int
    PROVE  /\ ToInt32(n) \in Positions
           /\ n \in 0 .. MaxPosition => ToInt32(n) = n
<1> DEFINE half == MaxPosition + 1
           m == 2 * half
           k == n + half
<1>1. half \in Nat \ {0} /\ m \in Nat \ {0} /\ k \in Int
  BY PositionAssumption
<1>2. ToInt32(n) = (k % m) - half
  BY PositionAssumption DEF ToInt32
<1>3. Positions = -half .. half - 1
  BY PositionAssumption DEF Positions
<1>4. \A x \in Int, y \in Nat \ {0} : x % y \in 0 .. y - 1
  OBVIOUS
<1>5. \A x \in Int, y \in Nat \ {0} : x \in 0 .. y - 1 => x % y = x
  OBVIOUS
<1>6. n \in 0 .. MaxPosition => k \in 0 .. m - 1
  BY PositionAssumption
<1>7. m = half + half
  BY <1>1
<1> HIDE DEF m, k, half
<1>8. k % m \in 0 .. m - 1
  BY <1>1, <1>4
<1>9. (k % m) - half \in -half .. half - 1
  BY <1>1, <1>7, <1>8
<1>10. n \in 0 .. MaxPosition => k % m = k
  BY <1>1, <1>5, <1>6
<1>11. k - half = n
  BY <1>1 DEF k
<1> QED
  BY <1>2, <1>3, <1>9, <1>10, <1>11

\* The greatest position of a playlist that has songs is one of its positions.
LEMMA GreatestPosition ==
    ASSUME TypeOK, NEW p, RowsOf(p) # {}
    PROVE  /\ LastPosition(p) \in Positions
           /\ \A r \in RowsOf(p) : r.position <= LastPosition(p)
<1> DEFINE S == {r.position : r \in RowsOf(p)}
<1>1. S \subseteq Positions /\ S # {}
  BY DEF TypeOK, RowsOf, Row
<1>2. S \in SUBSET Int /\ \A x \in S : x <= MaxPosition
  BY <1>1, PositionAssumption DEF Positions
<1>3. \A r \in RowsOf(p) : r.position \in S
  OBVIOUS
<1>4. Max(S) \in S /\ \A x \in S : x <= Max(S)
  <2> HIDE DEF S
  <2> QED
    BY <1>1, <1>2, MaxOfBounded, PositionAssumption
<1>5. LastPosition(p) = Max(S)
  BY DEF LastPosition
<1> HIDE DEF S
<1> QED
  BY <1>1, <1>3, <1>4, <1>5

\* The cap of AddSong: the position of a new row fits.
LEMMA NewPositionFits ==
    ASSUME TypeOK, NEW c \in Calls
    PROVE  NewPosition(c) \in Positions
<1> DEFINE a == maxPos[c] + PositionStep
           S == {a, MaxPosition}
<1>1. /\ a \in Int /\ MaxPosition \in Int
      /\ -(MaxPosition + 1) <= a /\ -(MaxPosition + 1) <= MaxPosition
  BY PositionAssumption DEF TypeOK, Positions
<1>2. \E x \in S : \A y \in S : x <= y
  BY <1>1
<1>3. Min(S) \in S /\ \A y \in S : Min(S) <= y
  <2> HIDE DEF S
  <2> QED
    BY <1>2 DEF Min
<1> QED
  BY <1>1, <1>3 DEF NewPosition, Positions

\* An order names songs.
LEMMA OrderFacts ==
    ASSUME NEW o \in Orders
    PROVE  o \in Seq(Songs)
  BY PositionAssumption DEF Orders, SeqOf

\* The last mention of a song is one, and there is none behind it.
LEMMA LastMentionIs ==
    ASSUME NEW o \in Seq(Songs), NEW s, Contains(o, s)
    PROVE  /\ LastMention(o, s) \in 1 .. Len(o)
           /\ o[LastMention(o, s)] = s
           /\ \A j \in LastMention(o, s) + 1 .. Len(o) : o[j] # s
<1> DEFINE S == {i \in DOMAIN o : o[i] = s}
<1>1. S \in SUBSET Int /\ S # {} /\ \A x \in S : x <= Len(o)
  BY DEF Contains
<1>2. Max(S) \in S /\ \A x \in S : x <= Max(S)
  <2>1. Len(o) \in Int
    OBVIOUS
  <2> HIDE DEF S
  <2> QED
    BY <1>1, <2>1, MaxOfBounded
<1>3. LastMention(o, s) = Max(S)
  BY DEF LastMention
<1>4. PICK i : i = Max(S)
  OBVIOUS
<1>5. /\ i \in 1 .. Len(o) /\ o[i] = s
      /\ \A j \in 1 .. Len(o) : o[j] = s => j <= i
  BY <1>2, <1>4
<1>6. \A j \in i + 1 .. Len(o) : o[j] # s
  BY <1>5
<1> QED
  BY <1>3, <1>4, <1>5, <1>6

\* A smaller multiple of the step is smaller.
LEMMA StepsFit ==
    ASSUME NEW i \in Nat, NEW n \in Nat, i <= n, NEW s \in Nat
    PROVE  i * s \in Nat /\ i * s <= n * s
<1>1. n - i \in Nat /\ n = i + (n - i)
  OBVIOUS
<1>2. (n - i) * s \in Nat /\ i * s \in Nat
  BY <1>1
<1>3. n * s = i * s + (n - i) * s
  BY <1>1
<1> QED
  BY <1>2, <1>3

-----------------------------------------------------------------------------
(* Types. *)

\* What a call was asked, and how far it is in its order, by where it is.
Requests ==
    \A c \in Calls :
        /\ pc[c] \in Running => list[c] \in Playlists
        /\ pc[c] \in {"check", "max", "insert"} => song[c] \in Songs
        /\ order[c] \in Orders
        /\ pc[c] \in {"idle", "fetch"} => next[c] = 1
        /\ pc[c] = "move" => next[c] <= Len(order[c])
        /\ pc[c] = "commit" => next[c] = Len(order[c]) + 1

\* The types, with what typing the next row needs to know of the calls.
TypeInv == TypeOK /\ Requests

\* A song that is moved has a place in the order, and is given a position.
LEMMA MovedPosition ==
    ASSUME TypeInv, NEW c \in Calls, pc[c] = "move"
    PROVE  /\ next[c] \in 1 .. Len(order[c])
           /\ Place(next[c]) \in Positions
<1>1. next[c] \in Nat \ {0} /\ next[c] <= Len(order[c]) /\ order[c] \in Seq(Songs)
  BY DEF TypeInv, TypeOK, Requests
<1>2. (next[c] - 1) * PositionStep \in Int
  BY <1>1, PositionAssumption
<1> QED
  BY <1>1, <1>2, ToInt32Facts DEF Place

\* Moving a song leaves every row but for the position of that song.
LEMMA MovedRows ==
    ASSUME TypeInv, NEW c \in Calls, pc[c] = "move", NEW table \in SUBSET Row
    PROVE  /\ Moved(c, table) \in SUBSET Row
           /\ \A t \in Moved(c, table) : \E r \in table :
                /\ r.id = t.id /\ r.playlist = t.playlist /\ r.song = t.song
                /\ \/ /\ t.playlist = list[c] /\ t.song = order[c][next[c]]
                      /\ t.position = Place(next[c])
                   \/ /\ ~ (t.playlist = list[c] /\ t.song = order[c][next[c]])
                      /\ t = r
<1> DEFINE place == Place(next[c])
           hit(r) == r.playlist = list[c] /\ r.song = order[c][next[c]]
<1>1. place \in Positions
  BY MovedPosition
<1>2. ASSUME NEW r \in Row
      PROVE  LET t == [r EXCEPT !.position = place]
             IN  /\ t \in Row /\ t.id = r.id /\ t.playlist = r.playlist /\ t.song = r.song
                 /\ t.position = place
  <2> HIDE DEF place
  <2> QED
    BY <1>1 DEF Row
<1>3. ASSUME NEW t \in Moved(c, table)
      PROVE  /\ t \in Row
             /\ \E r \in table :
                /\ r.id = t.id /\ r.playlist = t.playlist /\ r.song = t.song
                /\ \/ hit(t) /\ t.position = place
                   \/ ~ hit(t) /\ t = r
  <2>1. PICK r \in table :
           t = IF hit(r) THEN [r EXCEPT !.position = place] ELSE r
    BY DEF Moved
  <2>2. r \in Row
    OBVIOUS
  <2>3. CASE hit(r)
    <3>1. t = [r EXCEPT !.position = place]
      BY <2>1, <2>3
    <3> HIDE DEF place
    <3>2. /\ t \in Row /\ t.id = r.id /\ t.playlist = r.playlist /\ t.song = r.song
          /\ t.position = place
      BY <1>2, <2>2, <3>1
    <3> QED
      BY <2>3, <3>2
  <2>4. CASE ~ hit(r)
    <3>1. t = r
      BY <2>1, <2>4
    <3> QED
      BY <2>2, <2>4, <3>1
  <2> QED
    BY <2>3, <2>4
<1> QED
  BY <1>3

\* Nothing has been asked at first.
LEMMA TypeInvInit == Init => TypeInv
<1> SUFFICES ASSUME Init
             PROVE  TypeInv
  OBVIOUS
<1>1. TypeOK
  BY PositionAssumption DEF Init, TypeOK, Positions
<1>2. <<>> \in Orders
  <2>1. <<>> \in [1 .. 0 -> Songs] /\ 0 \in 0 .. MaxOrder
    BY PositionAssumption
  <2> QED
    BY <2>1 DEF Orders, SeqOf
<1> QED
  BY <1>1, <1>2 DEF TypeInv, Requests, Init, Running

\* Every step keeps the types: positions are capped, and an order is walked to its
\* end and not further.
LEMMA TypeInvNext == TypeInv /\ [Next]_vars => TypeInv'
<1> USE DEF TypeInv
<1> SUFFICES ASSUME TypeInv, [Next]_vars
             PROVE  TypeInv'
  OBVIOUS
<1>0. TypeOK /\ Requests
  OBVIOUS
<1>1. ASSUME NEW p \in Playlists, CreatePlaylist(p)
      PROVE  TypeInv'
  BY <1>0, <1>1 DEF CreatePlaylist, TypeOK, Requests, transaction, request
<1>2. ASSUME NEW p \in Playlists, NEW s \in Songs, RemoveSong(p, s)
      PROVE  TypeInv'
  BY <1>0, <1>2 DEF RemoveSong, TypeOK, Requests, transaction, request
<1>3. ASSUME NEW c \in Calls, NEW p \in Playlists, NEW s \in Songs, AddSong(c, p, s)
      PROVE  TypeInv'
  BY <1>0, <1>3 DEF AddSong, Arrives, Goto, TypeOK, Requests, tables, transaction, Running
<1>4. ASSUME NEW c \in Calls, NEW p \in Playlists, NEW o \in Orders, ReorderSongs(c, p, o)
      PROVE  TypeInv'
  <2>1. o \in Seq(Songs)
    BY OrderFacts
  <2> QED
    BY <1>0, <1>4, <2>1
    DEF ReorderSongs, Arrives, Goto, TypeOK, Requests, tables, transaction, Running
<1>5. ASSUME NEW c \in Calls, NEW p \in Playlists, UpdatePlaylist(c, p)
      PROVE  TypeInv'
  BY <1>0, <1>5
  DEF UpdatePlaylist, Arrives, Goto, TypeOK, Requests, tables, transaction, Running, Ended
<1>6. ASSUME NEW c \in Calls, NEW p \in Playlists, DeletePlaylist(c, p)
      PROVE  TypeInv'
  BY <1>0, <1>6
  DEF DeletePlaylist, Arrives, Goto, TypeOK, Requests, tables, transaction, Running
<1>7. ASSUME NEW c \in Calls, Step(c)
      PROVE  TypeInv'
  <2>1. CASE CheckExists(c) \/ CheckBlind(c)
    <3>1. pc[c] = "check" /\ UNCHANGED <<tables, transaction, request, maxPos, next>>
      BY <2>1 DEF CheckExists, CheckBlind
    <3>2. \/ pc' = [pc EXCEPT ![c] = "failed"]
          \/ pc' = [pc EXCEPT ![c] = "max"]
      BY <2>1 DEF CheckExists, CheckBlind, Goto
    <3>3. tidy' \in BOOLEAN /\ faults' \in Nat
      <4>1. \/ tidy' = FALSE /\ faults' = faults + 1
            \/ tidy' = tidy /\ faults' = faults
        BY <2>1 DEF CheckExists, CheckBlind, Fault
      <4>2. tidy \in BOOLEAN /\ faults \in Nat
        BY <1>0 DEF TypeOK
      <4>3. tidy' \in BOOLEAN
        BY <4>1, <4>2
      <4>4. faults' \in Nat
        BY <4>1, <4>2
      <4> QED
        BY <4>3, <4>4
    <3>4. TypeOK'
      BY <1>0, <3>1, <3>2, <3>3
      DEF TypeOK, tables, transaction, request, Running, Ended
    <3>5. Requests'
      BY <1>0, <3>1, <3>2 DEF TypeOK, Requests, request, Running
    <3> QED
      BY <3>4, <3>5
  <2>2. CASE ReadMax(c)
    <3> DEFINE read == IF RowsOf(list[c]) = {} THEN 0 ELSE LastPosition(list[c])
    <3>1. read \in Positions
      BY <1>0, GreatestPosition, PositionAssumption DEF Positions
    <3>2. maxPos' = [maxPos EXCEPT ![c] = read]
      BY <2>2 DEF ReadMax
    <3> HIDE DEF read
    <3> QED
      BY <1>0, <2>2, <3>1, <3>2
      DEF ReadMax, Goto, TypeOK, Requests, tables, transaction, request, Running
  <2>3. CASE ReadMaxBlind(c)
    <3>1. TypeOK'
      <4>1. tidy' = FALSE /\ faults' = faults + 1
        BY <2>3 DEF ReadMaxBlind, Fault
      <4>2. tidy' \in BOOLEAN
        BY <4>1
      <4>3. faults' \in Nat
        BY <1>0, <4>1 DEF TypeOK
      <4>4. maxPos' \in [Calls -> Positions]
        BY <1>0, <2>3, PositionAssumption DEF ReadMaxBlind, TypeOK, Positions
      <4> QED
        BY <1>0, <2>3, <4>2, <4>3, <4>4
        DEF ReadMaxBlind, Goto, TypeOK, tables, transaction, request, Running
    <3>2. Requests'
      BY <1>0, <2>3 DEF ReadMaxBlind, Goto, TypeOK, Requests, request, Running
    <3> QED
      BY <3>1, <3>2
  <2>4. CASE InsertSong(c)
    <3>1. [id |-> c, playlist |-> list[c], song |-> song[c], position |-> NewPosition(c)] \in Row
      BY <1>0, <2>4, NewPositionFits DEF InsertSong, Requests, Row, Running
    <3>2. rows' \subseteq Row
      BY <1>0, <2>4, <3>1 DEF InsertSong, TypeOK
    <3> QED
      BY <1>0, <2>4, <3>2
      DEF InsertSong, Goto, TypeOK, Requests, transaction, request, Running, Ended
  <2>5. CASE InsertRejected(c)
    BY <1>0, <2>5
    DEF InsertRejected, Goto, TypeOK, Requests, tables, transaction, request, Running, Ended
  <2>6. CASE FetchSongs(c)
    <3>1. order[c] \in Seq(Songs)
      BY <1>0 DEF TypeOK
    <3>2. Len(order[c]) \in Nat
      BY <3>1
    <3> QED
      BY <1>0, <2>6, <3>2
      DEF FetchSongs, AfterSong, Goto, TypeOK, Requests, tables, transaction, request,
          Running, Ended
  <2>7. CASE MoveSong(c)
    <3>1. draft' \subseteq Row
      BY <1>0, <2>7, MovedRows DEF MoveSong, TypeOK
    <3>2. next[c] \in 1 .. Len(order[c]) /\ Len(order[c]) \in Nat
      BY <1>0, <2>7, MovedPosition DEF MoveSong, TypeOK
    <3> QED
      BY <1>0, <2>7, <3>1, <3>2
      DEF MoveSong, AfterSong, Goto, TypeOK, Requests, tables, request, Running
  <2>8. CASE Commit(c)
    BY <1>0, <2>8
    DEF Commit, EndTransaction, Goto, TypeOK, Requests, tables, request, Running, Ended
  <2>9. CASE Rollback(c)
    BY <1>0, <2>9
    DEF Rollback, EndTransaction, Fault, Goto, TypeOK, Requests, tables, request, Running, Ended
  <2>10. CASE DeleteSongs(c)
    BY <1>0, <2>10
    DEF DeleteSongs, Goto, TypeOK, Requests, transaction, request, Running
  <2>11. CASE DropPlaylist(c)
    BY <1>0, <2>11
    DEF DropPlaylist, Goto, TypeOK, Requests, transaction, request, Running, Ended
  <2>12. CASE StatementFails(c)
    BY <1>0, <2>12
    DEF StatementFails, Fault, Goto, TypeOK, Requests, tables, transaction, request,
        Running, Ended
  <2> QED
    BY <1>7, <2>1, <2>2, <2>3, <2>4, <2>5, <2>6, <2>7, <2>8, <2>9, <2>10, <2>11, <2>12 DEF Step
<1>8. ASSUME Crash
      PROVE  TypeInv'
  BY <1>0, <1>8 DEF Crash, Fault, TypeOK, Requests, tables, request, Running, Ended
<1>9. ASSUME UNCHANGED vars
      PROVE  TypeInv'
  BY <1>0, <1>9 DEF vars, tables, transaction, request, TypeOK, Requests
<1> QED
  BY <1>1, <1>2, <1>3, <1>4, <1>5, <1>6, <1>7, <1>8, <1>9 DEF Next

\* Every variable keeps its type: the cap of AddSong and the conversion of a reorder
\* keep every position in the 32 bits of the column, however long the order.
THEOREM TypeCorrect == Spec => []TypeOK
<1>1. Init => TypeInv
  BY TypeInvInit
<1>2. TypeInv /\ [Next]_vars => TypeInv'
  BY TypeInvNext
<1>3. TypeInv => TypeOK
  BY DEF TypeInv
<1> QED
  BY <1>1, <1>2, <1>3, PTL DEF Spec

-----------------------------------------------------------------------------
(* The unique index and the write lock, however calls interleave. *)

\* A table that has a song in a playlist once.
Once(table) ==
    \A r, t \in table : r.playlist = t.playlist /\ r.song = t.song => r = t

\* The table and the draft of the writer both respect the unique index, and the
\* writer is on its way to the end of its transaction.
OnceInv == TypeInv /\ Once(rows) /\ Once(draft) /\ LockIsLetGo

\* What a step can do to the table and to the transaction of the writer.
LEMMA TableSteps ==
    ASSUME [Next]_vars
    PROVE  \/ UNCHANGED <<rows, writer, draft>>
           \/ writer = None /\ UNCHANGED <<writer, draft>> /\ rows' \subseteq rows
           \/ \E c \in Calls : InsertSong(c)
           \/ \E c \in Calls : MoveSong(c)
           \/ \E c \in Calls : Commit(c)
           \/ writer' = None /\ draft' = {} /\ UNCHANGED rows
<1> USE DEF transaction, tables
<1>1. ASSUME NEW p \in Playlists, CreatePlaylist(p)
      PROVE  UNCHANGED <<rows, writer, draft>>
  BY <1>1 DEF CreatePlaylist
<1>2. ASSUME NEW p \in Playlists, NEW s \in Songs, RemoveSong(p, s)
      PROVE  writer = None /\ UNCHANGED <<writer, draft>> /\ rows' \subseteq rows
  BY <1>2 DEF RemoveSong, MayWrite
<1>3. ASSUME NEW c \in Calls, NEW p \in Playlists,
             \/ \E s \in Songs : AddSong(c, p, s)
             \/ \E o \in Orders : ReorderSongs(c, p, o)
             \/ UpdatePlaylist(c, p) \/ DeletePlaylist(c, p)
      PROVE  UNCHANGED <<rows, writer, draft>>
  BY <1>3 DEF AddSong, ReorderSongs, UpdatePlaylist, DeletePlaylist
<1>4. ASSUME NEW c \in Calls,
             \/ CheckExists(c) \/ CheckBlind(c) \/ ReadMax(c) \/ ReadMaxBlind(c)
             \/ InsertRejected(c) \/ FetchSongs(c) \/ DropPlaylist(c) \/ StatementFails(c)
      PROVE  UNCHANGED <<rows, writer, draft>>
  BY <1>4
  DEF CheckExists, CheckBlind, ReadMax, ReadMaxBlind, InsertRejected, FetchSongs,
      DropPlaylist, StatementFails
<1>5. ASSUME NEW c \in Calls, DeleteSongs(c)
      PROVE  writer = None /\ UNCHANGED <<writer, draft>> /\ rows' \subseteq rows
  BY <1>5 DEF DeleteSongs, MayWrite
<1>6. ASSUME NEW c \in Calls, Rollback(c)
      PROVE  \/ UNCHANGED <<rows, writer, draft>>
             \/ writer' = None /\ draft' = {} /\ UNCHANGED rows
  BY <1>6 DEF Rollback, EndTransaction
<1>7. ASSUME Crash
      PROVE  writer' = None /\ draft' = {} /\ UNCHANGED rows
  BY <1>7 DEF Crash
<1>8. ASSUME UNCHANGED vars
      PROVE  UNCHANGED <<rows, writer, draft>>
  BY <1>8 DEF vars
<1> QED
  BY <1>1, <1>2, <1>3, <1>4, <1>5, <1>6, <1>7, <1>8, Zenon DEF Next, Step

\* Moving a song moves the one row that has it.
LEMMA MovedOnce ==
    ASSUME TypeInv, NEW c \in Calls, pc[c] = "move", NEW table \in SUBSET Row, Once(table)
    PROVE  Once(Moved(c, table))
<1> SUFFICES ASSUME NEW r \in Moved(c, table), NEW t \in Moved(c, table),
                    r.playlist = t.playlist, r.song = t.song
             PROVE  r = t
  BY DEF Once
<1>1. r \in Row /\ t \in Row
  BY MovedRows
<1>2. PICK r0 \in table :
         /\ r0.id = r.id /\ r0.playlist = r.playlist /\ r0.song = r.song
         /\ \/ /\ r.playlist = list[c] /\ r.song = order[c][next[c]]
               /\ r.position = Place(next[c])
            \/ /\ ~ (r.playlist = list[c] /\ r.song = order[c][next[c]])
               /\ r = r0
  BY MovedRows
<1>3. PICK t0 \in table :
         /\ t0.id = t.id /\ t0.playlist = t.playlist /\ t0.song = t.song
         /\ \/ /\ t.playlist = list[c] /\ t.song = order[c][next[c]]
               /\ t.position = Place(next[c])
            \/ /\ ~ (t.playlist = list[c] /\ t.song = order[c][next[c]])
               /\ t = t0
  BY MovedRows
<1>4. r0 = t0
  BY <1>2, <1>3 DEF Once
<1>5. r.id = t.id /\ r.position = t.position
  BY <1>2, <1>3, <1>4
<1> QED
  BY <1>1, <1>5 DEF Row

\* A call that has written stays on its way until it lets the lock go.
LEMMA LockKept ==
    ASSUME TypeInv, LockIsLetGo, [Next]_vars
    PROVE  LockIsLetGo'
<1>0. /\ writer \in Calls \cup {None} /\ pc \in [Calls -> {"idle"} \cup Running \cup Ended]
      /\ None \notin Calls
  BY NoneAssumption DEF TypeInv, TypeOK
<1> USE DEF transaction
<1>1. ASSUME NEW p \in Playlists, CreatePlaylist(p)
      PROVE  LockIsLetGo'
  BY <1>1 DEF CreatePlaylist, LockIsLetGo
<1>2. ASSUME NEW p \in Playlists, NEW s \in Songs, RemoveSong(p, s)
      PROVE  LockIsLetGo'
  BY <1>2 DEF RemoveSong, LockIsLetGo
<1>3. ASSUME NEW c \in Calls, NEW p \in Playlists,
             \/ \E s \in Songs : AddSong(c, p, s)
             \/ \E o \in Orders : ReorderSongs(c, p, o)
             \/ UpdatePlaylist(c, p) \/ DeletePlaylist(c, p)
      PROVE  LockIsLetGo'
  <2>1. pc[c] = "idle" /\ UNCHANGED transaction /\ \E w : Goto(c, w)
    BY <1>3, Zenon DEF AddSong, ReorderSongs, UpdatePlaylist, DeletePlaylist, Arrives
  <2> QED
    BY <1>0, <2>1 DEF Goto, LockIsLetGo
<1>4. ASSUME NEW c \in Calls,
             \/ CheckExists(c) \/ CheckBlind(c) \/ ReadMax(c) \/ ReadMaxBlind(c)
             \/ InsertSong(c) \/ InsertRejected(c) \/ FetchSongs(c)
             \/ DeleteSongs(c) \/ DropPlaylist(c) \/ StatementFails(c)
      PROVE  LockIsLetGo'
  <2>1. pc[c] \notin {"move", "commit"} /\ UNCHANGED transaction /\ \E w : Goto(c, w)
    BY <1>4
    DEF CheckExists, CheckBlind, ReadMax, ReadMaxBlind, InsertSong, InsertRejected, FetchSongs,
        DeleteSongs, DropPlaylist, StatementFails
  <2> QED
    BY <1>0, <2>1 DEF Goto, LockIsLetGo
<1>5. ASSUME NEW c \in Calls, MoveSong(c)
      PROVE  LockIsLetGo'
  BY <1>0, <1>5 DEF MoveSong, AfterSong, Goto, LockIsLetGo
<1>6. ASSUME NEW c \in Calls, Commit(c) \/ Rollback(c)
      PROVE  LockIsLetGo'
  <2>1. (\E w : Goto(c, w)) /\ ((writer' = writer /\ writer # c) \/ writer' = None)
    BY <1>6 DEF Commit, Rollback, EndTransaction
  <2> QED
    BY <1>0, <2>1 DEF Goto, LockIsLetGo
<1>7. ASSUME Crash
      PROVE  LockIsLetGo'
  BY <1>7 DEF Crash, LockIsLetGo
<1>8. ASSUME UNCHANGED vars
      PROVE  LockIsLetGo'
  BY <1>8 DEF vars, LockIsLetGo
<1> QED
  BY <1>1, <1>2, <1>3, <1>4, <1>5, <1>6, <1>7, <1>8, Zenon DEF Next, Step

\* Every step respects the index: an insert asks it, and the table stands still
\* while a draft of it exists.
LEMMA OnceInvNext == OnceInv /\ [Next]_vars => OnceInv'
<1> SUFFICES ASSUME OnceInv, [Next]_vars
             PROVE  OnceInv'
  OBVIOUS
<1>0. /\ TypeInv /\ Once(rows) /\ Once(draft) /\ LockIsLetGo
      /\ rows \subseteq Row /\ draft \subseteq Row
  BY DEF OnceInv, TypeInv, TypeOK
<1>1. TypeInv' /\ LockIsLetGo'
  BY <1>0, TypeInvNext, LockKept
<1>2. Once(rows)' /\ Once(draft)'
  <2>1. CASE UNCHANGED <<rows, writer, draft>>
    BY <1>0, <2>1 DEF Once
  <2>2. CASE UNCHANGED <<writer, draft>> /\ rows' \subseteq rows
    BY <1>0, <2>2 DEF Once
  <2>3. ASSUME NEW c \in Calls, InsertSong(c)
        PROVE  Once(rows)' /\ Once(draft)'
    <3>1. song[c] \notin SongsOf(list[c]) /\ draft' = draft
      BY <2>3 DEF InsertSong, Indexed, transaction
    <3>2. \A r \in rows : ~ (r.playlist = list[c] /\ r.song = song[c])
      BY <3>1 DEF SongsOf, RowsOf
    <3> DEFINE new == [id |-> c, playlist |-> list[c], song |-> song[c],
                       position |-> NewPosition(c)]
    <3>3. rows' = rows \cup {new} /\ new.playlist = list[c] /\ new.song = song[c]
      BY <2>3 DEF InsertSong
    <3> HIDE DEF new
    <3> QED
      BY <1>0, <3>1, <3>2, <3>3 DEF Once
  <2>4. ASSUME NEW c \in Calls, MoveSong(c)
        PROVE  Once(rows)' /\ Once(draft)'
    <3>1. pc[c] = "move" /\ rows' = rows
          /\ (draft' = Moved(c, draft) \/ draft' = Moved(c, rows))
      BY <2>4 DEF MoveSong, tables
    <3>2. Once(Moved(c, draft)) /\ Once(Moved(c, rows))
      BY <1>0, <3>1, MovedOnce
    <3> QED
      BY <1>0, <3>1, <3>2 DEF Once
  <2>5. ASSUME NEW c \in Calls, Commit(c)
        PROVE  Once(rows)' /\ Once(draft)'
    BY <1>0, <2>5 DEF Commit, EndTransaction, Once
  <2>6. CASE draft' = {} /\ UNCHANGED rows
    BY <1>0, <2>6 DEF Once
  <2> QED
    BY <2>1, <2>2, <2>3, <2>4, <2>5, <2>6, TableSteps
<1> QED
  BY <1>1, <1>2 DEF OnceInv

\* There are no songs, and nobody writes, at first.
LEMMA OnceInvInit == Init => OnceInv
  BY TypeInvInit DEF Init, OnceInv, Once, LockIsLetGo

\* A song is in a playlist once, though two AddSong calls both found it missing.
THEOREM SongsAreOnce == Spec => []SongOnce
<1>1. Init => OnceInv
  BY OnceInvInit
<1>2. OnceInv /\ [Next]_vars => OnceInv'
  BY OnceInvNext
<1>3. OnceInv => SongOnce
  BY DEF OnceInv, Once, SongOnce
<1> QED
  BY <1>1, <1>2, <1>3, PTL DEF Spec

\* Whoever holds the write lock is about to commit or to roll back.
THEOREM TheLockIsLetGo == Spec => []LockIsLetGo
<1>1. Init => OnceInv
  BY OnceInvInit
<1>2. OnceInv /\ [Next]_vars => OnceInv'
  BY OnceInvNext
<1>3. OnceInv => LockIsLetGo
  BY DEF OnceInv
<1> QED
  BY <1>1, <1>2, <1>3, PTL DEF Spec

-----------------------------------------------------------------------------
(* Calls that come one at a time, with the ids they were shown. *)

\* At most one call is on its way.  Until it has cleared a playlist, its playlist is
\* there; a playlist it is about to drop has no songs; songs have their playlist, in
\* the table and in the draft of the writer.
Alone ==
    /\ \A c, o \in Calls : pc[c] \in Running /\ pc[o] \in Running => c = o
    /\ \A c \in Calls : pc[c] \in Running \ {"drop"} => list[c] \in playlists
    /\ \A c \in Calls : pc[c] = "drop" => \A r \in rows : r.playlist # list[c]
    /\ \A r \in rows \cup draft : r.playlist \in playlists

\* There is no draft without a writer.
NoDraft == writer = None => draft = {}

\* What a tidy history comes to, with what holds in every history.
TidyInv == OnceInv /\ NoDraft /\ (tidy => Alone)

\* Tidiness is only lost.
LEMMA TidyBefore ==
    ASSUME [Next]_vars, tidy'
    PROVE  tidy
<1>1. ASSUME NEW c \in Calls, Step(c)
      PROVE  tidy
  BY <1>1
  DEF Step, CheckExists, CheckBlind, ReadMax, ReadMaxBlind, InsertSong, InsertRejected,
      FetchSongs, MoveSong, Commit, Rollback, DeleteSongs, DropPlaylist, StatementFails
<1>2. ASSUME NEW c \in Calls, NEW p \in Playlists,
             \/ \E s \in Songs : AddSong(c, p, s)
             \/ \E o \in Orders : ReorderSongs(c, p, o)
             \/ UpdatePlaylist(c, p) \/ DeletePlaylist(c, p)
      PROVE  tidy
  BY <1>2 DEF AddSong, ReorderSongs, UpdatePlaylist, DeletePlaylist, Arrives
<1>3. ASSUME NEW p \in Playlists,
             CreatePlaylist(p) \/ \E s \in Songs : RemoveSong(p, s)
      PROVE  tidy
  BY <1>3 DEF CreatePlaylist, RemoveSong
<1>4. ASSUME Crash \/ UNCHANGED vars
      PROVE  tidy
  BY <1>4 DEF Crash, vars
<1> QED
  BY <1>1, <1>2, <1>3, <1>4, Zenon DEF Next

\* A draft ends with its transaction.
LEMMA NoDraftNext ==
    ASSUME OnceInv, NoDraft, [Next]_vars
    PROVE  NoDraft'
<1>1. ASSUME NEW c \in Calls, InsertSong(c)
      PROVE  NoDraft'
  BY <1>1 DEF InsertSong, transaction, NoDraft
<1>2. ASSUME NEW c \in Calls, MoveSong(c)
      PROVE  NoDraft'
  BY <1>2, NoneAssumption DEF MoveSong, NoDraft
<1>3. ASSUME NEW c \in Calls, Commit(c)
      PROVE  NoDraft'
  BY <1>3 DEF Commit, EndTransaction, NoDraft
<1> QED
  BY <1>1, <1>2, <1>3, TableSteps DEF NoDraft

\* Every tidy step keeps songs with their playlist: nobody adds a song to a
\* playlist that another call is deleting.
LEMMA AloneNext ==
    ASSUME TidyInv, [Next]_vars, tidy'
    PROVE  Alone'
<1>0. /\ Alone /\ TypeOK /\ TypeInv /\ LockIsLetGo /\ NoDraft
      /\ pc \in [Calls -> {"idle"} \cup Running \cup Ended]
      /\ list \in [Calls -> Playlists \cup {None}]
      /\ rows \subseteq Row /\ draft \subseteq Row
  BY TidyBefore DEF TidyInv, OnceInv, TypeInv, TypeOK
<1> USE DEF tables, transaction, request
<1>1. ASSUME NEW p \in Playlists, CreatePlaylist(p)
      PROVE  Alone'
  BY <1>0, <1>1 DEF CreatePlaylist, Alone
<1>2. ASSUME NEW p \in Playlists, NEW s \in Songs, RemoveSong(p, s)
      PROVE  Alone'
  BY <1>0, <1>2 DEF RemoveSong, Alone
<1>3. ASSUME NEW c \in Calls, NEW p \in Playlists,
             \/ \E s \in Songs : AddSong(c, p, s)
             \/ \E o \in Orders : ReorderSongs(c, p, o)
             \/ UpdatePlaylist(c, p) \/ DeletePlaylist(c, p)
      PROVE  Alone'
  <2>1. /\ Quiet /\ list' = [list EXCEPT ![c] = p] /\ UNCHANGED <<tables, transaction>>
        /\ \E w : pc' = [pc EXCEPT ![c] = w] /\ w # "drop" /\ (w \in Running => p \in playlists)
    BY <1>3
    DEF AddSong, ReorderSongs, UpdatePlaylist, DeletePlaylist, Arrives, Goto, Running
  <2>2. PICK w : pc' = [pc EXCEPT ![c] = w] /\ w # "drop" /\ (w \in Running => p \in playlists)
    BY <2>1
  <2>3. \A o \in Calls : pc'[o] \in Running => o = c
    BY <1>0, <2>1, <2>2 DEF Quiet
  <2>4. pc'[c] = w /\ list'[c] = p
    BY <1>0, <2>1, <2>2
  <2> QED
    BY <1>0, <2>1, <2>2, <2>3, <2>4 DEF Alone, Running
<1>4. ASSUME NEW c \in Calls,
             \/ CheckExists(c) \/ CheckBlind(c) \/ ReadMax(c) \/ ReadMaxBlind(c)
             \/ InsertRejected(c) \/ FetchSongs(c) \/ StatementFails(c)
      PROVE  Alone'
  <2>1. /\ pc[c] \in Running /\ UNCHANGED <<playlists, rows, draft, list>>
        /\ \E w : pc' = [pc EXCEPT ![c] = w] /\ w # "drop" /\ (w \in Running => pc[c] # "drop")
    BY <1>4
    DEF CheckExists, CheckBlind, ReadMax, ReadMaxBlind, InsertRejected, FetchSongs, AfterSong,
        StatementFails, Goto, Running
  <2> QED
    BY <1>0, <2>1 DEF Alone, Running
<1>5. ASSUME NEW c \in Calls, InsertSong(c)
      PROVE  Alone'
  <2> DEFINE new == [id |-> c, playlist |-> list[c], song |-> song[c],
                     position |-> NewPosition(c)]
  <2>1. /\ pc[c] \in Running \ {"drop"} /\ pc' = [pc EXCEPT ![c] = "done"]
        /\ UNCHANGED <<playlists, draft, list>>
        /\ rows' = rows \cup {new} /\ new.playlist = list[c]
    BY <1>5 DEF InsertSong, Goto, Running
  <2> HIDE DEF new
  <2>2. "done" \notin Running
    BY DEF Running
  <2>3. \A o \in Calls : pc'[o] \notin Running
    BY <1>0, <2>1, <2>2 DEF Alone
  <2>4. list[c] \in playlists
    BY <1>0, <2>1 DEF Alone
  <2> QED
    BY <1>0, <2>1, <2>3, <2>4 DEF Alone, Running
<1>6. ASSUME NEW c \in Calls, MoveSong(c)
      PROVE  Alone'
  <2>1. /\ pc[c] = "move" /\ UNCHANGED <<playlists, rows, list>>
        /\ draft' = Moved(c, draft) \/ draft' = Moved(c, rows)
        /\ pc' = [pc EXCEPT ![c] = "move"] \/ pc' = [pc EXCEPT ![c] = "commit"]
    BY <1>6 DEF MoveSong, Goto, AfterSong
  <2>2. \A t \in Moved(c, draft) \cup Moved(c, rows) :
           \E r \in rows \cup draft : r.playlist = t.playlist
    BY <1>0, <2>1, MovedRows
  <2>3. \A t \in draft' : t.playlist \in playlists
    BY <1>0, <2>1, <2>2 DEF Alone
  <2> QED
    BY <1>0, <2>1, <2>3 DEF Alone, Running
<1>7. ASSUME NEW c \in Calls, Commit(c) \/ Rollback(c)
      PROVE  Alone'
  <2>1. /\ pc[c] \in {"move", "commit"} /\ UNCHANGED <<playlists, list>>
        /\ rows' \subseteq rows \cup draft /\ draft' \subseteq draft
        /\ pc' = [pc EXCEPT ![c] = "done"] \/ pc' = [pc EXCEPT ![c] = "failed"]
    BY <1>7 DEF Commit, Rollback, EndTransaction, Goto
  <2>2. \A o \in Calls : pc'[o] \notin Running
    BY <1>0, <2>1 DEF Alone, Running
  <2> QED
    BY <1>0, <2>1, <2>2 DEF Alone, Running
<1>8. ASSUME NEW c \in Calls, DeleteSongs(c)
      PROVE  Alone'
  <2>1. /\ pc[c] = "clear" /\ UNCHANGED <<playlists, draft, list>>
        /\ rows' = rows \ RowsOf(list[c]) /\ pc' = [pc EXCEPT ![c] = "drop"]
    BY <1>8 DEF DeleteSongs, Goto
  <2>2. \A o \in Calls : pc'[o] \in Running => o = c
    BY <1>0, <2>1 DEF Alone, Running
  <2>3. pc'[c] = "drop"
    BY <1>0, <2>1
  <2>4. \A r \in rows' : r \in rows /\ r.playlist # list[c]
    BY <2>1 DEF RowsOf
  <2> QED
    BY <1>0, <2>1, <2>2, <2>3, <2>4 DEF Alone, Running
<1>9. ASSUME NEW c \in Calls, DropPlaylist(c)
      PROVE  Alone'
  <2>1. /\ pc[c] = "drop" /\ writer = None /\ UNCHANGED <<rows, draft, list>>
        /\ playlists' = playlists \ {list[c]}
        /\ pc' = [pc EXCEPT ![c] = "done"] \/ pc' = [pc EXCEPT ![c] = "failed"]
    BY <1>9 DEF DropPlaylist, MayWrite, Goto
  <2>2. \A o \in Calls : pc'[o] \notin Running
    BY <1>0, <2>1 DEF Alone, Running
  <2>3. draft = {} /\ \A r \in rows : r.playlist # list[c]
    BY <1>0, <2>1 DEF Alone, NoDraft
  <2> QED
    BY <1>0, <2>1, <2>2, <2>3 DEF Alone, Running
<1>10. ASSUME Crash
       PROVE  Alone'
  BY <1>0, <1>10 DEF Crash, Alone, Running
<1>11. ASSUME UNCHANGED vars
       PROVE  Alone'
  BY <1>0, <1>11 DEF vars, Alone
<1> QED
  BY <1>1, <1>2, <1>3, <1>4, <1>5, <1>6, <1>7, <1>8, <1>9, <1>10, <1>11, Zenon DEF Next, Step

\* A song that is listed has its playlist, wherever a call is cut short.
THEOREM SongsHaveTheirPlaylist == Spec => []NoOrphans
<1>1. Init => TidyInv
  BY OnceInvInit DEF Init, TidyInv, NoDraft, Alone, Running
<1>2. TidyInv /\ [Next]_vars => TidyInv'
  BY OnceInvNext, NoDraftNext, AloneNext DEF TidyInv
<1>3. TidyInv => NoOrphans
  BY DEF TidyInv, Alone, NoOrphans
<1> QED
  BY <1>1, <1>2, <1>3, PTL DEF Spec

-----------------------------------------------------------------------------
(* Reorders. *)

\* A row has the id of the AddSong call that made it, which has ended.
Added == \A r \in rows \cup draft : pc[r.id] = "done"

\* The id is the primary key of the table.
IdsDiffer == \A r, t \in rows : r.id = t.id => r = t

\* A call that has not written has moved nothing.
NotBegun == \A c \in Calls : pc[c] = "move" /\ writer # c => next[c] = 1

\* A draft has the rows of the table; those of other songs than the writer moves are
\* where they were.
DraftFrom(w) ==
    \A t \in draft : \E r \in rows :
        /\ r.id = t.id /\ r.playlist = t.playlist /\ r.song = t.song
        /\ \/ r.position = t.position
           \/ t.playlist = list[w] /\ Contains(order[w], t.song)

\* The last of the first n ids of an order that names the song is at i.
LastOf(o, n, s, i) == i \in 1 .. n /\ o[i] = s /\ \A j \in i + 1 .. n : o[j] # s

\* In a draft the songs that were moved are where they were last moved to.
DraftMoved(w) ==
    \A u \in draft, i \in Nat :
        u.playlist = list[w] /\ LastOf(order[w], next[w] - 1, u.song, i) =>
            u.position = Place(i)

\* A draft is the table with the first songs of the writer's order moved.
DraftInv == \A w \in Calls : writer = w => DraftFrom(w) /\ DraftMoved(w)

\* What a commit relies on: the draft, and rows that are known by their ids.
ReorderInv == OnceInv /\ NoDraft /\ Added /\ IdsDiffer /\ NotBegun /\ DraftInv

\* A step changes the state of one call, unless the process dies, and never of a
\* call that is done; it leaves the request of a call that is on its way.
LEMMA CallSteps ==
    ASSUME TypeInv, [Next]_vars, NEW c \in Calls
    PROVE  /\ pc[c] = "done" => pc'[c] = "done"
           /\ pc[c] # "idle" => list'[c] = list[c] /\ order'[c] = order[c]
           /\ pc'[c] = "move" => \/ MoveSong(c)
                                 \/ next'[c] = 1 /\ pc[c] = "fetch"
                                 \/ next'[c] = next[c] /\ pc[c] = "move"
           /\ next'[c] = next[c] \/ MoveSong(c)
<1>0. /\ pc \in [Calls -> {"idle"} \cup Running \cup Ended]
      /\ list \in [Calls -> Playlists \cup {None}] /\ order \in [Calls -> Seq(Songs)]
      /\ next \in [Calls -> Nat \ {0}]
      /\ pc[c] = "fetch" => next[c] = 1
  BY DEF TypeInv, TypeOK, Requests
<1> USE DEF request
<1>1. ASSUME NEW p \in Playlists,
             CreatePlaylist(p) \/ \E s \in Songs : RemoveSong(p, s)
      PROVE  UNCHANGED <<pc, list, order, next>>
  BY <1>1 DEF CreatePlaylist, RemoveSong
<1>2. ASSUME NEW o \in Calls, NEW p \in Playlists,
             \/ \E s \in Songs : AddSong(o, p, s)
             \/ \E q \in Orders : ReorderSongs(o, p, q)
             \/ UpdatePlaylist(o, p) \/ DeletePlaylist(o, p)
      PROVE  /\ pc[o] = "idle" /\ next' = next
             /\ \E w : pc' = [pc EXCEPT ![o] = w] /\ w # "move"
             /\ list' = [list EXCEPT ![o] = p]
             /\ order' = order \/ \E q : order' = [order EXCEPT ![o] = q]
  BY <1>2
  DEF AddSong, ReorderSongs, UpdatePlaylist, DeletePlaylist, Arrives, Goto
<1>3. ASSUME NEW o \in Calls,
             \/ CheckExists(o) \/ CheckBlind(o) \/ ReadMax(o) \/ ReadMaxBlind(o)
             \/ InsertSong(o) \/ InsertRejected(o) \/ Commit(o) \/ Rollback(o)
             \/ DeleteSongs(o) \/ DropPlaylist(o) \/ StatementFails(o)
      PROVE  /\ pc[o] \in Running /\ UNCHANGED <<list, order, next>>
             /\ \E w : pc' = [pc EXCEPT ![o] = w] /\ w # "move"
  BY <1>3
  DEF CheckExists, CheckBlind, ReadMax, ReadMaxBlind, InsertSong, InsertRejected, Commit,
      Rollback, DeleteSongs, DropPlaylist, StatementFails, Goto, Running
<1>4. ASSUME NEW o \in Calls, FetchSongs(o)
      PROVE  /\ pc[o] = "fetch" /\ UNCHANGED <<list, order, next>>
             /\ \E w : pc' = [pc EXCEPT ![o] = w]
  BY <1>4 DEF FetchSongs, Goto
<1>5. ASSUME NEW o \in Calls, MoveSong(o)
      PROVE  /\ pc[o] = "move" /\ UNCHANGED <<list, order>>
             /\ next' = [next EXCEPT ![o] = @ + 1]
             /\ \E w : pc' = [pc EXCEPT ![o] = w]
  BY <1>5 DEF MoveSong, Goto
<1>6. CASE UNCHANGED <<pc, list, order, next>>
  BY <1>6
<1>7. ASSUME NEW o \in Calls, NEW p \in Playlists,
             \/ \E s \in Songs : AddSong(o, p, s)
             \/ \E q \in Orders : ReorderSongs(o, p, q)
             \/ UpdatePlaylist(o, p) \/ DeletePlaylist(o, p)
      PROVE  /\ pc[c] = "done" => pc'[c] = "done"
             /\ pc[c] # "idle" => list'[c] = list[c] /\ order'[c] = order[c]
             /\ pc'[c] = "move" => next'[c] = next[c] /\ pc[c] = "move"
             /\ next'[c] = next[c]
  BY <1>0, <1>2, <1>7
<1>8. ASSUME NEW o \in Calls,
             \/ CheckExists(o) \/ CheckBlind(o) \/ ReadMax(o) \/ ReadMaxBlind(o)
             \/ InsertSong(o) \/ InsertRejected(o) \/ Commit(o) \/ Rollback(o)
             \/ DeleteSongs(o) \/ DropPlaylist(o) \/ StatementFails(o)
      PROVE  /\ pc[c] = "done" => pc'[c] = "done"
             /\ pc[c] # "idle" => list'[c] = list[c] /\ order'[c] = order[c]
             /\ pc'[c] = "move" => next'[c] = next[c] /\ pc[c] = "move"
             /\ next'[c] = next[c]
  BY <1>0, <1>3, <1>8 DEF Running
<1>9. ASSUME NEW o \in Calls, FetchSongs(o)
      PROVE  /\ pc[c] = "done" => pc'[c] = "done"
             /\ pc[c] # "idle" => list'[c] = list[c] /\ order'[c] = order[c]
             /\ pc'[c] = "move" => \/ next'[c] = 1 /\ pc[c] = "fetch"
                                   \/ next'[c] = next[c] /\ pc[c] = "move"
             /\ next'[c] = next[c]
  BY <1>0, <1>4, <1>9
<1>10. ASSUME NEW o \in Calls, MoveSong(o)
       PROVE  /\ pc[c] = "done" => pc'[c] = "done"
              /\ pc[c] # "idle" => list'[c] = list[c] /\ order'[c] = order[c]
              /\ o # c => pc'[c] = pc[c] /\ next'[c] = next[c]
  <2>1. /\ pc[o] = "move" /\ UNCHANGED <<list, order>>
        /\ next' = [next EXCEPT ![o] = next[o] + 1]
        /\ \E w : pc' = [pc EXCEPT ![o] = w]
    BY <1>5, <1>10
  <2>2. o = c \/ pc'[c] = pc[c]
    BY <1>0, <2>1
  <2>3. o = c \/ next'[c] = next[c]
    BY <1>0, <2>1
  <2>4. pc[c] = "done" => pc'[c] = "done"
    BY <2>1, <2>2
  <2>5. list'[c] = list[c] /\ order'[c] = order[c]
    BY <2>1
  <2> QED
    BY <2>2, <2>3, <2>4, <2>5
<1>11. CASE Crash
  BY <1>0, <1>11 DEF Crash, Running
<1>12. CASE UNCHANGED vars
  BY <1>12 DEF vars
<1>13. ASSUME NEW o \in Calls, MoveSong(o), o # c
       PROVE  pc'[c] = "move" => next'[c] = next[c] /\ pc[c] = "move"
  BY <1>10, <1>13
<1> QED
  BY <1>1, <1>6, <1>7, <1>8, <1>9, <1>10, <1>11, <1>12, <1>13 DEF Next, Step

\* A moved song is in its place, and no other song of the order is disturbed.
LEMMA MovedInPlace ==
    ASSUME TypeInv, NEW c \in Calls, pc[c] = "move", NEW table \in SUBSET Row,
           NEW u \in Moved(c, table), u.playlist = list[c],
           NEW i \in Nat, LastOf(order[c], next[c], u.song, i)
    PROVE  \/ u.position = Place(i)
           \/ u \in table /\ LastOf(order[c], next[c] - 1, u.song, i)
<1>1. next[c] \in Nat \ {0}
  BY MovedPosition DEF TypeInv, TypeOK
<1>2. /\ i \in 1 .. next[c] /\ order[c][i] = u.song
      /\ \A j \in i + 1 .. next[c] : order[c][j] # u.song
  BY DEF LastOf
<1>3. \/ u.song = order[c][next[c]] /\ u.position = Place(next[c])
      \/ u.song # order[c][next[c]] /\ u \in table
  BY MovedRows
<1>4. CASE u.song = order[c][next[c]]
  <2>1. i = next[c]
    BY <1>1, <1>2, <1>4
  <2> QED
    BY <1>3, <1>4, <2>1
<1>5. CASE u.song # order[c][next[c]]
  <2>1. i \in 1 .. next[c] - 1 /\ \A j \in i + 1 .. next[c] - 1 : j \in i + 1 .. next[c]
    BY <1>1, <1>2, <1>5
  <2> QED
    BY <1>2, <1>3, <1>5, <2>1 DEF LastOf
<1> QED
  BY <1>4, <1>5

\* A writer that is still to move songs keeps the lock.
LEMMA WriterKeeps ==
    ASSUME TypeInv, LockIsLetGo, [Next]_vars, NEW c \in Calls, writer = c, pc'[c] = "move"
    PROVE  writer' = c
<1>0. /\ pc \in [Calls -> {"idle"} \cup Running \cup Ended]
      /\ pc[c] \in {"move", "commit"} /\ c # None
  BY NoneAssumption DEF TypeInv, TypeOK, LockIsLetGo
<1>1. ASSUME NEW o \in Calls, Commit(o) \/ Rollback(o)
      PROVE  writer' = c
  <2>1. o # c
    BY <1>0, <1>1 DEF Commit, Rollback, Goto
  <2> QED
    BY <1>1, <2>1 DEF Commit, Rollback, EndTransaction
<1>2. ASSUME NEW o \in Calls, MoveSong(o)
      PROVE  writer' = c
  BY <1>0, <1>2 DEF MoveSong
<1>3. ASSUME NEW o \in Calls,
             \/ CheckExists(o) \/ CheckBlind(o) \/ ReadMax(o) \/ ReadMaxBlind(o)
             \/ InsertSong(o) \/ InsertRejected(o) \/ FetchSongs(o)
             \/ DeleteSongs(o) \/ DropPlaylist(o) \/ StatementFails(o)
      PROVE  writer' = c
  BY <1>3
  DEF CheckExists, CheckBlind, ReadMax, ReadMaxBlind, InsertSong, InsertRejected,
      FetchSongs, DeleteSongs, DropPlaylist, StatementFails, transaction
<1>4. ASSUME NEW o \in Calls, NEW p \in Playlists,
             \/ \E s \in Songs : AddSong(o, p, s)
             \/ \E q \in Orders : ReorderSongs(o, p, q)
             \/ UpdatePlaylist(o, p) \/ DeletePlaylist(o, p)
      PROVE  writer' = c
  BY <1>4 DEF AddSong, ReorderSongs, UpdatePlaylist, DeletePlaylist, transaction
<1>5. ASSUME NEW p \in Playlists,
             CreatePlaylist(p) \/ \E s \in Songs : RemoveSong(p, s)
      PROVE  writer' = c
  BY <1>5 DEF CreatePlaylist, RemoveSong, transaction
<1>6. ~ Crash
  BY <1>0 DEF Crash, Running
<1>7. ASSUME UNCHANGED vars
      PROVE  writer' = c
  BY <1>7 DEF vars, transaction
<1> QED
  BY <1>1, <1>2, <1>3, <1>4, <1>5, <1>6, <1>7, Zenon DEF Next, Step

\* Every step keeps what a commit relies on: while a draft exists nobody else
\* writes, and its writer keeps its order.
LEMMA ReorderInvNext == ReorderInv /\ [Next]_vars => ReorderInv'
<1> SUFFICES ASSUME ReorderInv, [Next]_vars
             PROVE  ReorderInv'
  OBVIOUS
<1>0. /\ OnceInv /\ NoDraft /\ Added /\ IdsDiffer /\ NotBegun /\ DraftInv
      /\ TypeInv /\ Once(rows) /\ Once(draft) /\ LockIsLetGo
      /\ rows \subseteq Row /\ draft \subseteq Row
      /\ pc \in [Calls -> {"idle"} \cup Running \cup Ended]
      /\ next \in [Calls -> Nat \ {0}]
      /\ writer \in Calls \cup {None} /\ None \notin Calls
  BY NoneAssumption DEF ReorderInv, OnceInv, TypeInv, TypeOK
<1>1. OnceInv' /\ NoDraft'
  BY <1>0, OnceInvNext, NoDraftNext
<1>2. \A c \in Calls :
        /\ pc[c] = "done" => pc'[c] = "done"
        /\ pc[c] # "idle" => list'[c] = list[c] /\ order'[c] = order[c]
        /\ pc'[c] = "move" => \/ MoveSong(c)
                              \/ next'[c] = 1 /\ pc[c] = "fetch"
                              \/ next'[c] = next[c] /\ pc[c] = "move"
        /\ next'[c] = next[c] \/ MoveSong(c)
  BY <1>0, CallSteps
<1>3. \A c \in Calls : writer = c => pc[c] \in {"move", "commit"}
  BY <1>0 DEF LockIsLetGo
<1>4. \A r \in rows \cup draft : r.id \in Calls /\ pc[r.id] = "done" /\ pc'[r.id] = "done"
  <2>1. \A r \in rows \cup draft : r.id \in Calls
    BY <1>0 DEF Row
  <2> QED
    BY <1>0, <1>2, <2>1 DEF Added
<1>5. ASSUME NEW c \in Calls, MoveSong(c)
      PROVE  Added' /\ IdsDiffer' /\ NotBegun' /\ DraftInv'
  <2>1. /\ pc[c] = "move" /\ writer' = c /\ rows' = rows
        /\ writer = c \/ writer = None
        /\ writer = c => draft' = Moved(c, draft)
        /\ writer = None => draft' = Moved(c, rows)
        /\ next' = [next EXCEPT ![c] = @ + 1]
    BY <1>0, <1>5 DEF MoveSong, tables
  <2>2. list'[c] = list[c] /\ order'[c] = order[c] /\ next'[c] = next[c] + 1
    BY <1>0, <1>2, <2>1
  <2> DEFINE old == IF writer = c THEN draft ELSE rows
  <2>3. /\ old \in SUBSET Row /\ draft' = Moved(c, old)
        /\ (old = draft /\ writer = c) \/ (old = rows /\ writer = None)
    BY <1>0, <2>1
  <2> HIDE DEF old
  <2>4. \A t \in draft' : \E r \in old :
           /\ r.id = t.id /\ r.playlist = t.playlist /\ r.song = t.song
           /\ \/ t.playlist = list[c] /\ t.song = order[c][next[c]]
              \/ t = r
    BY <1>0, <2>1, <2>3, MovedRows
  <2>5. Added'
    BY <1>4, <2>1, <2>3, <2>4 DEF Added
  <2>6. IdsDiffer'
    BY <1>0, <2>1 DEF IdsDiffer
  <2>7. NotBegun'
    <3> SUFFICES ASSUME NEW o \in Calls, pc'[o] = "move", writer' # o
                 PROVE  next'[o] = 1
      BY DEF NotBegun
    <3>1. o # c /\ writer # o
      BY <1>0, <2>1
    <3>2. ~ MoveSong(o)
      BY <1>0, <2>1, <3>1 DEF MoveSong
    <3> QED
      BY <1>0, <1>2, <3>1, <3>2 DEF NotBegun
  <2>8. DraftFrom(c)'
    <3> SUFFICES ASSUME NEW t \in draft'
                 PROVE  \E r \in rows :
                          /\ r.id = t.id /\ r.playlist = t.playlist /\ r.song = t.song
                          /\ \/ r.position = t.position
                             \/ t.playlist = list[c] /\ Contains(order[c], t.song)
      BY <2>1, <2>2 DEF DraftFrom
    <3>1. PICK r \in old :
             /\ r.id = t.id /\ r.playlist = t.playlist /\ r.song = t.song
             /\ \/ t.playlist = list[c] /\ t.song = order[c][next[c]]
                \/ t = r
      BY <2>4
    <3>2. next[c] \in 1 .. Len(order[c])
      BY <1>0, <2>1, MovedPosition
    <3>3. t.song = order[c][next[c]] => Contains(order[c], t.song)
      BY <3>2 DEF Contains
    <3>4. CASE old = rows
      BY <3>1, <3>3, <3>4
    <3>5. CASE old = draft /\ writer = c
      <4>1. PICK r1 \in rows :
               /\ r1.id = r.id /\ r1.playlist = r.playlist /\ r1.song = r.song
               /\ \/ r1.position = r.position
                  \/ r.playlist = list[c] /\ Contains(order[c], r.song)
        BY <1>0, <3>1, <3>5 DEF DraftInv, DraftFrom
      <4> QED
        BY <3>1, <3>3, <4>1
    <3> QED
      BY <2>3, <3>4, <3>5
  <2>9. DraftMoved(c)'
    <3> SUFFICES ASSUME NEW u \in draft', NEW i \in Nat, u.playlist = list[c],
                        LastOf(order[c], next[c], u.song, i)
                 PROVE  u.position = Place(i)
      <4>1. next'[c] - 1 = next[c]
        BY <1>0, <2>2
      <4> QED
        BY <2>2, <4>1, Zenon DEF DraftMoved, LastOf
    <3>1. \/ u.position = Place(i)
          \/ u \in old /\ LastOf(order[c], next[c] - 1, u.song, i)
      BY <1>0, <2>1, <2>3, MovedInPlace
    <3>2. ASSUME u \in old, LastOf(order[c], next[c] - 1, u.song, i)
          PROVE  u.position = Place(i)
      <4>1. next[c] # 1
        BY <3>2 DEF LastOf
      <4>2. writer = c
        BY <1>0, <2>1, <4>1 DEF NotBegun
      <4>3. DraftMoved(c) /\ u \in draft
        BY <1>0, <2>3, <3>2, <4>2 DEF DraftInv
      <4> QED
        BY <3>2, <4>3 DEF DraftMoved
    <3> QED
      BY <3>1, <3>2
  <2> QED
    BY <2>1, <2>5, <2>6, <2>7, <2>8, <2>9 DEF DraftInv
<1>6. ASSUME \A c \in Calls : ~ MoveSong(c)
      PROVE  Added' /\ IdsDiffer' /\ NotBegun' /\ DraftInv'
  <2>1. ASSUME NEW w \in Calls, writer = w, writer' = w, UNCHANGED <<rows, draft>>
        PROVE  DraftFrom(w)' /\ DraftMoved(w)'
    <3>1. DraftFrom(w) /\ DraftMoved(w)
      BY <1>0, <2>1 DEF DraftInv
    <3>2. list'[w] = list[w] /\ order'[w] = order[w] /\ next'[w] = next[w]
      BY <1>2, <1>3, <1>6, <2>1
    <3> QED
      BY <2>1, <3>1, <3>2 DEF DraftFrom, DraftMoved, LastOf
  <2>2. NotBegun'
    <3> SUFFICES ASSUME NEW o \in Calls, pc'[o] = "move", writer' # o
                 PROVE  next'[o] = 1
      BY DEF NotBegun
    <3>1. writer # o
      BY <1>0, WriterKeeps
    <3> QED
      BY <1>0, <1>2, <1>6, <3>1 DEF NotBegun
  <2>3. CASE UNCHANGED <<rows, writer, draft>>
    BY <1>0, <1>4, <2>1, <2>2, <2>3 DEF Added, IdsDiffer, DraftInv
  <2>4. CASE writer = None /\ UNCHANGED <<writer, draft>> /\ rows' \subseteq rows
    BY <1>0, <1>4, <2>2, <2>4 DEF Added, IdsDiffer, DraftInv
  <2>5. ASSUME NEW c \in Calls, InsertSong(c)
        PROVE  Added' /\ IdsDiffer' /\ NotBegun' /\ DraftInv'
    <3> DEFINE new == [id |-> c, playlist |-> list[c], song |-> song[c],
                       position |-> NewPosition(c)]
    <3>1. /\ pc[c] = "insert" /\ pc' = [pc EXCEPT ![c] = "done"] /\ writer = None
          /\ writer' = None /\ draft' = draft
          /\ rows' = rows \cup {new} /\ new.id = c
      BY <2>5 DEF InsertSong, MayWrite, Goto, transaction
    <3> HIDE DEF new
    <3>2. pc'[c] = "done" /\ \A r \in rows : r.id # c
      BY <1>0, <1>4, <3>1
    <3> QED
      BY <1>0, <1>4, <2>2, <3>1, <3>2 DEF Added, IdsDiffer, DraftInv
  <2>6. ASSUME NEW c \in Calls, Commit(c), writer = c
        PROVE  Added' /\ IdsDiffer' /\ NotBegun' /\ DraftInv'
    <3>1. rows' = draft /\ draft' = {} /\ writer' = None
      BY <2>6 DEF Commit, EndTransaction
    <3>2. ASSUME NEW t \in draft, NEW u \in draft, t.id = u.id
          PROVE  t = u
      <4>1. DraftFrom(c)
        BY <1>0, <2>6 DEF DraftInv
      <4>2. PICK r \in rows : r.id = t.id /\ r.playlist = t.playlist /\ r.song = t.song
        BY <4>1 DEF DraftFrom
      <4>3. PICK q \in rows : q.id = u.id /\ q.playlist = u.playlist /\ q.song = u.song
        BY <4>1 DEF DraftFrom
      <4>4. r = q
        BY <1>0, <3>2, <4>2, <4>3 DEF IdsDiffer
      <4> QED
        BY <1>0, <4>2, <4>3, <4>4 DEF Once
    <3> QED
      BY <1>0, <1>4, <2>2, <3>1, <3>2 DEF Added, IdsDiffer, DraftInv
  <2>7. ASSUME NEW c \in Calls, Commit(c), writer # c
        PROVE  Added' /\ IdsDiffer' /\ NotBegun' /\ DraftInv'
    <3>1. UNCHANGED <<rows, writer, draft>>
      BY <2>7 DEF Commit, EndTransaction
    <3> QED
      BY <2>3, <3>1
  <2>8. CASE writer' = None /\ draft' = {} /\ UNCHANGED rows
    BY <1>0, <1>4, <2>2, <2>8 DEF Added, IdsDiffer, DraftInv
  <2> QED
    BY <1>6, <2>3, <2>4, <2>5, <2>6, <2>7, <2>8, TableSteps
<1> QED
  BY <1>1, <1>5, <1>6 DEF ReorderInv

\* There are no rows, and nothing was moved, at first.
LEMMA ReorderInvInit == Init => ReorderInv
  BY OnceInvInit, NoneAssumption
  DEF Init, ReorderInv, NoDraft, Added, IdsDiffer, NotBegun, DraftInv

\* A step that moves songs puts every song of one request where the request last
\* names it, whatever ids the requests that race repeat or leave out.
THEOREM ReordersComeWhole == Spec => ReordersAreWhole
<1> DEFINE Whole ==
        \A r \in rows, t \in rows' :
            r.id = t.id /\ r.position # t.position =>
                \E c \in Calls :
                    /\ list[c] = r.playlist
                    /\ Contains(order[c], r.song)
                    /\ \A u \in rows' :
                        u.playlist = list[c] /\ Contains(order[c], u.song) =>
                            u.position = Place(LastMention(order[c], u.song))
<1>1. Init => ReorderInv
  BY ReorderInvInit
<1>2. ReorderInv /\ [Next]_vars => ReorderInv'
  BY ReorderInvNext
<1>3. ReorderInv /\ [Next]_vars => [Whole]_vars
  <2> SUFFICES ASSUME ReorderInv, [Next]_vars,
                      NEW r \in rows, NEW t \in rows', r.id = t.id, r.position # t.position
               PROVE  \E c \in Calls :
                        /\ list[c] = r.playlist
                        /\ Contains(order[c], r.song)
                        /\ \A u \in rows' :
                            u.playlist = list[c] /\ Contains(order[c], u.song) =>
                                u.position = Place(LastMention(order[c], u.song))
    BY DEF Whole
  <2>0. /\ IdsDiffer /\ Added /\ DraftInv /\ TypeInv
        /\ order \in [Calls -> Seq(Songs)] /\ rows \subseteq Row
    BY DEF ReorderInv, OnceInv, TypeInv, TypeOK
  <2>1. t \notin rows
    BY <2>0 DEF IdsDiffer
  <2>2. \A c \in Calls : ~ InsertSong(c)
    <3> SUFFICES ASSUME NEW c \in Calls, InsertSong(c)
                 PROVE  FALSE
      OBVIOUS
    <3>1. pc[c] = "insert" /\ t.id = c
      BY <2>1 DEF InsertSong
    <3> QED
      BY <2>0, <3>1 DEF Added
  <2>3. PICK c \in Calls : Commit(c) /\ writer = c
    BY <2>1, <2>2, TableSteps DEF MoveSong, tables, Commit
  <2>4. /\ rows' = draft /\ pc[c] = "commit"
        /\ DraftFrom(c) /\ DraftMoved(c)
    BY <2>0, <2>3 DEF Commit, DraftInv
  <2>5. PICK q \in rows :
           /\ q.id = t.id /\ q.playlist = t.playlist /\ q.song = t.song
           /\ \/ q.position = t.position
              \/ t.playlist = list[c] /\ Contains(order[c], t.song)
    BY <2>4 DEF DraftFrom
  <2>6. q = r
    BY <2>0, <2>5 DEF IdsDiffer
  <2>7. list[c] = r.playlist /\ Contains(order[c], r.song)
    BY <2>5, <2>6
  <2>8. next[c] - 1 = Len(order[c])
    <3>1. Len(order[c]) \in Nat
      BY <2>0
    <3>2. next[c] = Len(order[c]) + 1
      BY <2>0, <2>4 DEF TypeInv, Requests
    <3> QED
      BY <3>1, <3>2
  <2>9. ASSUME NEW u \in rows', u.playlist = list[c], Contains(order[c], u.song)
        PROVE  u.position = Place(LastMention(order[c], u.song))
    <3>1. PICK i : i = LastMention(order[c], u.song)
      OBVIOUS
    <3>2. order[c] \in Seq(Songs)
      BY <2>0
    <3>3. i \in Nat /\ LastOf(order[c], Len(order[c]), u.song, i)
      BY <2>9, <3>1, <3>2, LastMentionIs DEF LastOf
    <3> QED
      BY <2>4, <2>8, <2>9, <3>1, <3>3 DEF DraftMoved
  <2> QED
    BY <2>7, <2>9
<1> QED
  BY <1>1, <1>2, <1>3, PTL DEF Spec, ReordersAreWhole

-----------------------------------------------------------------------------
(* Rows in the order of their positions. *)

\* q has the rows of S, each once, by growing positions.
Sorts(q, n, S) ==
    /\ n \in Nat
    /\ q \in [1 .. n -> S]
    /\ \A i, j \in 1 .. n : i < j => q[i].position < q[j].position
    /\ \A r \in S : \E i \in 1 .. n : q[i] = r

\* There is one way to put rows in order.
LEMMA SortsOne ==
    ASSUME NEW S \in SUBSET Row, NEW n, NEW q, NEW s, Sorts(q, n, S), Sorts(s, n, S)
    PROVE  s = q
<1>0. /\ n \in Nat /\ q \in [1 .. n -> S] /\ s \in [1 .. n -> S]
      /\ \A i, j \in 1 .. n : i < j => q[i].position < q[j].position
      /\ \A i, j \in 1 .. n : i < j => s[i].position < s[j].position
      /\ \A r \in S : \E i \in 1 .. n : q[i] = r
      /\ \A r \in S : \E i \in 1 .. n : s[i] = r
  BY DEF Sorts
<1>a. \A r, t \in S : r.position < t.position => ~ (t.position < r.position) /\ r # t
  <2>1. \A r \in S : r.position \in Int
    BY PositionAssumption DEF Row, Positions
  <2> QED
    BY <2>1
<1> DEFINE Differ == {i \in 1 .. n : s[i] # q[i]}
           Less == OpToRel(<, Nat)
<1>1. SUFFICES ASSUME Differ # {}
               PROVE  FALSE
  <2>1. CASE Differ = {}
    <3>1. \A i \in 1 .. n : s[i] = q[i]
      BY <2>1
    <3> QED
      BY <1>0, <3>1
  <2> QED
    BY <2>1
<1>2. PICK k \in Differ : \A i \in Differ : k <= i
  <2>1. IsWellFoundedOn(Less, Nat)
    BY NatLessThanWellFounded, Zenon
  <2>2. \A x, y \in Nat : x < y => <<x, y>> \in Less
    BY DEF OpToRel
  <2>3. Differ \subseteq Nat
    BY <1>0
  <2> HIDE DEF Differ, Less
  <2>4. PICK k \in Differ : \A i \in Differ : ~ (<<i, k>> \in Less)
    BY <1>1, <2>1, <2>3, WFMin
  <2>5. ASSUME NEW i \in Differ
        PROVE  k <= i
    <3>1. k \in Nat /\ i \in Nat
      BY <2>3
    <3>2. ~ (i < k)
      BY <2>2, <2>4, <3>1, Zenon
    <3> QED
      BY <3>1, <3>2
  <2> QED
    BY <2>5
<1>3. k \in 1 .. n /\ s[k] # q[k] /\ s[k] \in S /\ q[k] \in S
  BY <1>0
<1>4. \A i \in 1 .. n : i < k => s[i] = q[i]
  BY <1>0, <1>2, <1>3
<1>5. PICK a \in 1 .. n : q[a] = s[k]
  BY <1>0, <1>3
<1>6. PICK b \in 1 .. n : s[b] = q[k]
  BY <1>0, <1>3
<1>7. a > k
  <2>1. a # k
    BY <1>3, <1>5
  <2>2. CASE a < k
    <3>1. s[a] = s[k] /\ s[a].position < s[k].position
      BY <1>0, <1>3, <1>4, <1>5, <2>2
    <3> QED
      BY <1>a, <1>3, <3>1
  <2> QED
    BY <1>0, <1>3, <2>1, <2>2
<1>8. b > k
  <2>1. b # k
    BY <1>3, <1>6
  <2>2. CASE b < k
    <3>1. q[b] = q[k] /\ q[b].position < q[k].position
      BY <1>0, <1>3, <1>4, <1>6, <2>2
    <3> QED
      BY <1>a, <1>3, <3>1
  <2> QED
    BY <1>0, <1>3, <2>1, <2>2
<1>9. q[k].position < s[k].position
  BY <1>0, <1>3, <1>5, <1>7
<1>10. s[k].position < q[k].position
  BY <1>0, <1>3, <1>6, <1>8
<1> QED
  BY <1>a, <1>3, <1>9, <1>10

\* A sorted enumeration is what the query answers.
LEMMA SortedIs ==
    ASSUME NEW S \in SUBSET Row, NEW n, NEW q, Sorts(q, n, S)
    PROVE  ByPosition(S) = q
<1>0. /\ n \in Nat /\ q \in [1 .. n -> S] /\ DOMAIN q = 1 .. n
      /\ \A i, j \in 1 .. n : i < j => q[i].position < q[j].position
      /\ \A r \in S : \E i \in 1 .. n : q[i] = r
      /\ \A r \in S : r.position \in Int
  BY PositionAssumption DEF Sorts, Row, Positions
<1>1. \A i, j \in 1 .. n : i # j => q[i] # q[j]
  <2> SUFFICES ASSUME NEW i \in 1 .. n, NEW j \in 1 .. n, i # j
               PROVE  q[i] # q[j]
    OBVIOUS
  <2>1. q[i].position # q[j].position
    <3>1. i < j \/ j < i
      BY <1>0
    <3>2. q[i].position \in Int /\ q[j].position \in Int
      BY <1>0
    <3> QED
      BY <1>0, <3>1, <3>2
  <2> QED
    BY <2>1
<1>2. IsFiniteSet(1 .. n) /\ Cardinality(1 .. n) = n
  BY <1>0, FS_Interval
<1>3. IsFiniteSet(S) /\ Cardinality(S) = n
  <2>1. q \in Bijection(1 .. n, S)
    BY <1>0, <1>1 DEF Bijection, Injection, IsInjective, Surjection
  <2>2. ExistsBijection(1 .. n, S)
    BY <2>1 DEF ExistsBijection
  <2> QED
    BY <1>2, <2>2, FS_Bijection
<1> DEFINE Grows(s) == \A i, j \in DOMAIN s : i < j => s[i].position <= s[j].position
<1>4. q \in SetToSeqs(S)
  BY <1>0, <1>1, <1>3 DEF SetToSeqs
<1>5. Grows(q)
  BY <1>0
<1>6. ASSUME NEW s \in SetToSeqs(S), Grows(s)
      PROVE  s = q
  <2>1. /\ s \in [1 .. n -> S] /\ DOMAIN s = 1 .. n
        /\ \A i, j \in 1 .. n : i # j => s[i] # s[j]
    BY <1>3 DEF SetToSeqs
  <2>2. s \in Injection(1 .. n, S)
    BY <2>1 DEF Injection, IsInjective
  <2>3. s \in Surjection(1 .. n, S)
    BY <1>2, <1>3, <2>2, FS_Injection
  <2>4. \A r \in S : \E i \in 1 .. n : s[i] = r
    BY <2>3 DEF Surjection
  <2>5. \A r, t \in S : r.position = t.position => r = t
    <3> SUFFICES ASSUME NEW r \in S, NEW t \in S, r.position = t.position
                 PROVE  r = t
      OBVIOUS
    <3>1. PICK i \in 1 .. n : q[i] = r
      BY <1>0
    <3>2. PICK j \in 1 .. n : q[j] = t
      BY <1>0
    <3>3. ~ (i < j) /\ ~ (j < i)
      BY <1>0, <3>1, <3>2
    <3>4. i = j
      BY <1>0, <3>3
    <3> QED
      BY <3>1, <3>2, <3>4
  <2>6. ASSUME NEW i \in 1 .. n, NEW j \in 1 .. n, i < j
        PROVE  s[i].position < s[j].position
    <3>1. s[i].position <= s[j].position
      BY <1>6, <2>1, <2>6
    <3>2. i # j /\ s[i] \in S /\ s[j] \in S
      BY <1>0, <2>1, <2>6
    <3>3. s[i].position # s[j].position
      BY <2>1, <2>5, <3>2
    <3> QED
      BY <1>0, <3>1, <3>2, <3>3
  <2>7. Sorts(s, n, S)
    BY <1>0, <2>1, <2>4, <2>6 DEF Sorts
  <2> QED
    BY <2>7, SortsOne
<1>7. ByPosition(S) = CHOOSE s \in SetToSeqs(S) : Grows(s)
  BY DEF ByPosition
<1> HIDE DEF Grows
<1>8. ByPosition(S) \in SetToSeqs(S) /\ Grows(ByPosition(S))
  BY <1>4, <1>5, <1>7
<1> QED
  BY <1>6, <1>8

\* A row behind the others comes last.
LEMMA SortsAppend ==
    ASSUME NEW S \in SUBSET Row, NEW n, NEW q, Sorts(q, n, S), NEW new \in Row,
           \A r \in S : r.position < new.position
    PROVE  Sorts([i \in 1 .. n + 1 |-> IF i <= n THEN q[i] ELSE new], n + 1, S \cup {new})
<1> DEFINE t == [i \in 1 .. n + 1 |-> IF i <= n THEN q[i] ELSE new]
<1>0. /\ n \in Nat /\ q \in [1 .. n -> S]
      /\ \A i, j \in 1 .. n : i < j => q[i].position < q[j].position
      /\ \A r \in S : \E i \in 1 .. n : q[i] = r
  BY DEF Sorts
<1>1. /\ \A i \in 1 .. n : t[i] = q[i] /\ q[i] \in S
      /\ t[n + 1] = new /\ n + 1 \in Nat
      /\ \A i \in 1 .. n + 1 : i \in 1 .. n \/ i = n + 1
      /\ \A i \in 1 .. n : i \in 1 .. n + 1
  BY <1>0
<1>2. t \in [1 .. n + 1 -> S \cup {new}]
  BY <1>0
<1> HIDE DEF t
<1>3. ASSUME NEW i \in 1 .. n + 1, NEW j \in 1 .. n + 1, i < j
      PROVE  t[i].position < t[j].position
  <2>1. i \in 1 .. n
    BY <1>0, <1>3
  <2>2. CASE j \in 1 .. n
    BY <1>0, <1>1, <1>3, <2>1, <2>2
  <2>3. CASE j = n + 1
    BY <1>1, <2>1, <2>3
  <2> QED
    BY <1>1, <2>2, <2>3
<1>4. ASSUME NEW r \in S \cup {new}
      PROVE  \E i \in 1 .. n + 1 : t[i] = r
  <2>1. n + 1 \in 1 .. n + 1
    BY <1>0
  <2> QED
    BY <1>0, <1>1, <2>1
<1>5. Sorts(t, n + 1, S \cup {new})
  BY <1>1, <1>2, <1>3, <1>4 DEF Sorts
<1> QED
  BY <1>5 DEF t

\* Without a row the others are in the order they were.
LEMMA SortsRemove ==
    ASSUME NEW S \in SUBSET Row, NEW n, NEW q, Sorts(q, n, S), NEW k \in 1 .. n
    PROVE  /\ n - 1 \in Nat
           /\ Sorts([i \in 1 .. n - 1 |-> IF i < k THEN q[i] ELSE q[i + 1]], n - 1, S \ {q[k]})
<1> DEFINE t == [i \in 1 .. n - 1 |-> IF i < k THEN q[i] ELSE q[i + 1]]
           from(i) == IF i < k THEN i ELSE i + 1
<1>0. /\ n \in Nat /\ q \in [1 .. n -> S] /\ k \in Nat
      /\ \A i, j \in 1 .. n : i < j => q[i].position < q[j].position
      /\ \A r \in S : \E i \in 1 .. n : q[i] = r
      /\ \A r \in S : r.position \in Int
  BY PositionAssumption DEF Sorts, Row, Positions
<1>1. n - 1 \in Nat
  BY <1>0
<1>2. \A i \in 1 .. n - 1 : from(i) \in 1 .. n /\ from(i) # k /\ t[i] = q[from(i)]
  BY <1>0
<1>3. \A i, j \in 1 .. n - 1 : i < j => from(i) < from(j)
  BY <1>0
<1>4. ASSUME NEW i \in 1 .. n, NEW j \in 1 .. n, i # j
      PROVE  q[i] # q[j]
  <2>1. i < j \/ j < i
    BY <1>4
  <2>2. q[i].position \in Int /\ q[j].position \in Int
    BY <1>0
  <2>3. q[i].position # q[j].position
    BY <1>0, <2>1, <2>2
  <2> QED
    BY <2>3
<1>5. t \in [1 .. n - 1 -> S \ {q[k]}]
  <2>1. \A i \in 1 .. n - 1 : t[i] \in S \ {q[k]}
    <3> HIDE DEF from, t
    <3> QED
      BY <1>0, <1>2, <1>4
  <2> QED
    BY <2>1
<1>6. ASSUME NEW r \in S \ {q[k]}
      PROVE  \E i \in 1 .. n - 1 : t[i] = r
  <2>1. PICK j \in 1 .. n : q[j] = r
    BY <1>0
  <2>2. j # k
    BY <2>1
  <2>3. CASE j < k
    BY <1>0, <2>1, <2>3
  <2>4. CASE j > k
    <3>1. j - 1 \in 1 .. n - 1 /\ from(j - 1) = j
      BY <1>0, <2>4
    <3> QED
      BY <1>2, <2>1, <3>1
  <2> QED
    BY <1>0, <2>2, <2>3, <2>4
<1> HIDE DEF from, t
<1>7. \A i, j \in 1 .. n - 1 : i < j => t[i].position < t[j].position
  BY <1>0, <1>2, <1>3
<1>8. Sorts(t, n - 1, S \ {q[k]})
  BY <1>1, <1>5, <1>6, <1>7 DEF Sorts
<1> QED
  BY <1>1, <1>8 DEF t
-----------------------------------------------------------------------------
(* A playlist is a list of songs. *)

\* The rows of a playlist can be put in order: no two have one position.
Ordered == \A p \in Playlists : \E n \in Nat : \E q : Sorts(q, n, RowsOf(p))

\* What AddSong read is the greatest position still.
MaxRead == \A c \in Calls : pc[c] = "insert" => \A r \in RowsOf(list[c]) : r.position <= maxPos[c]

\* An order that has not been answered has the songs of its playlist still, and their
\* positions fit.
OrderFits == \A c \in Calls : Asks(c) => Permutes(order[c], list[c])

\* A draft has every row of the table.
DraftHas ==
    writer # None =>
        \A r \in rows : \E t \in draft :
            r.id = t.id /\ r.playlist = t.playlist /\ r.song = t.song

\* What a tidy history comes to for the lists.
ListInv == ReorderInv /\ TidyInv /\ DraftHas /\ (tidy => Ordered /\ MaxRead /\ OrderFits)

\* The songs of sorted rows.
SongsIn(q, n) == [i \in 1 .. n |-> q[i].song]

\* The list of a playlist is read off its sorted rows.
LEMMA ListedIs ==
    ASSUME NEW S \in SUBSET Row, NEW n, NEW q, Sorts(q, n, S)
    PROVE  /\ LET s == ByPosition(S) IN [i \in DOMAIN s |-> s[i].song] = SongsIn(q, n)
           /\ SongsIn(q, n) \in [1 .. n -> Songs]
           /\ Len(SongsIn(q, n)) = n
           /\ ToSet(SongsIn(q, n)) = {r.song : r \in S}
           /\ \A x : Contains(SongsIn(q, n), x) <=> x \in {r.song : r \in S}
<1>1. ByPosition(S) = q
  BY SortedIs
<1>2. /\ n \in Nat /\ q \in [1 .. n -> S] /\ DOMAIN q = 1 .. n
      /\ \A r \in S : \E i \in 1 .. n : q[i] = r
      /\ \A r \in S : r.song \in Songs
  BY DEF Sorts, Row
<1> DEFINE l == SongsIn(q, n)
<1>3. l \in [1 .. n -> Songs] /\ DOMAIN l = 1 .. n /\ \A i \in 1 .. n : l[i] = q[i].song
  BY <1>2 DEF SongsIn
<1>4. l \in Seq(Songs) /\ Len(l) = n
  BY <1>2, <1>3
<1>5. \A x : (\E i \in 1 .. n : l[i] = x) <=> x \in {r.song : r \in S}
  BY <1>2, <1>3
<1>6. ToSet(l) = {r.song : r \in S}
  BY <1>3, <1>5 DEF ToSet
<1> QED
  BY <1>1, <1>2, <1>3, <1>4, <1>5, <1>6 DEF SongsIn, Contains

\* A list that is taken for another, and the others as they were.
LEMMA OneListChanges ==
    ASSUME NEW p \in Playlists, NEW q, NEW n, Sorts(q, n, RowsOf(p)'), rows' \subseteq Row,
           \A x \in Playlists : x # p => RowsOf(x)' = RowsOf(x)
    PROVE  Lists' = [Lists EXCEPT ![p] = SongsIn(q, n)]
<1>1. Listed(p)' = SongsIn(q, n)
  <2>1. RowsOf(p)' \in SUBSET Row
    BY DEF RowsOf
  <2> QED
    BY <2>1, ListedIs DEF Listed
<1>2. \A x \in Playlists : x # p => Listed(x)' = Listed(x)
  BY DEF Listed
<1> QED
  BY <1>1, <1>2 DEF Lists

\* The rows stay, or one statement or commit changes those of one playlist.
LEMMA RowSteps ==
    ASSUME [Next]_vars
    PROVE  \/ UNCHANGED rows
           \/ \E p \in Playlists, s \in Songs : RemoveSong(p, s)
           \/ \E c \in Calls : InsertSong(c)
           \/ \E c \in Calls : Commit(c) /\ writer = c
           \/ \E c \in Calls : DeleteSongs(c)
<1> USE DEF tables
<1>1. ASSUME NEW p \in Playlists, CreatePlaylist(p)
      PROVE  UNCHANGED rows
  BY <1>1 DEF CreatePlaylist
<1>2. ASSUME NEW c \in Calls, NEW p \in Playlists,
             \/ \E s \in Songs : AddSong(c, p, s)
             \/ \E o \in Orders : ReorderSongs(c, p, o)
             \/ UpdatePlaylist(c, p) \/ DeletePlaylist(c, p)
      PROVE  UNCHANGED rows
  BY <1>2 DEF AddSong, ReorderSongs, UpdatePlaylist, DeletePlaylist
<1>3. ASSUME NEW c \in Calls,
             \/ CheckExists(c) \/ CheckBlind(c) \/ ReadMax(c) \/ ReadMaxBlind(c)
             \/ InsertRejected(c) \/ FetchSongs(c) \/ MoveSong(c) \/ Rollback(c)
             \/ DropPlaylist(c) \/ StatementFails(c)
      PROVE  UNCHANGED rows
  BY <1>3
  DEF CheckExists, CheckBlind, ReadMax, ReadMaxBlind, InsertRejected, FetchSongs, MoveSong,
      Rollback, DropPlaylist, StatementFails
<1>4. ASSUME NEW c \in Calls, Commit(c), writer # c
      PROVE  UNCHANGED rows
  BY <1>4 DEF Commit
<1>5. ASSUME Crash \/ UNCHANGED vars
      PROVE  UNCHANGED rows
  BY <1>5 DEF Crash, vars
<1> QED
  BY <1>1, <1>2, <1>3, <1>4, <1>5, Zenon DEF Next, Step

\* Without an element the rest moves up.
LEMMA RemoveAtIs ==
    ASSUME NEW T, NEW n \in Nat, NEW l \in [1 .. n -> T], NEW k \in 1 .. n
    PROVE  RemoveAt(l, k) = [i \in 1 .. n - 1 |-> IF i < k THEN l[i] ELSE l[i + 1]]
<1>1. l \in Seq(T) /\ Len(l) = n
  OBVIOUS
<1> DEFINE a == SubSeq(l, 1, k - 1)
           b == SubSeq(l, k + 1, Len(l))
<1>2. /\ a \in Seq(T) /\ Len(a) = k - 1
      /\ \A i \in 1 .. k - 1 : a[i] = l[i]
  BY <1>1
<1>3. /\ b \in Seq(T) /\ Len(b) = n - k
      /\ \A i \in 1 .. n - k : b[i] = l[i + k]
  BY <1>1
<1> HIDE DEF a, b
<1>4. /\ a \o b \in Seq(T) /\ Len(a \o b) = n - 1
      /\ \A i \in 1 .. n - 1 : (a \o b)[i] = IF i <= k - 1 THEN a[i] ELSE b[i - (k - 1)]
  <2>1. Len(a) + Len(b) = n - 1
    BY <1>2, <1>3
  <2>2. /\ a \o b \in Seq(T)
        /\ Len(a \o b) = Len(a) + Len(b)
        /\ \A i \in 1 .. Len(a) + Len(b) : (a \o b)[i] = IF i <= Len(a) THEN a[i] ELSE b[i - Len(a)]
    BY <1>2, <1>3, ConcatProperties, Zenon
  <2>3. \A i \in 1 .. n - 1 : (a \o b)[i] = IF i <= k - 1 THEN a[i] ELSE b[i - (k - 1)]
    BY <1>2, <2>1, <2>2, Zenon
  <2> QED
    BY <2>1, <2>2, <2>3
<1>5. \A i \in 1 .. n - 1 : (a \o b)[i] = IF i < k THEN l[i] ELSE l[i + 1]
  <2> SUFFICES ASSUME NEW i \in 1 .. n - 1
               PROVE  (a \o b)[i] = IF i < k THEN l[i] ELSE l[i + 1]
    OBVIOUS
  <2>1. CASE i < k
    BY <1>2, <1>4, <2>1
  <2>2. CASE ~ (i < k)
    <3>1. i - (k - 1) \in 1 .. n - k /\ (i - (k - 1)) + k = i + 1
      BY <2>2
    <3> QED
      BY <1>3, <1>4, <2>2, <3>1
  <2> QED
    BY <2>1, <2>2
<1>6. a \o b \in [1 .. n - 1 -> T]
  <2>1. \A s \in Seq(T) : s \in [1 .. Len(s) -> T]
    OBVIOUS
  <2> QED
    BY <1>4, <2>1
<1>7. a \o b = [i \in 1 .. n - 1 |-> IF i < k THEN l[i] ELSE l[i + 1]]
  BY <1>5, <1>6
<1> QED
  BY <1>7 DEF RemoveAt, a, b

\* RemoveSong takes one song out.
LEMMA RemoveIsTake ==
    ASSUME ListInv, NEW p \in Playlists, NEW s \in Songs, RemoveSong(p, s), tidy', TypeOK'
    PROVE  /\ Ordered'
           /\ UNCHANGED Askeds => List!Take(p, s)
<1>0. /\ Ordered /\ Once(rows) /\ rows \in SUBSET Row /\ rows' \subseteq Row
      /\ rows' = {r \in rows : ~ (r.playlist = p /\ r.song = s)} /\ s \in SongsOf(p)
  BY DEF ListInv, ReorderInv, OnceInv, RemoveSong, TypeInv, TypeOK
<1>1. PICK n \in Nat : \E q : Sorts(q, n, RowsOf(p))
  BY <1>0 DEF Ordered
<1>2. PICK q : Sorts(q, n, RowsOf(p))
  BY <1>1
<1>3. /\ q \in [1 .. n -> RowsOf(p)]
      /\ \A r \in RowsOf(p) : \E i \in 1 .. n : q[i] = r
      /\ RowsOf(p) \in SUBSET Row
  BY <1>0, <1>2 DEF Sorts, RowsOf
<1>4. PICK k \in 1 .. n : q[k].song = s
  BY <1>0, <1>3 DEF SongsOf
<1>5. RowsOf(p)' = RowsOf(p) \ {q[k]}
  <2>1. q[k] \in RowsOf(p)
    BY <1>3
  <2>2. \A r \in RowsOf(p) : r.song = s <=> r = q[k]
    BY <1>0, <1>4, <2>1 DEF RowsOf, Once
  <2> QED
    BY <1>0, <2>2 DEF RowsOf
<1>6. \A x \in Playlists : x # p => RowsOf(x)' = RowsOf(x)
  BY <1>0 DEF RowsOf
<1> DEFINE t == [i \in 1 .. n - 1 |-> IF i < k THEN q[i] ELSE q[i + 1]]
<1>7. n - 1 \in Nat /\ Sorts(t, n - 1, RowsOf(p)')
  <2>1. n - 1 \in Nat /\ Sorts(t, n - 1, RowsOf(p) \ {q[k]})
    BY <1>2, <1>3, SortsRemove
  <2> QED
    BY <1>5, <2>1
<1>8. Ordered'
  BY <1>0, <1>6, <1>7 DEF Ordered
<1>9. Lists' = [Lists EXCEPT ![p] = SongsIn(t, n - 1)]
  <2> HIDE DEF t
  <2> QED
    BY <1>0, <1>6, <1>7, OneListChanges
<1>10. Lists[p] = SongsIn(q, n)
  BY <1>2, <1>3, ListedIs DEF Lists, Listed
<1>11. SongsIn(q, n) \in [1 .. n -> Songs] /\ SongsIn(q, n)[k] = s
  BY <1>2, <1>3, <1>4, ListedIs DEF SongsIn
<1>12. SongsIn(t, n - 1) = RemoveAt(Lists[p], k)
  <2>1. RemoveAt(SongsIn(q, n), k) =
           [i \in 1 .. n - 1 |-> IF i < k THEN SongsIn(q, n)[i] ELSE SongsIn(q, n)[i + 1]]
    BY <1>1, <1>11, RemoveAtIs
  <2>2. \A i \in 1 .. n - 1 :
           t[i].song = IF i < k THEN SongsIn(q, n)[i] ELSE SongsIn(q, n)[i + 1]
    BY <1>1 DEF SongsIn
  <2>3. SongsIn(t, n - 1) =
           [i \in 1 .. n - 1 |-> IF i < k THEN SongsIn(q, n)[i] ELSE SongsIn(q, n)[i + 1]]
    BY <2>2 DEF SongsIn
  <2> QED
    BY <1>10, <2>1, <2>3
<1>13. k \in DOMAIN Lists[p] /\ Lists[p][k] = s
  BY <1>10, <1>11
<1>14. Lists' = [Lists EXCEPT ![p] = RemoveAt(@, k)]
  BY <1>9, <1>12
<1>15. UNCHANGED Askeds => List!Take(p, s)
  BY <1>13, <1>14 DEF List!Take, List!RemoveAt, RemoveAt, Askeds
<1> QED
  BY <1>8, <1>15

\* InsertSong puts a song that was not there behind the others.
LEMMA InsertIsAdd ==
    ASSUME ListInv, tidy, tidy', NEW c \in Calls, InsertSong(c), TypeOK'
    PROVE  /\ Ordered' /\ list[c] \in Playlists /\ song[c] \in Songs
           /\ UNCHANGED Askeds => List!Add(list[c], song[c])
<1>p. PICK p \in Playlists : p = list[c]
  BY DEF ListInv, ReorderInv, OnceInv, InsertSong, TypeInv, TypeOK, Requests, Running
<1> DEFINE new == [id |-> c, playlist |-> p, song |-> song[c], position |-> NewPosition(c)]
<1>0. /\ Ordered /\ MaxRead /\ rows \in SUBSET Row /\ rows' \subseteq Row
      /\ pc[c] = "insert" /\ song[c] \notin SongsOf(p) /\ rows' = rows \cup {new}
      /\ song[c] \in Songs
      /\ maxPos[c] \in Int /\ MaxPosition \in Nat /\ PositionStep \in Nat \ {0}
  BY <1>p, PositionAssumption, SMTT(30)
  DEF ListInv, ReorderInv, OnceInv, InsertSong, Indexed, TypeInv, TypeOK, Requests, Running,
      Positions
<1>a. maxPos[c] < MaxPosition
  BY Zenon DEF InsertSong
<1>1. new \in Row /\ new.playlist = p /\ new.song = song[c] /\ new.position = NewPosition(c)
  BY <1>0
<1>2. maxPos[c] < new.position
  <2> DEFINE S == {maxPos[c] + PositionStep, MaxPosition}
  <2>2. /\ \A x \in S : maxPos[c] < x
        /\ \E x \in S : \A y \in S : x <= y
    BY <1>0, <1>a
  <2>3. Min(S) \in S
    <3> HIDE DEF S
    <3> QED
      BY <2>2 DEF Min
  <2> QED
    BY <1>1, <2>2, <2>3 DEF NewPosition
<1> HIDE DEF new
<1>3. PICK n \in Nat : \E q : Sorts(q, n, RowsOf(p))
  BY <1>0 DEF Ordered
<1>4. PICK q : Sorts(q, n, RowsOf(p))
  BY <1>3
<1>5. RowsOf(p) \in SUBSET Row /\ \A r \in RowsOf(p) : r.position \in Int
  BY <1>0, PositionAssumption DEF RowsOf, Row, Positions
<1>6. \A r \in RowsOf(p) : r.position < new.position
  <2>1. new.position \in Int
    BY <1>1, PositionAssumption DEF Row, Positions
  <2>2. \A r \in RowsOf(p) : r.position <= maxPos[c]
    BY <1>0, <1>p DEF MaxRead
  <2> QED
    BY <1>0, <1>2, <1>5, <2>1, <2>2
<1>7. RowsOf(p)' = RowsOf(p) \cup {new}
  BY <1>0, <1>1 DEF RowsOf
<1>8. \A x \in Playlists : x # p => RowsOf(x)' = RowsOf(x)
  BY <1>0, <1>1 DEF RowsOf
<1> DEFINE t == [i \in 1 .. n + 1 |-> IF i <= n THEN q[i] ELSE new]
<1>9. n + 1 \in Nat /\ Sorts(t, n + 1, RowsOf(p)')
  <2>1. Sorts(t, n + 1, RowsOf(p) \cup {new})
    BY <1>1, <1>4, <1>5, <1>6, SortsAppend
  <2> QED
    BY <1>3, <1>7, <2>1
<1>10. Ordered'
  <2> SUFFICES ASSUME NEW x \in Playlists
               PROVE  \E m \in Nat : \E s : Sorts(s, m, RowsOf(x)')
    BY DEF Ordered
  <2> HIDE DEF t
  <2>1. CASE x = p
    BY <1>7, <1>9, <2>1
  <2>2. CASE x # p
    BY <1>0, <1>8, <2>2 DEF Ordered
  <2> QED
    BY <2>1, <2>2
<1>11. Lists' = [Lists EXCEPT ![p] = SongsIn(t, n + 1)]
  <2> HIDE DEF t
  <2> QED
    BY <1>0, <1>8, <1>9, OneListChanges
<1>12. /\ Lists[p] = SongsIn(q, n) /\ SongsIn(q, n) \in [1 .. n -> Songs]
       /\ ~ Contains(Lists[p], song[c])
  BY <1>0, <1>4, <1>5, ListedIs DEF Lists, Listed, SongsOf
<1>13. SongsIn(t, n + 1) = Append(Lists[p], song[c])
  <2>1. Append(SongsIn(q, n), song[c]) =
           [i \in 1 .. n + 1 |-> IF i <= n THEN SongsIn(q, n)[i] ELSE song[c]]
    BY <1>3, <1>12
  <2>2. \A i \in 1 .. n + 1 : t[i].song = IF i <= n THEN SongsIn(q, n)[i] ELSE song[c]
    BY <1>1, <1>3 DEF SongsIn
  <2> QED
    BY <1>12, <2>1, <2>2 DEF SongsIn
<1>14. UNCHANGED Askeds => List!Add(p, song[c])
  BY <1>11, <1>12, <1>13 DEF List!Add, List!Contains, Contains, Askeds
<1> QED
  BY <1>0, <1>p, <1>10, <1>14

\* DeleteSongs leaves no song.
LEMMA DeleteIsClear ==
    ASSUME ListInv, tidy, NEW c \in Calls, DeleteSongs(c), TypeOK'
    PROVE  /\ Ordered' /\ list[c] \in Playlists
           /\ UNCHANGED Askeds => List!Clear(list[c])
<1>p. PICK p \in Playlists : p = list[c]
  BY DEF ListInv, ReorderInv, OnceInv, DeleteSongs, TypeInv, TypeOK, Requests, Running
<1>0. Ordered /\ rows' \subseteq Row /\ rows' = rows \ RowsOf(p)
  BY <1>p DEF ListInv, DeleteSongs, TypeOK
<1>1. RowsOf(p)' = {} /\ \A x \in Playlists : x # p => RowsOf(x)' = RowsOf(x)
  BY <1>0 DEF RowsOf
<1>2. Sorts(<<>>, 0, RowsOf(p)')
  BY <1>1 DEF Sorts
<1>3. Ordered'
  BY <1>0, <1>1, <1>2 DEF Ordered
<1>4. Lists' = [Lists EXCEPT ![p] = SongsIn(<<>>, 0)]
  BY <1>0, <1>1, <1>2, OneListChanges
<1>5. SongsIn(<<>>, 0) = <<>>
  BY DEF SongsIn
<1>6. UNCHANGED Askeds => List!Clear(p)
  BY <1>4, <1>5 DEF List!Clear, Askeds
<1> QED
  BY <1>p, <1>3, <1>6

\* The positions of an order that permutes the songs of its playlist fit, and a later
\* song has a greater one.
LEMMA PlacesGrow ==
    ASSUME NEW n \in Nat, n = 0 \/ (n - 1) * PositionStep <= MaxPosition,
           NEW i \in 1 .. n, NEW j \in 1 .. n, i < j
    PROVE  Place(i) < Place(j)
<1> DEFINE s == PositionStep
<1>0. s \in Nat \ {0} /\ MaxPosition \in Nat
  BY PositionAssumption
<1>1. /\ i - 1 \in Nat /\ j - 1 \in Nat /\ j - i \in Nat /\ n - 1 \in Nat
      /\ 1 <= j - i /\ j - 1 <= n - 1 /\ i - 1 <= j - 1
  OBVIOUS
<1>2. (n - 1) * s <= MaxPosition
  OBVIOUS
<1> HIDE DEF s
<1>3. /\ (j - 1) * s \in Nat /\ (n - 1) * s \in Nat /\ (i - 1) * s \in Nat
      /\ (j - 1) * s <= (n - 1) * s /\ (i - 1) * s <= (j - 1) * s
  BY <1>0, <1>1, StepsFit
<1>4. (j - 1) * s = (i - 1) * s + (j - i) * s
  BY <1>0
<1>5. 1 * s <= (j - i) * s
  BY <1>0, <1>1, StepsFit
<1>6. (j - i) * s \in Int /\ 1 * s = s
  BY <1>0, <1>1
<1>7. (i - 1) * s < (j - 1) * s
  BY <1>0, <1>3, <1>4, <1>5, <1>6
<1>8. (i - 1) * s \in 0 .. MaxPosition /\ (j - 1) * s \in 0 .. MaxPosition
  BY <1>0, <1>2, <1>3
<1>9. Place(i) = (i - 1) * s /\ Place(j) = (j - 1) * s
  BY <1>3, <1>8, ToInt32Facts DEF Place, s
<1> QED
  BY <1>7, <1>9

\* An order that permutes the songs of a playlist has each of them once.
LEMMA PermutesFacts ==
    ASSUME rows \subseteq Row, NEW o \in Seq(Songs), NEW p, Permutes(o, p)
    PROVE  /\ Len(o) \in Nat /\ o \in [1 .. Len(o) -> SongsOf(p)]
           /\ \A i, j \in 1 .. Len(o) : o[i] = o[j] => i = j
           /\ \A s \in SongsOf(p) : \E i \in 1 .. Len(o) : o[i] = s
           /\ Len(o) = 0 \/ (Len(o) - 1) * PositionStep <= MaxPosition
<1> DEFINE S == SongsOf(p)
           n == Cardinality(S)
<1>1. S \subseteq Songs
  BY DEF SongsOf, RowsOf, Row
<1>2. IsFiniteSet(S) /\ n \in Nat
  BY <1>1, FS_Subset, FS_CardinalityType, PositionAssumption
<1>3. /\ o \in [1 .. n -> S]
      /\ \A i, j \in 1 .. n : i # j => o[i] # o[j]
      /\ Len(o) = 0 \/ (Len(o) - 1) * PositionStep <= MaxPosition
  BY DEF Permutes, SetToSeqs
<1>4. IsFiniteSet(1 .. n) /\ Cardinality(1 .. n) = n
  BY <1>2, FS_Interval
<1>5. o \in Injection(1 .. n, S)
  BY <1>3 DEF Injection, IsInjective
<1>6. o \in Surjection(1 .. n, S)
  BY <1>2, <1>4, <1>5, FS_Injection
<1>7. \A s \in S : \E i \in 1 .. n : o[i] = s
  BY <1>6 DEF Surjection
<1>8. Len(o) = n
  BY <1>2, <1>3
<1> QED
  BY <1>2, <1>3, <1>7, <1>8

\* An order that permutes the songs of a playlist is one that SongList lets a user ask.
LEMMA PermutesMayAsk ==
    ASSUME Ordered, rows \subseteq Row, NEW p \in Playlists, NEW o, Permutes(o, p)
    PROVE  o \in List!SetToSeqs(List!ToSet(Lists[p]))
<1>1. PICK m \in Nat : \E q : Sorts(q, m, RowsOf(p))
  BY DEF Ordered
<1>2. PICK q : Sorts(q, m, RowsOf(p))
  BY <1>1
<1>3. RowsOf(p) \in SUBSET Row
  BY DEF RowsOf
<1>4. ToSet(Lists[p]) = SongsOf(p)
  BY <1>2, <1>3, ListedIs DEF Lists, Listed, SongsOf
<1>5. \A S : List!Cardinality(S) = Cardinality(S)
  BY DEF List!Cardinality, Cardinality
<1> QED
  BY <1>4, <1>5 DEF Permutes, List!SetToSeqs, List!ToSet, SetToSeqs, ToSet

\* Commit gives the songs of one playlist the order that was asked for.
LEMMA CommitIsReorder ==
    ASSUME ListInv, tidy, NEW c \in Calls, Commit(c), writer = c, TypeOK'
    PROVE  Ordered' /\ Lists' = [Lists EXCEPT ![list[c]] = order[c]]
<1>p. PICK p \in Playlists : p = list[c]
  BY DEF ListInv, ReorderInv, OnceInv, Commit, TypeInv, TypeOK, Requests, Running
<1>o. PICK o \in Seq(Songs) : o = order[c]
  BY DEF ListInv, ReorderInv, OnceInv, TypeInv, TypeOK
<1>0. /\ Ordered /\ Once(rows) /\ Once(draft) /\ IdsDiffer /\ DraftHas
      /\ rows \in SUBSET Row /\ draft \in SUBSET Row /\ rows' = draft
      /\ DraftFrom(c) /\ DraftMoved(c) /\ Permutes(o, p)
      /\ next[c] = Len(o) + 1 /\ writer # None
  BY <1>p, <1>o, NoneAssumption
  DEF ListInv, ReorderInv, OnceInv, DraftInv, Commit, TypeInv, TypeOK, Requests, OrderFits,
      Asks
<1> DEFINE n == Len(o)
<1>1. /\ n \in Nat /\ o \in [1 .. n -> SongsOf(p)]
      /\ \A i, j \in 1 .. n : o[i] = o[j] => i = j
      /\ \A s \in SongsOf(p) : \E i \in 1 .. n : o[i] = s
      /\ n = 0 \/ (n - 1) * PositionStep <= MaxPosition
  BY <1>0, PermutesFacts
<1>2. \A t \in draft :
        /\ \E r \in rows : r.playlist = t.playlist /\ r.song = t.song
        /\ t.playlist # p => t \in rows
  <2> SUFFICES ASSUME NEW t \in draft
               PROVE  /\ \E r \in rows : r.playlist = t.playlist /\ r.song = t.song
                      /\ t.playlist # p => t \in rows
    OBVIOUS
  <2>1. PICK r \in rows :
           /\ r.id = t.id /\ r.playlist = t.playlist /\ r.song = t.song
           /\ r.position = t.position \/ t.playlist = p
    BY <1>0, <1>p DEF DraftFrom
  <2>2. r.position = t.position => r = t
    BY <1>0, <2>1 DEF Row
  <2> QED
    BY <2>1, <2>2
<1>3. \A x \in Playlists : x # p => RowsOf(x)' = RowsOf(x)
  <2> SUFFICES ASSUME NEW x \in Playlists, x # p, NEW r \in rows, r.playlist = x
               PROVE  r \in draft
    BY <1>0, <1>2 DEF RowsOf
  <2>1. PICK t \in draft : r.id = t.id /\ r.playlist = t.playlist
    BY <1>0 DEF DraftHas
  <2>2. t \in rows
    BY <1>2, <2>1
  <2> QED
    BY <1>0, <2>1, <2>2 DEF IdsDiffer
<1>4. \A i \in 1 .. n : \E u \in RowsOf(p)' : u.song = o[i]
  <2> SUFFICES ASSUME NEW i \in 1 .. n
               PROVE  \E u \in RowsOf(p)' : u.song = o[i]
    OBVIOUS
  <2>1. PICK r \in rows : r.playlist = p /\ r.song = o[i]
    <3>1. o[i] \in SongsOf(p)
      BY <1>1
    <3> QED
      BY <3>1 DEF SongsOf, RowsOf
  <2> QED
    BY <1>0, <2>1 DEF DraftHas, RowsOf
<1> DEFINE t == [i \in 1 .. n |-> CHOOSE u \in RowsOf(p)' : u.song = o[i]]
<1>5. \A i \in 1 .. n :
        t[i] \in draft /\ t[i] \in RowsOf(p)' /\ t[i].playlist = p /\ t[i].song = o[i]
  BY <1>0, <1>4 DEF RowsOf
<1>6. t \in [1 .. n -> RowsOf(p)']
  BY <1>5
<1> HIDE DEF t
<1>7. \A i \in 1 .. n : t[i].position = Place(i)
  <2> SUFFICES ASSUME NEW i \in 1 .. n
               PROVE  t[i].position = Place(i)
    OBVIOUS
  <2>1. next[c] - 1 = n /\ i \in Nat
    BY <1>0, <1>1
  <2>2. LastOf(o, n, t[i].song, i)
    BY <1>1, <1>5 DEF LastOf
  <2> QED
    BY <1>0, <1>5, <1>o, <1>p, <2>1, <2>2 DEF DraftMoved
<1>8. \A i, j \in 1 .. n : i < j => t[i].position < t[j].position
  BY <1>1, <1>7, PlacesGrow
<1>9. \A u \in RowsOf(p)' : \E i \in 1 .. n : t[i] = u
  <2> SUFFICES ASSUME NEW u \in draft, u.playlist = p
               PROVE  \E i \in 1 .. n : t[i] = u
    BY <1>0 DEF RowsOf
  <2>1. PICK r \in rows : r.playlist = p /\ r.song = u.song
    BY <1>2
  <2>2. u.song \in SongsOf(p)
    BY <2>1 DEF SongsOf, RowsOf
  <2>3. PICK i \in 1 .. n : o[i] = u.song
    BY <1>1, <2>2
  <2> QED
    BY <1>0, <1>5, <2>3 DEF Once
<1>10. Sorts(t, n, RowsOf(p)')
  BY <1>1, <1>6, <1>8, <1>9 DEF Sorts
<1>11. Ordered'
  <2> SUFFICES ASSUME NEW x \in Playlists
               PROVE  \E m \in Nat : \E s : Sorts(s, m, RowsOf(x)')
    BY DEF Ordered
  <2>1. CASE x = p
    BY <1>1, <1>10, <2>1
  <2>2. CASE x # p
    BY <1>0, <1>3, <2>2 DEF Ordered
  <2> QED
    BY <2>1, <2>2
<1>12. SongsIn(t, n) = o
  BY <1>1, <1>5 DEF SongsIn
<1>13. Lists' = [Lists EXCEPT ![p] = o]
  BY <1>0, <1>3, <1>10, <1>12, OneListChanges
<1> QED
  BY <1>11, <1>13, <1>p, <1>o

\* A draft starts with every row, and the table stands still while it exists.
LEMMA DraftHasNext ==
    ASSUME TypeInv, DraftHas, [Next]_vars
    PROVE  DraftHas'
<1>1. ASSUME NEW c \in Calls, MoveSong(c)
      PROVE  DraftHas'
  <2> DEFINE old == IF writer = c THEN draft ELSE rows
  <2>1. rows' = rows /\ draft' = Moved(c, old)
    BY <1>1 DEF MoveSong, tables
  <2>2. \A r \in rows : \E t \in old : r.id = t.id /\ r.playlist = t.playlist /\ r.song = t.song
    BY NoneAssumption DEF DraftHas
  <2>3. old \subseteq Row
    BY DEF TypeInv, TypeOK
  <2> HIDE DEF old
  <2> SUFFICES ASSUME NEW r \in rows
               PROVE  \E t \in draft' :
                        r.id = t.id /\ r.playlist = t.playlist /\ r.song = t.song
    BY <2>1 DEF DraftHas
  <2>4. PICK t \in old : r.id = t.id /\ r.playlist = t.playlist /\ r.song = t.song
    BY <2>2
  <2> DEFINE moved == [t EXCEPT !.position = Place(next[c])]
             u == IF t.playlist = list[c] /\ t.song = order[c][next[c]] THEN moved ELSE t
  <2>5. u \in draft'
    BY <2>1, <2>4 DEF Moved
  <2>6. moved.id = t.id /\ moved.playlist = t.playlist /\ moved.song = t.song
    BY <2>3 DEF Row
  <2>7. u.id = t.id /\ u.playlist = t.playlist /\ u.song = t.song
    BY <2>6
  <2> HIDE DEF u
  <2> QED
    BY <2>4, <2>5, <2>7
<1>2. ASSUME NEW c \in Calls, InsertSong(c)
      PROVE  DraftHas'
  BY <1>2 DEF InsertSong, MayWrite, transaction, DraftHas
<1>3. ASSUME NEW c \in Calls, Commit(c)
      PROVE  DraftHas'
  BY <1>3 DEF Commit, EndTransaction, DraftHas
<1>4. CASE UNCHANGED <<rows, writer, draft>>
  BY <1>4 DEF DraftHas
<1> QED
  BY <1>1, <1>2, <1>3, <1>4, TableSteps DEF DraftHas

\* When calls come one at a time, a call that is about to insert has just read the
\* greatest position, or stood still with its playlist; so has one that reorders.
LEMMA TidySteps ==
    ASSUME TypeInv, Alone, [Next]_vars, tidy', NEW c \in Calls
    PROVE  /\ pc'[c] = "insert" =>
                \/ ReadMax(c)
                \/ /\ pc[c] = "insert" /\ rows' = rows
                   /\ list'[c] = list[c] /\ maxPos'[c] = maxPos[c]
           /\ pc'[c] \in {"fetch", "move", "commit"} =>
                \/ \E p \in Playlists, o \in Orders : ReorderSongs(c, p, o)
                \/ /\ pc[c] \in {"fetch", "move", "commit"} /\ rows' = rows
                   /\ list'[c] = list[c] /\ order'[c] = order[c]
<1> DEFINE Goal == /\ pc'[c] = "insert" =>
                        \/ ReadMax(c)
                        \/ /\ pc[c] = "insert" /\ rows' = rows
                           /\ list'[c] = list[c] /\ maxPos'[c] = maxPos[c]
                   /\ pc'[c] \in {"fetch", "move", "commit"} =>
                        \/ \E p \in Playlists, o \in Orders : ReorderSongs(c, p, o)
                        \/ /\ pc[c] \in {"fetch", "move", "commit"} /\ rows' = rows
                           /\ list'[c] = list[c] /\ order'[c] = order[c]
<1>0. /\ pc \in [Calls -> {"idle"} \cup Running \cup Ended]
      /\ \A o \in Calls : pc[c] \in Running /\ pc[o] \in Running => c = o
  BY DEF TypeInv, TypeOK, Alone
<1>1. pc'[c] \notin Running => Goal
  BY DEF Running
<1>2. pc[c] \notin Running /\ pc'[c] = pc[c] => Goal
  BY <1>1
<1>3. ASSUME NEW p \in Playlists, CreatePlaylist(p)
      PROVE  Goal
  BY <1>3 DEF CreatePlaylist, request
<1>4. ASSUME NEW p \in Playlists, NEW s \in Songs, RemoveSong(p, s)
      PROVE  Goal
  <2>1. Quiet /\ pc' = pc
    BY <1>4 DEF RemoveSong
  <2> QED
    BY <1>2, <2>1 DEF Quiet
<1>5. ASSUME NEW x \in Calls, NEW p \in Playlists,
             \/ \E s \in Songs : AddSong(x, p, s)
             \/ UpdatePlaylist(x, p) \/ DeletePlaylist(x, p)
      PROVE  Goal
  <2>1. /\ Quiet
        /\ \E w : pc' = [pc EXCEPT ![x] = w] /\ w \in {"check", "done", "failed", "clear"}
    BY <1>5 DEF AddSong, UpdatePlaylist, DeletePlaylist, Arrives, Goto
  <2> QED
    BY <1>0, <2>1 DEF Quiet, Running
<1>6. ASSUME NEW x \in Calls, NEW p \in Playlists, NEW o \in Orders, ReorderSongs(x, p, o)
      PROVE  Goal
  <2>1. Quiet /\ pc' = [pc EXCEPT ![x] = "fetch"]
    BY <1>6 DEF ReorderSongs, Arrives, Goto
  <2> HIDE DEF Goal
  <2>2. CASE x # c
    <3>1. pc'[c] = pc[c] /\ pc[c] \notin Running
      BY <1>0, <2>1, <2>2 DEF Quiet
    <3> QED
      BY <1>2, <3>1
  <2>3. CASE x = c
    <3>1. pc'[c] = "fetch"
      BY <1>0, <2>1, <2>3
    <3> QED
      BY <1>6, <2>3, <3>1 DEF Goal
  <2> QED
    BY <2>2, <2>3
<1>7. ASSUME NEW x \in Calls, Step(x)
      PROVE  Goal
  <2> HIDE DEF Goal
  <2>1. pc[x] \in Running /\ \E w : pc' = [pc EXCEPT ![x] = w]
    BY <1>7, Zenon
    DEF Step, CheckExists, CheckBlind, ReadMax, ReadMaxBlind, InsertSong, InsertRejected,
        FetchSongs, MoveSong, Commit, Rollback, DeleteSongs, DropPlaylist, StatementFails,
        Goto, Running
  <2>2. CASE x # c
    <3>1. pc'[c] = pc[c] /\ pc[c] \notin Running
      BY <1>0, <2>1, <2>2
    <3> QED
      BY <1>2, <3>1
  <2>3. CASE x = c
    <3>1. CASE ReadMax(c)
      <4>1. pc'[c] = "insert"
        BY <1>0, <3>1 DEF ReadMax, Goto
      <4> QED
        BY <3>1, <4>1 DEF Goal
    <3>2. CASE FetchSongs(c) \/ MoveSong(c)
      <4>1. /\ pc[c] \in {"fetch", "move"} /\ UNCHANGED <<rows, list, order>>
            /\ \E w \in {"failed", "commit", "move"} : pc' = [pc EXCEPT ![c] = w]
        BY <3>2 DEF FetchSongs, MoveSong, AfterSong, Goto, tables, request
      <4> QED
        BY <1>0, <4>1 DEF Goal
    <3>3. CASE \/ CheckExists(c) \/ CheckBlind(c) \/ InsertSong(c) \/ InsertRejected(c)
               \/ Commit(c) \/ Rollback(c) \/ DeleteSongs(c) \/ DropPlaylist(c)
               \/ StatementFails(c)
      <4>1. \E w \in {"failed", "max", "done", "drop"} : pc' = [pc EXCEPT ![c] = w]
        BY <3>3
        DEF CheckExists, CheckBlind, InsertSong, InsertRejected, Commit, Rollback,
            DeleteSongs, DropPlaylist, StatementFails, Goto
      <4> QED
        BY <1>0, <4>1 DEF Goal
    <3>4. ~ ReadMaxBlind(c)
      BY DEF ReadMaxBlind
    <3> QED
      BY <1>7, <2>3, <3>1, <3>2, <3>3, <3>4 DEF Step
  <2> QED
    BY <2>2, <2>3
<1>8. ASSUME Crash
      PROVE  Goal
  <2>1. pc'[c] \notin Running
    BY <1>8 DEF Crash, Running
  <2> QED
    BY <1>1, <2>1
<1>9. ASSUME UNCHANGED vars
      PROVE  Goal
  BY <1>9 DEF vars, tables, request
<1> HIDE DEF Goal
<1>10. Goal
  BY <1>3, <1>4, <1>5, <1>6, <1>7, <1>8, <1>9, Zenon DEF Next
<1> QED
  BY <1>10 DEF Goal

\* At most one order waits for its answer.
LEMMA OneAsks ==
    ASSUME TypeInv, Alone, NEW c \in Calls, Asks(c)
    PROVE  /\ list[c] \in Playlists
           /\ Askeds = [p \in Playlists |-> IF p = list[c] THEN {order[c]} ELSE {}]
<1>1. \A o \in Calls : Asks(o) <=> o = c
  BY DEF Alone, Asks, Running
<1>2. \A p \in Playlists : Asked(p) = IF p = list[c] THEN {order[c]} ELSE {}
  BY <1>1 DEF Asked
<1>3. list[c] \in Playlists
  BY DEF TypeInv, Requests, Asks, Running
<1> QED
  BY <1>2, <1>3 DEF Askeds

\* None does.
LEMMA NoneAsks ==
    ASSUME \A c \in Calls : ~ Asks(c)
    PROVE  Askeds = [p \in Playlists |-> {}]
  BY DEF Askeds, Asked

\* A call that has an order is answered.
LEMMA AnswerStep ==
    ASSUME TypeInv, Alone, [Next]_vars, tidy', NEW c \in Calls, Asks(c), ~ Asks(c)'
    PROVE  /\ list[c] \in Playlists /\ order[c] \in Askeds[list[c]]
           /\ Askeds' = [Askeds EXCEPT ![list[c]] = @ \ {order[c]}]
<1>1. \A o \in Calls : ~ Asks(o)'
  <2> SUFFICES ASSUME NEW o \in Calls, Asks(o)'
               PROVE  FALSE
    OBVIOUS
  <2>1. \/ \E p \in Playlists, q \in Orders : ReorderSongs(o, p, q)
        \/ Asks(o)
    BY TidySteps DEF Asks
  <2>2. CASE Asks(o)
    BY <2>2 DEF Alone, Asks, Running
  <2>3. CASE \E p \in Playlists, q \in Orders : ReorderSongs(o, p, q)
    BY <2>3 DEF ReorderSongs, Arrives, Quiet, Asks, Running
  <2> QED
    BY <2>1, <2>2, <2>3
<1>2. Askeds' = [p \in Playlists |-> {}]
  BY <1>1 DEF Askeds, Asked
<1> QED
  BY <1>2, OneAsks, SMTT(30)

\* A step asks for an order, answers one, or leaves those that wait.
LEMMA AskedSteps ==
    ASSUME TypeInv, Alone, TypeInv', Alone', [Next]_vars, tidy'
    PROVE  \/ UNCHANGED Askeds
           \/ \E c \in Calls, p \in Playlists, o \in Orders : ReorderSongs(c, p, o)
           \/ \E c \in Calls : Asks(c) /\ ~ Asks(c)'
<1>1. CASE \A c \in Calls : ~ Asks(c) /\ ~ Asks(c)'
  BY <1>1 DEF Askeds, Asked
<1>2. ASSUME NEW c \in Calls, Asks(c)'
      PROVE  \/ \E p \in Playlists, o \in Orders : ReorderSongs(c, p, o)
             \/ UNCHANGED Askeds
  <2>1. \/ \E p \in Playlists, o \in Orders : ReorderSongs(c, p, o)
        \/ Asks(c) /\ list'[c] = list[c] /\ order'[c] = order[c]
    BY <1>2, TidySteps DEF Asks
  <2>2. ASSUME Asks(c), list'[c] = list[c], order'[c] = order[c]
        PROVE  UNCHANGED Askeds
    <3>1. Askeds = [p \in Playlists |-> IF p = list[c] THEN {order[c]} ELSE {}]
      BY <2>2, OneAsks
    <3>2. \A o \in Calls : Asks(o)' <=> o = c
      BY <1>2 DEF Alone, Asks, Running
    <3>3. Askeds' = [p \in Playlists |-> IF p = list'[c] THEN {order'[c]} ELSE {}]
      BY <3>2 DEF Askeds, Asked
    <3> QED
      BY <2>2, <3>1, <3>3
  <2> QED
    BY <2>1, <2>2
<1> QED
  BY <1>1, <1>2

\* A tidy step adds a song at the end, takes one out, clears a playlist, asks for an
\* order, gives a playlist the order that was asked for or refuses it, or changes
\* nothing.
LEMMA ListStep ==
    ASSUME ListInv, Alone', [Next]_vars, tidy'
    PROVE  Ordered' /\ List!Step
<1>0. /\ tidy /\ Ordered /\ OrderFits /\ rows \in SUBSET Row
      /\ TypeInv /\ TypeOK' /\ TypeInv' /\ Alone
      /\ pc \in [Calls -> {"idle"} \cup Running \cup Ended]
      /\ list \in [Calls -> Playlists \cup {None}]
  BY TidyBefore, TypeInvNext DEF ListInv, TidyInv, ReorderInv, OnceInv, TypeInv, TypeOK
<1>a. \A c \in Calls, p \in Playlists, o \in Orders : ReorderSongs(c, p, o) => Quiet /\ rows' = rows
  BY <1>0 DEF ReorderSongs, Arrives, tables
<1>1. CASE rows' = rows
  <2>1. \A p \in Playlists : RowsOf(p)' = RowsOf(p)
    BY <1>1 DEF RowsOf
  <2>2. Ordered'
    BY <1>0, <2>1 DEF Ordered
  <2>3. Lists' = Lists
    BY <2>1 DEF Lists, Listed
  <2>4. CASE UNCHANGED Askeds
    BY <2>2, <2>3, <2>4 DEF List!Step, List!vars
  <2>5. ASSUME NEW c \in Calls, NEW p \in Playlists, NEW o \in Orders, ReorderSongs(c, p, o)
        PROVE  List!Step
    <3>1. Permutes(o, p) /\ Quiet
      BY <1>0, <2>5 DEF ReorderSongs, Arrives
    <3>2. o \in List!SetToSeqs(List!ToSet(Lists[p]))
      BY <1>0, <3>1, PermutesMayAsk
    <3>3. Askeds = [x \in Playlists |-> {}]
      BY <3>1, NoneAsks DEF Quiet, Asks, Running
    <3>4. pc'[c] = "fetch" /\ list'[c] = p /\ order'[c] = o
      BY <1>0, <2>5 DEF ReorderSongs, Goto, TypeInv, TypeOK
    <3>5. Askeds' = [x \in Playlists |-> IF x = list'[c] THEN {order'[c]} ELSE {}]
      <4>1. \A d \in Calls : Asks(d)' <=> d = c
        BY <1>0, <3>4 DEF Alone, Asks, Running
      <4> QED
        BY <4>1 DEF Askeds, Asked
    <3>6. Askeds' = [Askeds EXCEPT ![p] = @ \cup {o}]
      BY <3>3, <3>4, <3>5
    <3>7. List!Ask(p, o)
      BY <2>3, <3>6 DEF List!Ask
    <3> QED
      BY <3>2, <3>7, Zenon DEF List!Step, List!Next
  <2>6. ASSUME NEW c \in Calls, Asks(c), ~ Asks(c)'
        PROVE  List!Step
    <3>1. /\ list[c] \in Playlists /\ order[c] \in Askeds[list[c]]
          /\ Askeds' = [Askeds EXCEPT ![list[c]] = @ \ {order[c]}]
      BY <1>0, <2>6, AnswerStep
    <3>2. List!Refuse(list[c], order[c])
      BY <2>3, <3>1 DEF List!Refuse, List!Answer
    <3> QED
      BY <3>1, <3>2, Zenon DEF List!Step, List!Next
  <2> QED
    BY <1>0, <2>2, <2>4, <2>5, <2>6, AskedSteps
<1>2. ASSUME NEW p \in Playlists, NEW s \in Songs, RemoveSong(p, s)
      PROVE  Ordered' /\ List!Step
  <2>1. Ordered' /\ (UNCHANGED Askeds => List!Take(p, s))
    BY <1>0, <1>2, RemoveIsTake
  <2>2. UNCHANGED Askeds
    BY <1>2 DEF RemoveSong, request, Askeds, Asked, Asks
  <2> QED
    BY <2>1, <2>2, Zenon DEF List!Step, List!Next
<1>3. ASSUME NEW c \in Calls, InsertSong(c) \/ DeleteSongs(c)
      PROVE  UNCHANGED Askeds
  <2>1. pc[c] \in Running /\ ~ Asks(c)
    BY <1>3 DEF InsertSong, DeleteSongs, Running, Asks
  <2>2. \A o \in Calls : ~ Asks(o)
    BY <1>0, <2>1 DEF Alone, Asks, Running
  <2>3. ~ Quiet
    BY <2>1 DEF Quiet
  <2> QED
    BY <1>0, <1>a, <2>2, <2>3, AskedSteps
<1>4. ASSUME NEW c \in Calls, InsertSong(c)
      PROVE  Ordered' /\ List!Step
  <2>1. /\ Ordered' /\ list[c] \in Playlists /\ song[c] \in Songs
        /\ UNCHANGED Askeds => List!Add(list[c], song[c])
    BY <1>0, <1>4, InsertIsAdd
  <2> QED
    BY <1>3, <1>4, <2>1, Zenon DEF List!Step, List!Next
<1>5. ASSUME NEW c \in Calls, Commit(c), writer = c
      PROVE  Ordered' /\ List!Step
  <2>1. Ordered' /\ Lists' = [Lists EXCEPT ![list[c]] = order[c]]
    BY <1>0, <1>5, CommitIsReorder
  <2>2. Asks(c) /\ ~ Asks(c)'
    BY <1>0, <1>5 DEF Commit, Goto, Asks
  <2>3. /\ list[c] \in Playlists /\ order[c] \in Askeds[list[c]]
        /\ Askeds' = [Askeds EXCEPT ![list[c]] = @ \ {order[c]}]
    BY <1>0, <2>2, AnswerStep
  <2>4. order[c] \in List!SetToSeqs(List!ToSet(Lists[list[c]]))
    BY <1>0, <2>2, <2>3, PermutesMayAsk DEF OrderFits
  <2>5. List!Reorder(list[c], order[c])
    BY <2>1, <2>3 DEF List!Reorder, List!Answer
  <2> QED
    BY <2>1, <2>3, <2>4, <2>5, Zenon DEF List!Step, List!Next
<1>6. ASSUME NEW c \in Calls, DeleteSongs(c)
      PROVE  Ordered' /\ List!Step
  <2>1. /\ Ordered' /\ list[c] \in Playlists
        /\ UNCHANGED Askeds => List!Clear(list[c])
    BY <1>0, <1>6, DeleteIsClear
  <2> QED
    BY <1>3, <1>6, <2>1, Zenon DEF List!Step, List!Next
<1> QED
  BY <1>1, <1>2, <1>4, <1>5, <1>6, RowSteps

\* Every step keeps what the lists rely on.
LEMMA ListInvNext == ListInv /\ [Next]_vars => ListInv'
<1> SUFFICES ASSUME ListInv, [Next]_vars
             PROVE  ListInv'
  OBVIOUS
<1>0. ReorderInv /\ TidyInv /\ DraftHas /\ TypeInv /\ OnceInv
  BY DEF ListInv, ReorderInv, OnceInv
<1>1. ReorderInv' /\ TidyInv' /\ DraftHas'
  BY <1>0, ReorderInvNext, OnceInvNext, NoDraftNext, AloneNext, DraftHasNext DEF TidyInv
<1>2. ASSUME tidy'
      PROVE  Ordered' /\ MaxRead' /\ OrderFits'
  <2>0. /\ tidy /\ Alone /\ MaxRead /\ OrderFits /\ Ordered' /\ TypeOK
        /\ rows \subseteq Row /\ list \in [Calls -> Playlists \cup {None}]
        /\ order \in [Calls -> Seq(Songs)] /\ maxPos \in [Calls -> Positions]
    BY <1>0, <1>1, <1>2, TidyBefore, ListStep DEF ListInv, TidyInv, TypeInv, TypeOK
  <2>1. MaxRead'
    <3> SUFFICES ASSUME NEW c \in Calls, pc'[c] = "insert", NEW r \in rows', r.playlist = list'[c]
                 PROVE  r.position <= maxPos'[c]
      BY DEF MaxRead, RowsOf
    <3>1. CASE ReadMax(c)
      <4>1. r \in RowsOf(list[c])
        BY <2>0, <3>1 DEF ReadMax, RowsOf, tables, request
      <4>2. maxPos'[c] = LastPosition(list[c])
        BY <2>0, <3>1, <4>1 DEF ReadMax
      <4> QED
        BY <2>0, <4>1, <4>2, GreatestPosition
    <3>2. CASE /\ pc[c] = "insert" /\ rows' = rows
               /\ list'[c] = list[c] /\ maxPos'[c] = maxPos[c]
      BY <2>0, <3>2 DEF MaxRead, RowsOf
    <3> QED
      BY <1>0, <1>2, <2>0, <3>1, <3>2, TidySteps
  <2>2. OrderFits'
    <3> SUFFICES ASSUME NEW c \in Calls, Asks(c)'
                 PROVE  Permutes(order[c], list[c])'
      BY DEF OrderFits
    <3>1. ASSUME NEW p \in Playlists, NEW o \in Orders, ReorderSongs(c, p, o)
          PROVE  Permutes(order[c], list[c])'
      <4>1. Permutes(o, p)
        BY <1>2, <3>1 DEF ReorderSongs, Arrives
      <4>2. order'[c] = o /\ list'[c] = p /\ rows' = rows
        BY <2>0, <3>1 DEF ReorderSongs, tables
      <4> QED
        BY <4>1, <4>2 DEF Permutes, SongsOf, RowsOf
    <3>2. CASE Asks(c) /\ rows' = rows /\ list'[c] = list[c] /\ order'[c] = order[c]
      BY <2>0, <3>2 DEF OrderFits, Permutes, SongsOf, RowsOf
    <3> QED
      BY <1>0, <1>2, <2>0, <3>1, <3>2, TidySteps DEF Asks
  <2> QED
    BY <2>0, <2>1, <2>2
<1> QED
  BY <1>1, <1>2 DEF ListInv

\* There are no songs to list, and no orders, at first.
LEMMA ListInvInit == Init => ListInv /\ List!Init
<1> SUFFICES ASSUME Init
             PROVE  ListInv /\ List!Init
  OBVIOUS
<1>1. \A p \in Playlists : RowsOf(p) = {} /\ Sorts(<<>>, 0, RowsOf(p))
  BY DEF Init, RowsOf, Sorts
<1>2. Ordered
  BY <1>1 DEF Ordered
<1>3. MaxRead /\ OrderFits /\ DraftHas
  BY DEF Init, MaxRead, OrderFits, DraftHas, Asks
<1>4. TidyInv /\ ReorderInv
  BY OnceInvInit, ReorderInvInit DEF Init, TidyInv, NoDraft, Alone, Running
<1>5. \A p \in Playlists : Listed(p) = <<>>
  <2> SUFFICES ASSUME NEW p \in Playlists
               PROVE  Listed(p) = <<>>
    OBVIOUS
  <2>1. Listed(p) = SongsIn(<<>>, 0)
    BY <1>1, ListedIs DEF Listed
  <2> QED
    BY <2>1 DEF SongsIn
<1>6. Askeds = [p \in Playlists |-> {}]
  BY NoneAsks DEF Init, Asks
<1>7. List!Init
  BY <1>5, <1>6 DEF List!Init, Lists
<1> QED
  BY <1>2, <1>3, <1>4, <1>7 DEF ListInv

\* The tidy steps of the service are those of a list: an added song comes last, a
\* removed one leaves the rest, a reorder gives the order asked for or nothing.
THEOREM ListsAreKept == Spec => ListSpec
<1>1. Init => ListInv /\ List!Init
  BY ListInvInit
<1>2. ListInv /\ [Next]_vars => ListInv'
  BY ListInvNext
<1>3. ListInv /\ ListInv' /\ [Next]_vars => [tidy' => List!Step]_vars
  BY ListStep DEF ListInv, TidyInv
<1> QED
  BY <1>1, <1>2, <1>3, PTL DEF Spec, ListSpec

=============================================================================
