-------------------------- MODULE LyricTableProofs --------------------------
(***************************************************************************)
(* LyricTable implements LyricStore for any calls, songs and faults, with  *)
(* the calls racing.                                                       *)
(*                                                                         *)
(* The mapping reads the content of a key off the row of that key, so it   *)
(* needs OneLyric; and UpdateContent changes a row by its id, which is of  *)
(* the key of the call only because a row never changes its key and its id *)
(* is that of the call that inserted it.                                   *)
(***************************************************************************)
EXTENDS LyricTable, TLAPS

\* The id of a row is a call that has inserted: two rows do not share one.
IdsAreCalls ==
    /\ \A r1, r2 \in lyrics : r1.id = r2.id => r1 = r2
    /\ \A r \in lyrics : pc[r.id] = "saved"

\* The row a save has found is, while it is there, one of the key it saves, and
\* no other row comes to have its id.
FoundIsOfKey ==
    \A c \in Calls : pc[c] = "update" =>
        /\ found[c] \in Calls
        /\ pc[found[c]] = "saved"
        /\ \A r \in lyrics : r.id = found[c] => r.key = key[c]

\* A call that has begun has a key.
HasKey == \A c \in Calls : pc[c] \in Running => key[c] \in Keys

IInv == TypeOK /\ OneLyric /\ IdsAreCalls /\ FoundIsOfKey /\ HasKey

\* A lyric of no type is an original, so every key asked for is one of the table.
LEMMA KeyIsKey ==
    ASSUME NEW s \in Songs, NEW t \in Types, NEW l \in Languages
    PROVE  KeyOf(s, t, l) \in Keys
BY TypesAssumption DEF KeyOf, Keys, TypeToStr

\* IInv holds in an empty table.
LEMMA IInvInit == Init => IInv
BY DEF Init, IInv, TypeOK, OneLyric, IdsAreCalls, FoundIsOfKey, HasKey, Running

\* Every step keeps IInv: an insert goes by the unique index, and an update
\* changes nothing of a row but its content.
LEMMA IInvNext == IInv /\ [Next]_vars => IInv'
<1> SUFFICES ASSUME IInv, [Next]_vars
             PROVE  IInv'
    OBVIOUS
<1> USE DEF IInv, TypeOK, OneLyric, IdsAreCalls, FoundIsOfKey, HasKey, Running,
           Goto, Fault, Row
<1>1. ASSUME NEW c \in Calls, NEW k \in Keys, SaveLyric(c, k)
      PROVE  IInv'
    BY <1>1 DEF SaveLyric, MayStart
<1>2. ASSUME NEW c \in Calls, NEW k \in Keys, DeleteLyric(c, k)
      PROVE  IInv'
    BY <1>2 DEF DeleteLyric, MayStart
<1>3. ASSUME NEW c \in Calls, NEW k \in Keys, DeleteFails(c, k)
      PROVE  IInv'
    BY <1>3, MaxFaultsAssumption DEF DeleteFails, MayStart
<1>4. ASSUME NEW c \in Calls, Look(c)
      PROVE  IInv'
    BY <1>4 DEF Look, RowsOf
<1>5. ASSUME NEW c \in Calls, LookBlind(c)
      PROVE  IInv'
    BY <1>5, MaxFaultsAssumption DEF LookBlind
<1>6. ASSUME NEW c \in Calls, UpdateContent(c)
      PROVE  IInv'
    BY <1>6 DEF UpdateContent
<1>7. ASSUME NEW c \in Calls, UpdateMisses(c)
      PROVE  IInv'
    BY <1>7 DEF UpdateMisses
<1>8. ASSUME NEW c \in Calls, Insert(c)
      PROVE  IInv'
    BY <1>8 DEF Insert, Indexed, RowsOf
<1>9. ASSUME NEW c \in Calls, InsertRejected(c)
      PROVE  IInv'
    BY <1>9 DEF InsertRejected
<1>10. ASSUME NEW c \in Calls, WriteFails(c)
      PROVE  IInv'
    BY <1>10, MaxFaultsAssumption DEF WriteFails
<1>11. CASE Crash
    BY <1>11, MaxFaultsAssumption DEF Crash
<1>12. CASE UNCHANGED vars
    BY <1>12 DEF vars
<1>. QED
    BY <1>1, <1>2, <1>3, <1>4, <1>5, <1>6, <1>7, <1>8, <1>9, <1>10, <1>11,
       <1>12, KeyIsKey DEF Next, Step

\* IInv is an invariant of the table and its calls.
LEMMA Invariant == Spec => []IInv
BY IInvInit, IInvNext, PTL DEF Spec

\* For any calls, songs and faults, a song has one lyric of a type and language.
THEOREM OneLyricEach == Spec => []OneLyric
BY Invariant, PTL DEF IInv

-----------------------------------------------------------------------------
(* The refinement. *)

Contents == [k \in Keys |-> ContentOf(k)]

\* With one row to a key, the content of a key is that of its row.
LEMMA ContentOfRow ==
    ASSUME OneLyric, NEW r \in lyrics
    PROVE  ContentOf(r.key) = r.content
<1>1. RowsOf(r.key) = {r}
    BY DEF RowsOf, OneLyric
<1>. QED  BY <1>1 DEF ContentOf

\* A key without a row has no content.
LEMMA ContentOfNone ==
    ASSUME NEW k, \A r \in lyrics : r.key # k
    PROVE  ContentOf(k) = None
BY DEF ContentOf, RowsOf

\* A step that leaves every row of the other keys, and leaves x in key k (None
\* for no row), changes the content of k to x and no other.
LEMMA OneKeyChanges ==
    ASSUME OneLyric, OneLyric', NEW k \in Keys, NEW x,
           \A r \in lyrics : r.key # k => r \in lyrics',
           \A r \in lyrics' : r.key # k => r \in lyrics,
           \/ \E r \in lyrics' : r.key = k /\ r.content = x
           \/ x = None /\ \A r \in lyrics' : r.key # k
    PROVE  Contents' = [Contents EXCEPT ![k] = x]
<1>1. ContentOf(k)' = x
  <2>1. CASE \E r \in lyrics' : r.key = k /\ r.content = x
    <3>1. PICK r \in lyrics' : r.key = k /\ r.content = x
        BY <2>1
    <3>2. RowsOf(k)' = {r}
        BY <3>1 DEF RowsOf, OneLyric
    <3>. QED  BY <3>1, <3>2 DEF ContentOf
  <2>2. CASE x = None /\ \A r \in lyrics' : r.key # k
    <3>1. RowsOf(k)' = {}
        BY <2>2 DEF RowsOf
    <3>. QED  BY <2>2, <3>1 DEF ContentOf
  <2>. QED  BY <2>1, <2>2
<1>2. ASSUME NEW j \in Keys, j # k
      PROVE  ContentOf(j)' = ContentOf(j)
  <2>1. RowsOf(j)' = RowsOf(j)
      BY <1>2 DEF RowsOf
  <2>. QED  BY <2>1 DEF ContentOf
<1>. QED  BY <1>1, <1>2 DEF Contents

\* A save takes effect when it updates or inserts its row, a delete when it
\* deletes one, and no other step changes what a reader could see.
LEMMA StoreStep ==
    ASSUME IInv, IInv', [Next]_vars
    PROVE  [Store!Next]_(Store!vars)
<1> USE DEF IInv
<1>1. ASSUME NEW c \in Calls, UpdateContent(c)
      PROVE  Store!Next
  <2>1. PICK k \in Keys : k = key[c]
      BY <1>1 DEF UpdateContent, HasKey, Running
  <2>2. c \notin Done /\ Done' = Done \cup {c}
      BY <1>1 DEF UpdateContent, Goto, Done, TypeOK
  <2>3. PICK r \in lyrics : /\ r.id = found[c]
                           /\ lyrics' = (lyrics \ {r}) \cup {[r EXCEPT !.content = c]}
      BY <1>1 DEF UpdateContent
  <2>4. r.key = k /\ r \in Row
      BY <1>1, <2>1, <2>3 DEF UpdateContent, FoundIsOfKey, TypeOK
  <2>5. Contents' = [Contents EXCEPT ![k] = c]
    <3>1. [r EXCEPT !.content = c] \in lyrics'
        BY <2>3
    <3>2. [r EXCEPT !.content = c].key = k /\ [r EXCEPT !.content = c].content = c
        BY <2>4 DEF Row
    <3>. QED  BY <2>3, <2>4, <3>1, <3>2, OneKeyChanges
  <2>6. Store!Save(c, k)
      BY <2>2, <2>5 DEF Store!Save, Contents
  <2>. QED  BY <2>6 DEF Store!Next
<1>2. ASSUME NEW c \in Calls, Insert(c)
      PROVE  Store!Next
  <2>1. PICK k \in Keys : k = key[c]
      BY <1>2 DEF Insert, HasKey, Running
  <2>2. c \notin Done /\ Done' = Done \cup {c}
      BY <1>2 DEF Insert, Goto, Done, TypeOK
  <2>3. Contents' = [Contents EXCEPT ![k] = c]
    <3>1. PICK r \in lyrics' : /\ r.key = k /\ r.content = c
                              /\ lyrics' = lyrics \cup {r}
        BY <1>2, <2>1 DEF Insert
    <3>. QED  BY <3>1, OneKeyChanges
  <2>4. Store!Save(c, k)
      BY <2>2, <2>3 DEF Store!Save, Contents
  <2>. QED  BY <2>4 DEF Store!Next
<1>3. ASSUME NEW c \in Calls, NEW k \in Keys, DeleteLyric(c, k)
      PROVE  Store!Next \/ UNCHANGED <<lyrics, Done>>
  <2>1. CASE RowsOf(k) = {}
    <3>1. lyrics' = lyrics /\ Done' = Done
        BY <1>3, <2>1 DEF DeleteLyric, MayStart, Goto, Done, TypeOK
    <3>. QED  BY <3>1
  <2>2. CASE RowsOf(k) # {}
    <3>1. c \notin Done /\ Done' = Done \cup {c}
        BY <1>3, <2>2 DEF DeleteLyric, MayStart, Goto, Done, TypeOK
    <3>2. PICK r \in lyrics : r.key = k
        BY <2>2 DEF RowsOf
    <3>3. Contents[k] # None
        BY <3>2, ContentOfRow, NoneAssumption DEF Contents, TypeOK, Row
    <3>4. Contents' = [Contents EXCEPT ![k] = None]
        BY <1>3, OneKeyChanges DEF DeleteLyric, RowsOf
    <3>5. Store!Delete(c, k)
        BY <3>1, <3>3, <3>4 DEF Store!Delete, Contents
    <3>. QED  BY <3>5 DEF Store!Next
  <2>. QED  BY <2>1, <2>2
<1>4. ASSUME UNCHANGED <<lyrics, Done>>
      PROVE  UNCHANGED Store!vars
    BY <1>4 DEF Store!vars, ContentOf, RowsOf
<1>5. \/ \E c \in Calls : UpdateContent(c) \/ Insert(c)
      \/ \E c \in Calls, k \in Keys : DeleteLyric(c, k)
      \/ UNCHANGED <<lyrics, Done>>
  <2>1. CASE Crash
      BY <2>1 DEF Crash, Done, TypeOK, Running
  <2>2. CASE UNCHANGED vars
      BY <2>2 DEF vars, Done
  <2>3. ASSUME NEW c \in Calls, NEW k \in Keys, SaveLyric(c, k) \/ DeleteFails(c, k)
        PROVE  UNCHANGED <<lyrics, Done>>
      BY <2>3 DEF SaveLyric, DeleteFails, MayStart, Goto, Done, TypeOK
  <2>4. ASSUME NEW c \in Calls, Look(c) \/ LookBlind(c)
        PROVE  UNCHANGED <<lyrics, Done>>
      BY <2>4 DEF Look, LookBlind, Goto, Done, TypeOK
  <2>5. ASSUME NEW c \in Calls, UpdateMisses(c) \/ InsertRejected(c) \/ WriteFails(c)
        PROVE  UNCHANGED <<lyrics, Done>>
      BY <2>5 DEF UpdateMisses, InsertRejected, WriteFails, Goto, Done, TypeOK
  <2>. QED  BY <2>1, <2>2, <2>3, <2>4, <2>5, KeyIsKey DEF Next, Step
<1>. QED  BY <1>1, <1>2, <1>3, <1>4, <1>5

\* SaveLyric and DeleteLyric, racing and failing, implement the one-step store.
THEOREM ImplementsStore == Spec => StoreSpec
<1>1. Init => Store!Init
    BY ContentOfNone DEF Init, Store!Init, Done, Contents
<1>. QED
    BY <1>1, Invariant, StoreStep, PTL DEF Spec, StoreSpec, Store!Spec
=============================================================================
