----------------------------- MODULE LyricTable -----------------------------
(***************************************************************************)
(* The lyric service of EchoVault: src/internal/service/lyric.             *)
(*                                                                         *)
(* SaveLyric looks for the lyric of a song, type and language, and updates *)
(* it by its id or inserts a new one, in two statements; DeleteLyric is    *)
(* one statement.  The table has a unique index on the three columns.      *)
(* Calls run in goroutines of their own.  The reads are single queries and *)
(* are left out; so is the source, which nothing sets.                     *)
(***************************************************************************)
EXTENDS Integers

CONSTANTS
    Calls,       \* SaveLyric and DeleteLyric calls
    Songs,       \* song ids
    Types,       \* lyric types asked for: numbers, of the proto enum or not
    Languages,   \* languages
    Concurrent,  \* FALSE: a call starts only when no other is in flight
    Faults,      \* what may go wrong: "read", "write", "crash"
    MaxFaults,   \* bound: faults in one behaviour
    None         \* no call or key

ASSUME TypesAssumption == Types \subseteq Int
ASSUME ConcurrentAssumption == Concurrent \in BOOLEAN
ASSUME FaultsAssumption == Faults \subseteq {"read", "write", "crash"}
ASSUME MaxFaultsAssumption == MaxFaults \in Nat
ASSUME NoneAssumption == None \notin Calls \cup [song : Songs, type : 1 .. 3, language : Languages]

VARIABLES
    lyrics,  \* the lyrics table
    pc,      \* where each call is
    key,     \* the song, type and language of each call
    found,   \* the id of the row a save found, or None
    faults   \* faults so far

vars == <<lyrics, pc, key, found, faults>>

Running == {"look", "update", "insert"}

\* typeToStr: a lyric of no type, and of a type it does not know, is an original.
TypeToStr(t) == IF t \in 1 .. 3 THEN t ELSE 1

Keys == [song : Songs, type : 1 .. 3, language : Languages]
KeyOf(s, t, l) == [song |-> s, type |-> TypeToStr(t), language |-> l]

\* The id of a row is the call that inserted it; its content, the call that
\* wrote it last.
Row == [id : Calls, key : Keys, content : Calls]

RowsOf(k) == {r \in lyrics : r.key = k}

Init ==
    /\ lyrics = {}
    /\ pc = [c \in Calls |-> "idle"]
    /\ key = [c \in Calls |-> None]
    /\ found = [c \in Calls |-> None]
    /\ faults = 0

Fault(kind) == kind \in Faults /\ faults < MaxFaults /\ faults' = faults + 1

Goto(c, step) == pc' = [pc EXCEPT ![c] = step]

MayStart(c) ==
    /\ pc[c] = "idle"
    /\ Concurrent \/ \A o \in Calls : pc[o] \notin Running

-----------------------------------------------------------------------------
(* SaveLyric. *)

SaveLyric(c, k) ==
    /\ MayStart(c)
    /\ key' = [key EXCEPT ![c] = k]
    /\ Goto(c, "look")
    /\ UNCHANGED <<lyrics, found, faults>>

Look(c) ==
    /\ pc[c] = "look"
    /\ \/ /\ RowsOf(key[c]) = {}
          /\ Goto(c, "insert")
          /\ UNCHANGED found
       \/ /\ \E r \in RowsOf(key[c]) : found' = [found EXCEPT ![c] = r.id]
          /\ Goto(c, "update")
    /\ UNCHANGED <<lyrics, key, faults>>

\* The error of First is ignored: a query that fails has found nothing.
LookBlind(c) ==
    /\ pc[c] = "look"
    /\ Fault("read")
    /\ Goto(c, "insert")
    /\ UNCHANGED <<lyrics, key, found>>

\* UpdateOne writes the row with the id that was found.
UpdateContent(c) ==
    /\ pc[c] = "update"
    /\ \E r \in lyrics :
        /\ r.id = found[c]
        /\ lyrics' = (lyrics \ {r}) \cup {[r EXCEPT !.content = c]}
    /\ Goto(c, "saved")
    /\ UNCHANGED <<key, found, faults>>

\* Mutant: an update of no row is not an error.
UpdateMissesQuietly(c) ==
    /\ pc[c] = "update"
    /\ \A r \in lyrics : r.id # found[c]
    /\ Goto(c, "saved")
    /\ UNCHANGED <<lyrics, key, found, faults>>

\* The row was deleted after it was found: UpdateOne answers that it is not there.
UpdateMisses(c) ==
    /\ pc[c] = "update"
    /\ \A r \in lyrics : r.id # found[c]
    /\ Goto(c, "failed")
    /\ UNCHANGED <<lyrics, key, found, faults>>

\* The unique index on song_id, type and language lets the row in.
Indexed(c) == RowsOf(key[c]) = {}

Insert(c) ==
    /\ pc[c] = "insert"
    /\ Indexed(c)
    /\ lyrics' = lyrics \cup {[id |-> c, key |-> key[c], content |-> c]}
    /\ Goto(c, "saved")
    /\ UNCHANGED <<key, found, faults>>

InsertRejected(c) ==
    /\ pc[c] = "insert"
    /\ ~ Indexed(c)
    /\ Goto(c, "failed")
    /\ UNCHANGED <<lyrics, key, found, faults>>

WriteFails(c) ==
    /\ pc[c] \in {"update", "insert"}
    /\ Fault("write")
    /\ Goto(c, "failed")
    /\ UNCHANGED <<lyrics, key, found>>

-----------------------------------------------------------------------------
(* DeleteLyric, and the end of the process. *)

\* An error when the statement deletes no row.
DeleteLyric(c, k) ==
    /\ MayStart(c)
    /\ key' = [key EXCEPT ![c] = k]
    /\ lyrics' = lyrics \ RowsOf(k)
    /\ Goto(c, IF RowsOf(k) = {} THEN "missing" ELSE "deleted")
    /\ UNCHANGED <<found, faults>>

DeleteFails(c, k) ==
    /\ MayStart(c)
    /\ Fault("write")
    /\ key' = [key EXCEPT ![c] = k]
    /\ Goto(c, "failed")
    /\ UNCHANGED <<lyrics, found>>

\* The calls in flight end; the table stays.
Crash ==
    /\ Fault("crash")
    /\ pc' = [c \in Calls |-> IF pc[c] \in Running THEN "failed" ELSE pc[c]]
    /\ UNCHANGED <<lyrics, key, found>>

Step(c) ==
    \/ Look(c) \/ LookBlind(c)
    \/ UpdateContent(c) \/ UpdateMisses(c)
    \/ Insert(c) \/ InsertRejected(c) \/ WriteFails(c)

Next ==
    \/ \E c \in Calls, s \in Songs, t \in Types, l \in Languages :
        \/ SaveLyric(c, KeyOf(s, t, l))
        \/ DeleteLyric(c, KeyOf(s, t, l))
        \/ DeleteFails(c, KeyOf(s, t, l))
    \/ \E c \in Calls : Step(c)
    \/ Crash

Spec == Init /\ [][Next]_vars

-----------------------------------------------------------------------------
(* Properties. *)

TypeOK ==
    /\ lyrics \subseteq Row
    /\ pc \in [Calls -> Running \cup {"idle", "saved", "deleted", "missing", "failed"}]
    /\ key \in [Calls -> Keys \cup {None}]
    /\ found \in [Calls -> Calls \cup {None}]
    /\ faults \in Nat

\* A song has one lyric of a type and language, however the saves of it race:
\* SaveLyric (lyric/service.go:33) updates the one that is there.
OneLyric == \A r1, r2 \in lyrics : r1.key = r2.key => r1 = r2

Done == {c \in Calls : pc[c] \in {"saved", "deleted"}}

ContentOf(k) ==
    IF RowsOf(k) = {} THEN None ELSE (CHOOSE r \in RowsOf(k) : TRUE).content

Store == INSTANCE LyricStore WITH
    content <- [k \in Keys |-> ContentOf(k)],
    done <- Done

\* A save that succeeds sets the lyric at one moment, one that fails leaves it
\* as it was, and no save brings back what a delete has removed: the two
\* statements of SaveLyric implement the one step of LyricStore.
StoreSpec == Store!Spec
=============================================================================
