----------------------------- MODULE LyricStore -----------------------------
(***************************************************************************)
(* What the lyric service promises: a lyric for each key, set by SaveLyric *)
(* and cleared by DeleteLyric, each in one step.  A save is told apart by  *)
(* its call, so the content of a lyric is the call that saved it.          *)
(***************************************************************************)
CONSTANTS
    Calls,  \* SaveLyric and DeleteLyric calls
    Keys,   \* song, type and language
    None    \* no content

VARIABLES
    content,  \* the content of each key
    done      \* the calls that were told they succeeded

vars == <<content, done>>

Init ==
    /\ content = [k \in Keys |-> None]
    /\ done = {}

Save(c, k) ==
    /\ c \notin done
    /\ content' = [content EXCEPT ![k] = c]
    /\ done' = done \cup {c}

Delete(c, k) ==
    /\ c \notin done
    /\ content[k] # None
    /\ content' = [content EXCEPT ![k] = None]
    /\ done' = done \cup {c}

Next == \E c \in Calls, k \in Keys : Save(c, k) \/ Delete(c, k)

Spec == Init /\ [][Next]_vars
=============================================================================
