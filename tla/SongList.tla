------------------------------ MODULE SongList ------------------------------
(***************************************************************************)
(* What the playlist service of EchoVault promises: the songs of a         *)
(* playlist are a list, in an order that only a user changes.              *)
(* Code: src/internal/service/playlist/service.go.                         *)
(***************************************************************************)
EXTENDS SequencesExt

CONSTANTS Playlists, Songs

VARIABLES
    list,   \* the songs of each playlist
    asked   \* the orders asked for it and not yet answered

vars == <<list, asked>>

Init ==
    /\ list = [p \in Playlists |-> <<>>]
    /\ asked = [p \in Playlists |-> {}]

Add(p, s) ==
    /\ ~ Contains(list[p], s)
    /\ list' = [list EXCEPT ![p] = Append(@, s)]
    /\ UNCHANGED asked

Take(p, s) ==
    /\ \E i \in DOMAIN list[p] :
        /\ list[p][i] = s
        /\ list' = [list EXCEPT ![p] = RemoveAt(@, i)]
    /\ UNCHANGED asked

Clear(p) ==
    /\ list' = [list EXCEPT ![p] = <<>>]
    /\ UNCHANGED asked

\* A user asks for an order of the songs a playlist has.
Ask(p, order) ==
    /\ asked' = [asked EXCEPT ![p] = @ \cup {order}]
    /\ UNCHANGED list

Answer(p, order) ==
    /\ order \in asked[p]
    /\ asked' = [asked EXCEPT ![p] = @ \ {order}]

\* The songs stand as they were asked for.
Reorder(p, order) ==
    /\ Answer(p, order)
    /\ list' = [list EXCEPT ![p] = order]

\* Or the playlist stays as it was.
Refuse(p, order) ==
    /\ Answer(p, order)
    /\ UNCHANGED list

Next ==
    \E p \in Playlists :
        \/ \E s \in Songs : Add(p, s) \/ Take(p, s)
        \/ Clear(p)
        \/ \E order \in SetToSeqs(ToSet(list[p])) : Ask(p, order) \/ Reorder(p, order)
        \/ \E order \in asked[p] : Refuse(p, order)

Step == Next \/ UNCHANGED vars

Spec == Init /\ [][Next]_vars
=============================================================================
