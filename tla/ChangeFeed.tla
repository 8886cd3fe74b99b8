----------------------------- MODULE ChangeFeed -----------------------------
(***************************************************************************)
(* What the sync service of EchoVault promises its devices: one feed of    *)
(* changes, in one order, that every device receives from the start, page  *)
(* by page, in that order and without a hole.                              *)
(* Code: PushChanges and PullChanges in src/internal/service/sync.         *)
(***************************************************************************)
EXTENDS Integers, Sequences

CONSTANTS
    Devices,   \* devices that read the feed
    Changes,   \* what a device may publish
    PageSize   \* the most a device receives in one step

VARIABLES
    feed,      \* the changes in their order
    received   \* the positions of the feed each device has received

vars == <<feed, received>>

Init == feed = <<>> /\ received = [d \in Devices |-> {}]

Publish(x) == feed' = Append(feed, x) /\ UNCHANGED received

\* The next n changes: what a device has received is always a prefix.
Consume(d) ==
    /\ \E k \in 0 .. Len(feed), n \in 1 .. PageSize :
        /\ received[d] = 1 .. k
        /\ k + n <= Len(feed)
        /\ received' = [received EXCEPT ![d] = 1 .. k + n]
    /\ UNCHANGED feed

Next ==
    \/ \E x \in Changes : Publish(x)
    \/ \E d \in Devices : Consume(d)

\* A device that is behind reads on.
Spec == Init /\ [][Next]_vars /\ \A d \in Devices : WF_vars(Consume(d))
=============================================================================
