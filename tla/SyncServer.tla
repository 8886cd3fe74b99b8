----------------------------- MODULE SyncServer -----------------------------
(***************************************************************************)
(* The sync service with its notifications: SyncService, whose pushes call *)
(* Notify after every change they log, composed with Notifier, whose       *)
(* streams tell the devices to pull (src/internal/service/sync/service.go  *)
(* and src/internal/grpc/handler_sync.go).                                 *)
(*                                                                         *)
(* The call that logged a change is the notifier: it holds the read lock   *)
(* of the Notifier from the start of its "notify" step to its end.         *)
(***************************************************************************)
EXTENDS SyncService

CONSTANTS
    Streams,     \* SubscribeChanges calls
    BufferSize,  \* notifierBufferSize
    None         \* no channel, no message

VARIABLES subscribers, buffer, state, device, channel, got, todo, message,
          holding, sent

Notification == [etype : EntityTypes, action : StoredActions, version : Nat]

N == INSTANCE Notifier WITH Notifiers <- Calls, Messages <- Notification

notifierVars == <<subscribers, buffer, state, device, channel, got, todo, message,
                  holding, sent>>
serverVars == <<vars, notifierVars>>

ServerInit == Init /\ N!Init

NotificationOf(c) ==
    LET ch == batch[c][pos[c]]
    IN  [etype |-> ch.etype, action |-> ActionName[ch.action], version |-> ver[c]]

\* Mutant: the devices are notified before the change is in the table.
StartNotifyEarly(c) ==
    /\ pc[c] \in {"append", "notify"}
    /\ N!Begin(c, NotificationOf(c))
    /\ UNCHANGED vars

StartNotify(c) ==
    /\ pc[c] = "notify"
    /\ N!Begin(c, NotificationOf(c))
    /\ UNCHANGED vars

FinishNotify(c) == N!End(c) /\ Notify(c)

OfferOne(c) == N!Offer(c) /\ UNCHANGED vars

\* The statements of PushChanges other than Notify.
PlainStep(c) ==
    /\ \/ Resolve(c) \/ ResolveBlind(c) \/ Skip(c)
       \/ NextVersion(c) \/ NextVersionBlind(c)
       \/ AppendChange(c) \/ AppendFails(c)
       \/ Respond(c) \/ RespondBlind(c)
    /\ UNCHANGED notifierVars

\* Locks, channels and streams are gone with the process.
ServerCrash ==
    /\ Crash
    /\ subscribers' = [d \in Devices |-> None]
    /\ buffer' = [s \in Streams |-> <<>>]
    /\ state' = [s \in Streams |-> IF state[s] = "idle" THEN "idle" ELSE "closed"]
    /\ todo' = [c \in Calls |-> {}]
    /\ message' = [c \in Calls |-> None]
    /\ holding' = {}
    /\ UNCHANGED <<device, channel, got, sent>>

CallStep(c) == PlainStep(c) \/ StartNotify(c) \/ OfferOne(c) \/ FinishNotify(c)

ServerNext ==
    \/ \E c \in Calls : (Arrive(c) /\ UNCHANGED notifierVars) \/ CallStep(c)
    \/ \E c, o \in Calls : Retry(c, o) /\ UNCHANGED notifierVars
    \/ \E d \in Devices : Pull(d) /\ UNCHANGED notifierVars
    \/ \E v \in Versions : Ack(v) /\ UNCHANGED notifierVars
    \/ \E s \in Streams : N!StreamStep(s) /\ UNCHANGED vars
    \/ ServerCrash

ServerSpec == ServerInit /\ [][ServerNext]_serverVars

-----------------------------------------------------------------------------
(* Properties. *)

\* What a device is told of can be pulled: the row is in the table before the
\* notification leaves, and survives a crash that loses the notification; and the
\* version is ahead of the device's cursor, unless the device was sent a change of
\* that version already.
NotifiedChangeIsPullable ==
    \A s \in Streams : \A m \in Range(got[s]) \cup Range(buffer[s]) :
        \E i \in DOMAIN log : /\ log[i].version = m.version
                              /\ log[i].etype = m.etype
                              /\ log[i].action = m.action
                              /\ \/ cursor[device[s]] < m.version
                                 \/ \E j \in seen[device[s]] : log[j].version = m.version
=============================================================================
