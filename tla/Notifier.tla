------------------------------ MODULE Notifier ------------------------------
(***************************************************************************)
(* Change notifications: the Notifier of src/internal/service/sync and the *)
(* SubscribeChanges streams of src/internal/grpc/handler_sync.go that it   *)
(* feeds.                                                                  *)
(*                                                                         *)
(* A stream is one SubscribeChanges call, in a goroutine of its own: it    *)
(* takes the channel registered for its device, or registers a new one,    *)
(* forwards what arrives on it, and on its way out removes the device's    *)
(* registration.  A push notifies while it holds the read lock: it offers  *)
(* the message to every registered channel, one after the other, and drops *)
(* it where the buffer is full.  Subscribe and Unsubscribe take the write  *)
(* lock, so they wait until no push is notifying.                          *)
(*                                                                         *)
(* A channel is named by the stream that made it.                          *)
(***************************************************************************)
EXTENDS Integers, SequencesExt

CONSTANTS
    Devices,    \* device ids
    Streams,    \* SubscribeChanges calls
    Notifiers,  \* goroutines that call Notify
    Messages,   \* change notifications, each sent once
    BufferSize, \* notifierBufferSize
    None        \* no channel, no message

ASSUME BufferSizeAssumption == BufferSize \in Nat \ {0}
ASSUME NoneAssumption == None \notin Streams \cup Messages

VARIABLES
    subscribers,  \* the map of the Notifier: device to channel
    buffer,       \* the channels
    state,        \* of each stream
    device,       \* the device of each stream
    channel,      \* ch, the channel each stream receives from
    got,          \* what each stream has sent to its client
    todo,         \* of each notifier that holds the read lock: channels to come
    message,      \* what each notifier sends
    holding,      \* the notifiers that hold the read lock
    sent          \* the messages that were passed to Notify

streamVars == <<state, device, channel, got>>
notifyVars == <<todo, message, holding, sent>>
vars == <<subscribers, buffer, streamVars, notifyVars>>

Init ==
    /\ subscribers = [d \in Devices |-> None]
    /\ buffer = [s \in Streams |-> <<>>]
    /\ state = [s \in Streams |-> "idle"]
    /\ device \in [Streams -> Devices]
    /\ channel = [s \in Streams |-> s]
    /\ got = [s \in Streams |-> <<>>]
    /\ todo = [n \in Notifiers |-> {}]
    /\ message = [n \in Notifiers |-> None]
    /\ holding = {}
    /\ sent = {}

Registered == {subscribers[d] : d \in Devices} \ {None}

\* mu.Lock() is granted when no notifier holds mu.RLock().
WriteLockFree == holding = {}

-----------------------------------------------------------------------------
(* SubscribeChanges. *)

Subscribe(s) ==
    /\ state[s] = "idle"
    /\ WriteLockFree
    /\ state' = [state EXCEPT ![s] = "open"]
    /\ IF subscribers[device[s]] = None
         THEN /\ subscribers' = [subscribers EXCEPT ![device[s]] = s]
              /\ UNCHANGED channel
         ELSE /\ channel' = [channel EXCEPT ![s] = subscribers[device[s]]]
              /\ UNCHANGED subscribers
    /\ UNCHANGED <<buffer, device, got, notifyVars>>

Forward(s) ==
    /\ state[s] = "open"
    /\ buffer[channel[s]] # <<>>
    /\ buffer' = [buffer EXCEPT ![channel[s]] = Tail(@)]
    /\ got' = [got EXCEPT ![s] = Append(@, Head(buffer[channel[s]]))]
    /\ UNCHANGED <<subscribers, state, device, channel, notifyVars>>

\* stream.Send fails: the message it took is gone and the stream ends.
SendFails(s) ==
    /\ state[s] = "open"
    /\ buffer[channel[s]] # <<>>
    /\ buffer' = [buffer EXCEPT ![channel[s]] = Tail(@)]
    /\ state' = [state EXCEPT ![s] = "closing"]
    /\ UNCHANGED <<subscribers, device, channel, got, notifyVars>>

\* The client goes away: stream.Context() is done.
Cancel(s) ==
    /\ state[s] = "open"
    /\ state' = [state EXCEPT ![s] = "closing"]
    /\ UNCHANGED <<subscribers, buffer, device, channel, got, notifyVars>>

\* Mutants: the registration stays; every registration is deleted; the map is
\* changed without the lock.
UnsubscribeKeeps(s) ==
    /\ state[s] = "closing"
    /\ state' = [state EXCEPT ![s] = "closed"]
    /\ UNCHANGED <<subscribers, buffer, device, channel, got, notifyVars>>

UnsubscribeAll(s) ==
    /\ state[s] = "closing"
    /\ WriteLockFree
    /\ state' = [state EXCEPT ![s] = "closed"]
    /\ subscribers' = [d \in Devices |-> None]
    /\ UNCHANGED <<buffer, device, channel, got, notifyVars>>

UnsubscribeUnlocked(s) ==
    /\ state[s] = "closing"
    /\ state' = [state EXCEPT ![s] = "closed"]
    /\ subscribers' = [subscribers EXCEPT ![device[s]] = None]
    /\ UNCHANGED <<buffer, device, channel, got, notifyVars>>

\* The deferred Unsubscribe deletes what is registered for the device, whether
\* or not this stream made it.
Unsubscribe(s) ==
    /\ state[s] = "closing"
    /\ WriteLockFree
    /\ state' = [state EXCEPT ![s] = "closed"]
    /\ subscribers' = [subscribers EXCEPT ![device[s]] = None]
    /\ UNCHANGED <<buffer, device, channel, got, notifyVars>>

-----------------------------------------------------------------------------
(* Notify. *)

\* RLock: the channels registered now are the channels offered the message,
\* since the map cannot change until RUnlock.
Begin(n, m) ==
    /\ n \notin holding
    /\ holding' = holding \cup {n}
    /\ message' = [message EXCEPT ![n] = m]
    /\ todo' = [todo EXCEPT ![n] = Registered]
    /\ sent' = sent \cup {m}
    /\ UNCHANGED <<subscribers, buffer, streamVars>>

\* Mutants: a send that waits for room; a channel that is offered the message
\* until it is full.
OfferWaits(n) ==
    /\ n \in holding
    /\ \E ch \in todo[n] :
        /\ Len(buffer[ch]) < BufferSize
        /\ buffer' = [buffer EXCEPT ![ch] = Append(@, message[n])]
        /\ todo' = [todo EXCEPT ![n] = @ \ {ch}]
    /\ UNCHANGED <<subscribers, streamVars, message, holding, sent>>

OfferUntilFull(n) ==
    /\ n \in holding
    /\ \E ch \in todo[n] :
        IF Len(buffer[ch]) < BufferSize
          THEN buffer' = [buffer EXCEPT ![ch] = Append(@, message[n])] /\ UNCHANGED todo
          ELSE todo' = [todo EXCEPT ![n] = @ \ {ch}] /\ UNCHANGED buffer
    /\ UNCHANGED <<subscribers, streamVars, message, holding, sent>>

\* The channels are taken in the order of a Go map: any order.
Offer(n) ==
    /\ n \in holding
    /\ \E ch \in todo[n] :
        /\ buffer' = [buffer EXCEPT ![ch] =
                        IF Len(@) < BufferSize THEN Append(@, message[n]) ELSE @]
        /\ todo' = [todo EXCEPT ![n] = @ \ {ch}]
    /\ UNCHANGED <<subscribers, streamVars, message, holding, sent>>

\* RUnlock.
End(n) ==
    /\ n \in holding
    /\ todo[n] = {}
    /\ holding' = holding \ {n}
    /\ message' = [message EXCEPT ![n] = None]
    /\ UNCHANGED <<subscribers, buffer, streamVars, todo, sent>>

-----------------------------------------------------------------------------

StreamStep(s) ==
    \/ Subscribe(s) \/ Forward(s) \/ SendFails(s) \/ Cancel(s) \/ Unsubscribe(s)

Next ==
    \/ \E s \in Streams : StreamStep(s)
    \/ \E n \in Notifiers, m \in Messages : m \notin sent /\ Begin(n, m)
    \/ \E n \in Notifiers : Offer(n) \/ End(n)

Spec == Init /\ [][Next]_vars

\* A notifier runs on.  Nothing is assumed of the clients: no stream need ever forward
\* what its channel holds, or end.
Fairness == \A n \in Notifiers : WF_vars(Offer(n)) /\ WF_vars(End(n))

FairSpec == Spec /\ Fairness

-----------------------------------------------------------------------------
(* Properties. *)

TypeOK ==
    /\ subscribers \in [Devices -> Streams \cup {None}]
    /\ buffer \in [Streams -> Seq(Messages)]
    /\ \A s \in Streams : Len(buffer[s]) <= BufferSize
    /\ state \in [Streams -> {"idle", "open", "closing", "closed"}]
    /\ device \in [Streams -> Devices]
    /\ channel \in [Streams -> Streams]
    /\ got \in [Streams -> Seq(Messages)]
    /\ todo \in [Notifiers -> SUBSET Streams]
    /\ message \in [Notifiers -> Messages \cup {None}]
    /\ holding \subseteq Notifiers
    /\ sent \subseteq Messages

\* A device is sent a notification at most once, over all its streams and what
\* their channels still hold (one channel per device is registered at a time).
Copies(d, m) ==
    LET mine == {s \in Streams : device[s] = d}
        In(queue) == UNION {{<<s, i>> : i \in {j \in DOMAIN queue[s] : queue[s][j] = m}} :
                              s \in mine}
    IN  ({"got"} \X In(got)) \cup ({"buffer"} \X In(buffer))

AtMostOnce ==
    \A d \in Devices, m \in Messages : Cardinality(Copies(d, m)) <= 1

\* A registered channel has a live stream of its device to drain it: none is
\* left behind when streams end in any order (Subscribe, Unsubscribe).
NoAbandonedChannel ==
    \A d \in Devices : subscribers[d] # None =>
        \E s \in Streams : /\ device[s] = d
                            /\ state[s] \in {"open", "closing"}
                            /\ channel[s] = subscribers[d]

\* Notify puts nothing in a channel whose registration is gone, even when the
\* device unsubscribes while a push is notifying (the read lock).
UnsubscribeStops ==
    [][\A ch \in Streams : Len(buffer'[ch]) > Len(buffer[ch]) => ch \in Registered]_vars

\* A stream opens with its channel registered for its device, and while it is
\* open only the end of another stream of that device takes it out: the streams
\* of other devices and its own successors never cut it off (Subscribe and the
\* deferred Unsubscribe of SubscribeChanges).
LiveStreamRegistered ==
    [][\A s \in Streams :
        /\ state'[s] = "open"
        /\ state[s] = "idle" \/ subscribers[device[s]] = channel[s]
        => \/ subscribers'[device[s]] = channel'[s]
           \/ \E o \in Streams \ {s} : /\ device[o] = device[s]
                                       /\ state[o] = "closing"
                                       /\ state'[o] = "closed"]_vars

\* A push is never held up by a subscriber that does not drain its channel.
NotifyEnds == \A n \in Notifiers : n \in holding ~> n \notin holding
=============================================================================
