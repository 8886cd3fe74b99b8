--------------------------- MODULE NotifierProofs ---------------------------
(***************************************************************************)
(* Theorems about Notifier, for every value of its constants.              *)
(***************************************************************************)
EXTENDS Notifier, SequenceTheorems, FiniteSetTheorems, TLAPS

-----------------------------------------------------------------------------
(* Types. *)

\* A notifier that holds the lock has a message that was sent; one that does not
\* has nothing left to offer.
HoldersSend ==
    \A n \in Notifiers :
        /\ n \in holding => message[n] \in sent
        /\ n \notin holding => todo[n] = {}

\* A stream that has not subscribed names the channel it would make.
OwnChannel == \A s \in Streams : state[s] = "idle" => channel[s] = s

\* Which notifiers hold the read lock, and what an unopened stream names, with the types.
TypeInv == TypeOK /\ HoldersSend /\ OwnChannel

\* What taking the head off a buffer, and putting a message at the end, leave.
LEMMA BufferFacts ==
    ASSUME NEW q \in Seq(Messages)
    PROVE  /\ Len(q) \in Nat /\ DOMAIN q = 1 .. Len(q)
           /\ q # <<>> => /\ Head(q) \in Messages /\ Head(q) = q[1] /\ 1 \in DOMAIN q
                          /\ Tail(q) \in Seq(Messages)
                          /\ Len(Tail(q)) = Len(q) - 1
                          /\ DOMAIN Tail(q) = 1 .. Len(q) - 1
                          /\ \A i \in 1 .. Len(q) - 1 : Tail(q)[i] = q[i + 1]
           /\ \A m \in Messages :
                /\ Append(q, m) \in Seq(Messages)
                /\ Len(Append(q, m)) = Len(q) + 1
                /\ DOMAIN Append(q, m) = 1 .. Len(q) + 1
                /\ \A i \in 1 .. Len(q) : Append(q, m)[i] = q[i]
                /\ Append(q, m)[Len(q) + 1] = m
<1>1. Len(q) \in Nat /\ DOMAIN q = 1 .. Len(q)
  BY LenProperties
<1>2. ASSUME q # <<>>
      PROVE  /\ Head(q) \in Messages /\ Head(q) = q[1] /\ 1 \in DOMAIN q
             /\ Tail(q) \in Seq(Messages)
             /\ Len(Tail(q)) = Len(q) - 1
             /\ DOMAIN Tail(q) = 1 .. Len(q) - 1
             /\ \A i \in 1 .. Len(q) - 1 : Tail(q)[i] = q[i + 1]
  <2>1. /\ Head(q) \in Messages /\ Tail(q) \in Seq(Messages)
        /\ Len(Tail(q)) = Len(q) - 1
        /\ \A i \in 1 .. Len(Tail(q)) : Tail(q)[i] = q[i + 1]
    BY <1>2, HeadTailProperties
  <2>2. 1 \in DOMAIN q
    BY <1>1, <1>2, EmptySeq
  <2> QED
    BY <2>1, <2>2, LenProperties
<1>3. ASSUME NEW m \in Messages
      PROVE  /\ Append(q, m) \in Seq(Messages)
             /\ Len(Append(q, m)) = Len(q) + 1
             /\ DOMAIN Append(q, m) = 1 .. Len(q) + 1
             /\ \A i \in 1 .. Len(q) : Append(q, m)[i] = q[i]
             /\ Append(q, m)[Len(q) + 1] = m
  BY <1>1, <1>3, AppendProperties, LenProperties
<1> QED
  BY <1>1, <1>2, <1>3

\* Before any push nobody holds the lock, and no stream has subscribed.
LEMMA TypeInvInit == Init => TypeInv
<1> SUFFICES ASSUME Init PROVE TypeInv
  OBVIOUS
<1>1. <<>> \in Seq(Messages) /\ Len(<<>>) = 0
  BY EmptySeq
<1> QED
  BY <1>1, BufferSizeAssumption DEF Init, TypeInv, TypeOK, HoldersSend, OwnChannel

\* Every step keeps the types: a buffer is appended to when it is not full only.
LEMMA TypeInvNext == TypeInv /\ [Next]_vars => TypeInv'
<1> SUFFICES ASSUME TypeInv, [Next]_vars PROVE TypeInv'
  OBVIOUS
<1> USE DEF TypeInv, TypeOK, HoldersSend, OwnChannel
<1>1. ASSUME NEW s \in Streams, Subscribe(s)
      PROVE  TypeInv'
  <2>1. CASE subscribers[device[s]] = None
    <3>1. /\ state' = [state EXCEPT ![s] = "open"] /\ state[s] = "idle"
          /\ subscribers' = [subscribers EXCEPT ![device[s]] = s]
          /\ UNCHANGED <<buffer, device, channel, got, todo, message, holding, sent>>
      BY <1>1, <2>1 DEF Subscribe, notifyVars
    <3>2. TypeOK'
      BY <3>1
    <3> QED
      BY <3>1, <3>2
  <2>2. CASE subscribers[device[s]] # None
    BY <1>1, <2>2 DEF Subscribe, notifyVars
  <2> QED
    BY <2>1, <2>2
<1>2. ASSUME NEW s \in Streams, Forward(s)
      PROVE  TypeInv'
  <2> DEFINE q == buffer[channel[s]]
  <2>1. /\ q \in Seq(Messages) /\ q # <<>> /\ Len(q) <= BufferSize
        /\ buffer' = [buffer EXCEPT ![channel[s]] = Tail(q)]
        /\ got' = [got EXCEPT ![s] = Append(got[s], Head(q))]
        /\ UNCHANGED <<subscribers, state, device, channel, todo, message, holding, sent>>
    BY <1>2 DEF Forward, notifyVars
  <2>2. /\ Head(q) \in Messages /\ Tail(q) \in Seq(Messages)
        /\ Len(Tail(q)) <= BufferSize
    <3> HIDE DEF q
    <3> QED
      BY <2>1, BufferFacts, BufferSizeAssumption
  <2>3. Append(got[s], Head(q)) \in Seq(Messages)
    BY <2>2, BufferFacts
  <2> HIDE DEF q
  <2> QED
    BY <2>1, <2>2, <2>3
<1>3. ASSUME NEW s \in Streams, SendFails(s)
      PROVE  TypeInv'
  <2> DEFINE q == buffer[channel[s]]
  <2>1. /\ q \in Seq(Messages) /\ q # <<>> /\ Len(q) <= BufferSize
        /\ buffer' = [buffer EXCEPT ![channel[s]] = Tail(q)]
        /\ state' = [state EXCEPT ![s] = "closing"]
        /\ UNCHANGED <<subscribers, got, device, channel, todo, message, holding, sent>>
    BY <1>3 DEF SendFails, notifyVars
  <2>2. Tail(q) \in Seq(Messages) /\ Len(Tail(q)) <= BufferSize
    <3> HIDE DEF q
    <3> QED
      BY <2>1, BufferFacts, BufferSizeAssumption
  <2> HIDE DEF q
  <2> QED
    BY <2>1, <2>2
<1>4. ASSUME NEW s \in Streams, Cancel(s) \/ Unsubscribe(s)
      PROVE  TypeInv'
  BY <1>4 DEF Cancel, Unsubscribe, notifyVars
<1>5. ASSUME NEW n \in Notifiers, NEW m \in Messages, Begin(n, m)
      PROVE  TypeInv'
  BY <1>5 DEF Begin, streamVars, Registered
<1>6. ASSUME NEW n \in Notifiers, Offer(n)
      PROVE  TypeInv'
  <2>1. PICK ch \in todo[n] :
          /\ buffer' = [buffer EXCEPT ![ch] =
                          IF Len(buffer[ch]) < BufferSize
                            THEN Append(buffer[ch], message[n]) ELSE buffer[ch]]
          /\ todo' = [todo EXCEPT ![n] = todo[n] \ {ch}]
    BY <1>6 DEF Offer
  <2>2. /\ n \in holding /\ ch \in Streams /\ message[n] \in Messages
        /\ UNCHANGED <<subscribers, state, device, channel, got, message, holding, sent>>
    BY <1>6 DEF Offer, streamVars
  <2>3. CASE Len(buffer[ch]) < BufferSize
    <3>1. /\ Append(buffer[ch], message[n]) \in Seq(Messages)
          /\ Len(Append(buffer[ch], message[n])) <= BufferSize
      BY <2>2, <2>3, BufferFacts, BufferSizeAssumption
    <3>2. buffer' = [buffer EXCEPT ![ch] = Append(buffer[ch], message[n])]
      BY <2>1, <2>3
    <3> QED
      BY <2>1, <2>2, <3>1, <3>2
  <2>4. CASE ~ (Len(buffer[ch]) < BufferSize)
    <3>1. buffer' = buffer
      BY <2>1, <2>4
    <3> QED
      BY <2>1, <2>2, <3>1
  <2> QED
    BY <2>3, <2>4
<1>7. ASSUME NEW n \in Notifiers, End(n)
      PROVE  TypeInv'
  BY <1>7 DEF End, streamVars
<1>8. CASE UNCHANGED vars
  BY <1>8 DEF vars, streamVars, notifyVars
<1> QED
  BY <1>1, <1>2, <1>3, <1>4, <1>5, <1>6, <1>7, <1>8 DEF Next, StreamStep

\* Every variable keeps its type; no channel holds more than its buffer.
THEOREM TypeCorrect == Spec => []TypeOK
<1>1. TypeInv => TypeOK
  BY DEF TypeInv
<1> QED
  BY <1>1, TypeInvInit, TypeInvNext, PTL DEF Spec

-----------------------------------------------------------------------------
(* The lock, the map and the channels. *)

\* What a notifier has yet to offer the message to is registered: the map does
\* not change while a notifier holds the read lock.
OfferedRegistered == \A n \in Notifiers : todo[n] \subseteq Registered

\* A channel serves one device: the one it is registered for, and that of every
\* stream that receives from it.
ChannelsOfDevice ==
    /\ \A d \in Devices : subscribers[d] # None => device[subscribers[d]] = d
    /\ \A s \in Streams : device[channel[s]] = device[s]

\* The map of channels, what the notifiers hold of it, and the streams that receive.
MapInv == TypeInv /\ OfferedRegistered /\ ChannelsOfDevice /\ NoAbandonedChannel

\* Every step keeps the map in order: Unsubscribe waits until no notifier reads it.
LEMMA MapInvNext == MapInv /\ [Next]_vars => MapInv'
<1> SUFFICES ASSUME MapInv, [Next]_vars PROVE MapInv'
  OBVIOUS
<1>0. /\ TypeInv /\ TypeInv' /\ OfferedRegistered /\ ChannelsOfDevice /\ NoAbandonedChannel
      /\ subscribers \in [Devices -> Streams \cup {None}]
      /\ state \in [Streams -> {"idle", "open", "closing", "closed"}]
      /\ device \in [Streams -> Devices] /\ channel \in [Streams -> Streams]
      /\ todo \in [Notifiers -> SUBSET Streams]
  BY TypeInvNext DEF MapInv, TypeInv, TypeOK
<1>1. ASSUME NEW s \in Streams, Subscribe(s) \/ Unsubscribe(s)
      PROVE  OfferedRegistered'
  BY <1>0, <1>1 DEF Subscribe, Unsubscribe, WriteLockFree, notifyVars, TypeInv, HoldersSend,
     OfferedRegistered
<1>2. ASSUME NEW s \in Streams, Subscribe(s), subscribers[device[s]] = None
      PROVE  MapInv'
  <2>1. /\ subscribers' = [subscribers EXCEPT ![device[s]] = s]
        /\ channel' = channel /\ device' = device /\ channel[s] = s
        /\ state' = [state EXCEPT ![s] = "open"] /\ state[s] = "idle"
    BY <1>0, <1>2 DEF Subscribe, TypeInv, OwnChannel
  <2>2. ChannelsOfDevice'
    BY <1>0, <2>1 DEF ChannelsOfDevice
  <2>3. NoAbandonedChannel'
    BY <1>0, <2>1 DEF NoAbandonedChannel
  <2> QED
    BY <1>0, <1>1, <1>2, <2>2, <2>3 DEF MapInv
<1>3. ASSUME NEW s \in Streams, Subscribe(s), subscribers[device[s]] # None
      PROVE  MapInv'
  <2>1. /\ channel' = [channel EXCEPT ![s] = subscribers[device[s]]]
        /\ subscribers' = subscribers /\ device' = device
        /\ state' = [state EXCEPT ![s] = "open"] /\ state[s] = "idle"
    BY <1>3 DEF Subscribe
  <2>2. ChannelsOfDevice'
    BY <1>0, <1>3, <2>1 DEF ChannelsOfDevice
  <2>3. NoAbandonedChannel'
    BY <1>0, <2>1 DEF NoAbandonedChannel
  <2> QED
    BY <1>0, <1>1, <1>3, <2>2, <2>3 DEF MapInv
<1>4. ASSUME NEW s \in Streams, Forward(s) \/ SendFails(s) \/ Cancel(s)
      PROVE  MapInv'
  <2>1. /\ subscribers' = subscribers /\ device' = device /\ channel' = channel
        /\ todo' = todo
        /\ state' = state \/ (state[s] = "open" /\ state' = [state EXCEPT ![s] = "closing"])
    BY <1>4 DEF Forward, SendFails, Cancel, notifyVars
  <2>2. OfferedRegistered' /\ ChannelsOfDevice'
    BY <1>0, <2>1 DEF OfferedRegistered, ChannelsOfDevice, Registered
  <2>3. \A o \in Streams :
          state[o] \in {"open", "closing"} => state'[o] \in {"open", "closing"}
    BY <1>0, <2>1
  <2>4. NoAbandonedChannel'
    BY <1>0, <2>1, <2>3 DEF NoAbandonedChannel
  <2> QED
    BY <1>0, <2>2, <2>4 DEF MapInv
<1>5. ASSUME NEW s \in Streams, Unsubscribe(s)
      PROVE  MapInv'
  <2>1. /\ subscribers' = [subscribers EXCEPT ![device[s]] = None]
        /\ device' = device /\ channel' = channel
        /\ state' = [state EXCEPT ![s] = "closed"]
    BY <1>5 DEF Unsubscribe
  <2>2. ChannelsOfDevice'
    BY <1>0, <2>1 DEF ChannelsOfDevice
  <2>3. NoAbandonedChannel'
    <3> SUFFICES ASSUME NEW d \in Devices, subscribers'[d] # None
                 PROVE  \E o \in Streams : /\ device[o] = d
                                           /\ state'[o] \in {"open", "closing"}
                                           /\ channel[o] = subscribers'[d]
      BY <2>1 DEF NoAbandonedChannel
    <3>1. d # device[s] /\ subscribers'[d] = subscribers[d]
      BY <1>0, <2>1
    <3>2. PICK o \in Streams : /\ device[o] = d
                               /\ state[o] \in {"open", "closing"}
                               /\ channel[o] = subscribers[d]
      BY <1>0, <3>1 DEF NoAbandonedChannel
    <3>3. state'[o] = state[o]
      BY <1>0, <2>1, <3>1, <3>2
    <3> QED
      BY <3>1, <3>2, <3>3
  <2> QED
    BY <1>0, <1>1, <1>5, <2>2, <2>3 DEF MapInv
<1>6. ASSUME UNCHANGED <<subscribers, device, channel, state>>
      PROVE  ChannelsOfDevice' /\ NoAbandonedChannel' /\ Registered' = Registered
  BY <1>0, <1>6 DEF ChannelsOfDevice, NoAbandonedChannel, Registered
<1>7. ASSUME NEW n \in Notifiers, NEW m \in Messages, Begin(n, m)
      PROVE  MapInv'
  <2>1. /\ todo' = [todo EXCEPT ![n] = Registered]
        /\ UNCHANGED <<subscribers, device, channel, state>>
    BY <1>7 DEF Begin, streamVars
  <2> QED
    BY <1>0, <1>6, <2>1 DEF MapInv, OfferedRegistered
<1>8. ASSUME NEW n \in Notifiers, Offer(n) \/ End(n)
      PROVE  MapInv'
  <2>1. /\ \A p \in Notifiers : todo'[p] \subseteq todo[p]
        /\ UNCHANGED <<subscribers, device, channel, state>>
    BY <1>0, <1>8 DEF Offer, End, streamVars
  <2> QED
    BY <1>0, <1>6, <2>1 DEF MapInv, OfferedRegistered
<1>9. CASE UNCHANGED vars
  <2>1. todo' = todo /\ UNCHANGED <<subscribers, device, channel, state>>
    BY <1>9 DEF vars, streamVars, notifyVars
  <2> QED
    BY <1>0, <1>6, <2>1 DEF MapInv, OfferedRegistered
<1> QED
  BY <1>2, <1>3, <1>4, <1>5, <1>7, <1>8, <1>9 DEF Next, StreamStep

\* The map is empty at first.
LEMMA MapInvInit == Init => MapInv
<1> SUFFICES ASSUME Init PROVE MapInv
  OBVIOUS
<1>1. TypeInv
  BY TypeInvInit
<1> QED
  BY <1>1 DEF Init, MapInv, OfferedRegistered, ChannelsOfDevice, NoAbandonedChannel

\* A registered channel always has a live stream of its device.
THEOREM NoChannelIsAbandoned == Spec => []NoAbandonedChannel
<1>1. MapInv => NoAbandonedChannel
  BY DEF MapInv
<1> QED
  BY <1>1, MapInvInit, MapInvNext, PTL DEF Spec

\* A notification reaches registered channels only.
THEOREM UnsubscribingStops == Spec => UnsubscribeStops
<1>1. ASSUME MapInv, [Next]_vars
      PROVE  [\A ch \in Streams : Len(buffer'[ch]) > Len(buffer[ch]) => ch \in Registered]_vars
  <2> SUFFICES ASSUME NEW ch \in Streams, Len(buffer'[ch]) > Len(buffer[ch])
               PROVE  ch \in Registered
    OBVIOUS
  <2>0. TypeInv /\ OfferedRegistered /\ Len(buffer[ch]) \in Nat
    <3>1. TypeInv /\ OfferedRegistered
      BY <1>1 DEF MapInv
    <3>2. buffer[ch] \in Seq(Messages)
      BY <3>1 DEF TypeInv, TypeOK
    <3> QED
      BY <3>1, <3>2, BufferFacts
  <2>1. CASE buffer' = buffer
    BY <2>0, <2>1
  <2>2. ASSUME NEW s \in Streams, Forward(s) \/ SendFails(s)
        PROVE  FALSE
    <3>1. /\ buffer[channel[s]] # <<>>
          /\ buffer' = [buffer EXCEPT ![channel[s]] = Tail(buffer[channel[s]])]
          /\ buffer[channel[s]] \in Seq(Messages) /\ buffer \in [Streams -> Seq(Messages)]
      BY <2>0, <2>2 DEF Forward, SendFails, TypeInv, TypeOK
    <3>2. Len(Tail(buffer[channel[s]])) = Len(buffer[channel[s]]) - 1
      BY <3>1, BufferFacts
    <3> QED
      BY <2>0, <3>1, <3>2
  <2>3. ASSUME NEW n \in Notifiers, Offer(n)
        PROVE  ch \in Registered
    <3>1. PICK to \in todo[n] :
            buffer' = [buffer EXCEPT ![to] =
                          IF Len(buffer[to]) < BufferSize
                            THEN Append(buffer[to], message[n]) ELSE buffer[to]]
      BY <2>3 DEF Offer
    <3>2. ch = to
      BY <2>0, <3>1 DEF TypeInv, TypeOK
    <3> QED
      BY <2>0, <3>2 DEF OfferedRegistered
  <2> QED
    BY <1>1, <2>1, <2>2, <2>3 DEF Next, StreamStep, Subscribe, Cancel, Unsubscribe,
       Begin, End, vars
<1> QED
  BY <1>1, MapInvInit, MapInvNext, PTL DEF Spec, UnsubscribeStops

\* An open stream stays registered until another stream of its device ends.
THEOREM LiveStreamsStayRegistered == Spec => LiveStreamRegistered
<1> DEFINE Stays ==
             \A s \in Streams :
                /\ state'[s] = "open"
                /\ state[s] = "idle" \/ subscribers[device[s]] = channel[s]
                => \/ subscribers'[device[s]] = channel'[s]
                   \/ \E o \in Streams \ {s} : /\ device[o] = device[s]
                                               /\ state[o] = "closing"
                                               /\ state'[o] = "closed"
<1>1. ASSUME MapInv, [Next]_vars
      PROVE  [Stays]_vars
  <2> SUFFICES ASSUME NEW s \in Streams, state'[s] = "open",
                      state[s] = "idle" \/ subscribers[device[s]] = channel[s]
               PROVE  \/ subscribers'[device[s]] = channel'[s]
                      \/ \E o \in Streams \ {s} : /\ device[o] = device[s]
                                                  /\ state[o] = "closing"
                                                  /\ state'[o] = "closed"
    OBVIOUS
  <2>0. TypeInv /\ channel[s] # None /\ (state[s] = "idle" => channel[s] = s)
    BY <1>1, NoneAssumption DEF MapInv, TypeInv, TypeOK, OwnChannel
  <2>1. CASE Subscribe(s)
    BY <2>0, <2>1 DEF Subscribe, TypeInv, TypeOK
  <2>2. ASSUME NEW o \in Streams, o # s, Subscribe(o)
        PROVE  subscribers'[device[s]] = channel'[s]
    BY <2>0, <2>2 DEF Subscribe, TypeInv, TypeOK
  <2>3. ASSUME NEW o \in Streams, Forward(o) \/ SendFails(o) \/ Cancel(o)
        PROVE  subscribers'[device[s]] = channel'[s]
    BY <2>0, <2>3 DEF Forward, SendFails, Cancel, TypeInv, TypeOK
  <2>4. ASSUME NEW o \in Streams, Unsubscribe(o)
        PROVE  \/ subscribers'[device[s]] = channel'[s]
               \/ /\ o # s /\ device[o] = device[s]
                  /\ state[o] = "closing" /\ state'[o] = "closed"
    BY <2>0, <2>4 DEF Unsubscribe, TypeInv, TypeOK
  <2>5. CASE UNCHANGED <<subscribers, streamVars>>
    BY <2>0, <2>5 DEF streamVars, TypeInv, TypeOK
  <2>6. (\E o \in Streams : StreamStep(o)) \/ UNCHANGED <<subscribers, streamVars>>
    BY <1>1 DEF Next, Begin, Offer, End, vars
  <2> QED
    BY <2>1, <2>2, <2>3, <2>4, <2>5, <2>6 DEF StreamStep
<1> QED
  BY <1>1, MapInvInit, MapInvNext, PTL DEF Spec, LiveStreamRegistered

-----------------------------------------------------------------------------
(* A message is in one place per device. *)

\* Channels and clients hold messages that were sent.
Unsent ==
    \A s \in Streams :
        /\ \A i \in DOMAIN got[s] : got[s][i] \in sent
        /\ \A i \in DOMAIN buffer[s] : buffer[s][i] \in sent

\* Two pushes that notify send different messages.
HoldersDiffer == \A n, p \in holding : message[n] = message[p] => n = p

\* What a notifier has yet to offer to a channel is nowhere with its device.
Fresh ==
    \A n \in holding : \A ch \in todo[n], s \in Streams : device[s] = device[ch] =>
        /\ \A i \in DOMAIN got[s] : got[s][i] # message[n]
        /\ \A i \in DOMAIN buffer[s] : buffer[s][i] # message[n]

\* The places of the streams of one device hold different messages.
Apart ==
    \A s, t \in Streams : device[s] = device[t] =>
        /\ \A i \in DOMAIN got[s], j \in DOMAIN got[t] :
            got[s][i] = got[t][j] => s = t /\ i = j
        /\ \A i \in DOMAIN buffer[s], j \in DOMAIN buffer[t] :
            buffer[s][i] = buffer[t][j] => s = t /\ i = j
        /\ \A i \in DOMAIN got[s], j \in DOMAIN buffer[t] : got[s][i] # buffer[t][j]

\* Where the copies of a message can be, for one device.
CopyInv == MapInv /\ Unsent /\ HoldersDiffer /\ Fresh /\ Apart

\* A stream that takes the head of its channel leaves the rest of it.
LEMMA Taken ==
    ASSUME TypeInv, NEW s \in Streams, Forward(s) \/ SendFails(s)
    PROVE  /\ 1 \in DOMAIN buffer[channel[s]]
           /\ \A t \in Streams : t # channel[s] => buffer'[t] = buffer[t]
           /\ \A i \in DOMAIN buffer'[channel[s]] :
                /\ i \in Nat \ {0} /\ i + 1 \in DOMAIN buffer[channel[s]]
                /\ buffer'[channel[s]][i] = buffer[channel[s]][i + 1]
<1> DEFINE q == buffer[channel[s]]
<1>1. /\ q \in Seq(Messages) /\ q # <<>> /\ buffer' = [buffer EXCEPT ![channel[s]] = Tail(q)]
      /\ channel[s] \in Streams /\ buffer \in [Streams -> Seq(Messages)]
  BY DEF Forward, SendFails, TypeInv, TypeOK
<1>2. /\ Len(q) \in Nat /\ DOMAIN q = 1 .. Len(q) /\ 1 \in DOMAIN q
      /\ DOMAIN Tail(q) = 1 .. Len(q) - 1
      /\ \A i \in 1 .. Len(q) - 1 : Tail(q)[i] = q[i + 1]
  <2> HIDE DEF q
  <2> QED
    BY <1>1, BufferFacts
<1>3. buffer'[channel[s]] = Tail(q) /\ \A t \in Streams : t # channel[s] => buffer'[t] = buffer[t]
  BY <1>1
<1> QED
  BY <1>2, <1>3

\* A forwarded message is the head of the channel, put after what was forwarded.
LEMMA Forwarded ==
    ASSUME TypeInv, NEW s \in Streams, Forward(s)
    PROVE  \A t \in Streams : \A i \in DOMAIN got'[t] :
              \/ i \in DOMAIN got[t] /\ got'[t][i] = got[t][i]
              \/ t = s /\ i = Len(got[s]) + 1 /\ got'[t][i] = buffer[channel[s]][1]
<1>1. /\ buffer[channel[s]] \in Seq(Messages) /\ buffer[channel[s]] # <<>>
      /\ got' = [got EXCEPT ![s] = Append(got[s], Head(buffer[channel[s]]))]
      /\ got \in [Streams -> Seq(Messages)]
  BY DEF Forward, TypeInv, TypeOK
<1>2. PICK h \in Messages : h = Head(buffer[channel[s]]) /\ h = buffer[channel[s]][1]
  BY <1>1, BufferFacts
<1>3. got' = [got EXCEPT ![s] = Append(got[s], h)]
  BY <1>1, <1>2
<1>4. /\ DOMAIN got[s] = 1 .. Len(got[s]) /\ Len(got[s]) \in Nat
      /\ DOMAIN Append(got[s], h) = 1 .. Len(got[s]) + 1
      /\ \A i \in 1 .. Len(got[s]) : Append(got[s], h)[i] = got[s][i]
      /\ Append(got[s], h)[Len(got[s]) + 1] = h
  BY <1>1, BufferFacts
<1>5. got'[s] = Append(got[s], h) /\ \A t \in Streams : t # s => got'[t] = got[t]
  BY <1>1, <1>3
<1> QED
  BY <1>2, <1>4, <1>5

\* An offer puts the message at the end of one channel, or drops it.
LEMMA Offered ==
    ASSUME TypeInv, NEW n \in Notifiers, Offer(n)
    PROVE  \E ch \in todo[n] :
             /\ n \in holding /\ todo' = [todo EXCEPT ![n] = todo[n] \ {ch}]
             /\ \A t \in Streams : \A i \in DOMAIN buffer'[t] :
                  \/ i \in DOMAIN buffer[t] /\ buffer'[t][i] = buffer[t][i]
                  \/ t = ch /\ i = Len(buffer[ch]) + 1 /\ buffer'[t][i] = message[n]
<1>1. PICK ch \in todo[n] :
        /\ buffer' = [buffer EXCEPT ![ch] =
                        IF Len(buffer[ch]) < BufferSize
                          THEN Append(buffer[ch], message[n]) ELSE buffer[ch]]
        /\ todo' = [todo EXCEPT ![n] = todo[n] \ {ch}]
  BY DEF Offer
<1>2. /\ n \in holding /\ ch \in Streams /\ message[n] \in Messages
      /\ buffer \in [Streams -> Seq(Messages)]
  BY DEF Offer, TypeInv, TypeOK, HoldersSend
<1>3. CASE Len(buffer[ch]) < BufferSize
  <2>1. /\ DOMAIN buffer[ch] = 1 .. Len(buffer[ch]) /\ Len(buffer[ch]) \in Nat
        /\ DOMAIN Append(buffer[ch], message[n]) = 1 .. Len(buffer[ch]) + 1
        /\ \A i \in 1 .. Len(buffer[ch]) : Append(buffer[ch], message[n])[i] = buffer[ch][i]
        /\ Append(buffer[ch], message[n])[Len(buffer[ch]) + 1] = message[n]
    BY <1>2, BufferFacts
  <2>2. /\ buffer'[ch] = Append(buffer[ch], message[n])
        /\ \A t \in Streams : t # ch => buffer'[t] = buffer[t]
    BY <1>1, <1>2, <1>3
  <2>3. \A t \in Streams : \A i \in DOMAIN buffer'[t] :
          \/ i \in DOMAIN buffer[t] /\ buffer'[t][i] = buffer[t][i]
          \/ t = ch /\ i = Len(buffer[ch]) + 1 /\ buffer'[t][i] = message[n]
    BY <2>1, <2>2
  <2> QED
    BY <1>1, <1>2, <2>3
<1>4. CASE ~ (Len(buffer[ch]) < BufferSize)
  <2>1. buffer' = buffer
    BY <1>1, <1>2, <1>4
  <2> QED
    BY <1>1, <1>2, <2>1
<1> QED
  BY <1>3, <1>4

\* Every step leaves a device at most one copy of each message, held or to come.
LEMMA CopyInvNext == CopyInv /\ [Next]_vars => CopyInv'
<1> SUFFICES ASSUME CopyInv, [Next]_vars PROVE CopyInv'
  OBVIOUS
<1>0. /\ MapInv /\ MapInv' /\ TypeInv /\ OfferedRegistered /\ ChannelsOfDevice
      /\ Unsent /\ HoldersDiffer /\ Fresh /\ Apart
      /\ \A s \in Streams : channel[s] \in Streams /\ device[channel[s]] = device[s]
      /\ todo \in [Notifiers -> SUBSET Streams] /\ holding \subseteq Notifiers
      /\ message \in [Notifiers -> Messages \cup {None}]
  BY MapInvNext DEF CopyInv, MapInv, TypeInv, TypeOK, ChannelsOfDevice
<1>1. ASSUME NEW s \in Streams, Forward(s) \/ SendFails(s)
      PROVE  CopyInv'
  <2> DEFINE ch == channel[s]
  <2>1. /\ device' = device /\ todo' = todo /\ message' = message
        /\ holding' = holding /\ sent' = sent
    BY <1>1 DEF Forward, SendFails, notifyVars
  <2>2. /\ ch \in Streams /\ device[ch] = device[s] /\ 1 \in DOMAIN buffer[ch]
    BY <1>0, <1>1, Taken
  <2>3. \A t \in Streams : \A i \in DOMAIN buffer'[t] :
          \E j \in DOMAIN buffer[t] : /\ buffer'[t][i] = buffer[t][j]
                                      /\ j = IF t = ch THEN i + 1 ELSE i
                                      /\ t = ch => i \in Nat \ {0}
    BY <1>0, <1>1, Taken
  <2>4. \A t \in Streams : \A i \in DOMAIN got'[t] :
          \/ i \in DOMAIN got[t] /\ got'[t][i] = got[t][i]
          \/ t = s /\ i = Len(got[s]) + 1 /\ got'[t][i] = buffer[ch][1]
    <3>1. CASE Forward(s)
      BY <1>0, <3>1, Forwarded
    <3>2. CASE SendFails(s)
      BY <3>2 DEF SendFails
    <3> QED
      BY <1>1, <3>1, <3>2
  <2> HIDE DEF ch
  <2>5. Unsent'
    BY <1>0, <2>1, <2>2, <2>3, <2>4 DEF Unsent
  <2>6. HoldersDiffer'
    BY <1>0, <2>1 DEF HoldersDiffer
  <2>7. Fresh'
    <3> SUFFICES ASSUME NEW n \in holding, NEW c \in todo[n], NEW t \in Streams,
                        device[t] = device[c]
                 PROVE  /\ \A i \in DOMAIN got'[t] : got'[t][i] # message[n]
                        /\ \A i \in DOMAIN buffer'[t] : buffer'[t][i] # message[n]
      BY <2>1 DEF Fresh
    <3>1. \A i \in DOMAIN buffer'[t] : buffer'[t][i] # message[n]
      BY <1>0, <2>3 DEF Fresh
    <3>2. \A i \in DOMAIN got'[t] : got'[t][i] # message[n]
      BY <1>0, <2>2, <2>4 DEF Fresh
    <3> QED
      BY <3>1, <3>2
  <2>8. Apart'
    <3> SUFFICES ASSUME NEW u \in Streams, NEW t \in Streams, device[u] = device[t]
                 PROVE  /\ \A i \in DOMAIN got'[u], j \in DOMAIN got'[t] :
                            got'[u][i] = got'[t][j] => u = t /\ i = j
                        /\ \A i \in DOMAIN buffer'[u], j \in DOMAIN buffer'[t] :
                            buffer'[u][i] = buffer'[t][j] => u = t /\ i = j
                        /\ \A i \in DOMAIN got'[u], j \in DOMAIN buffer'[t] :
                            got'[u][i] # buffer'[t][j]
      BY <2>1 DEF Apart
    <3>1. ASSUME NEW i \in DOMAIN got'[u], NEW j \in DOMAIN got'[t], got'[u][i] = got'[t][j]
          PROVE  u = t /\ i = j
      <4>1. \A k \in DOMAIN got[u] : got[u][k] # buffer[ch][1] \/ device[u] # device[ch]
        BY <1>0, <2>2 DEF Apart
      <4>2. \A k \in DOMAIN got[t] : got[t][k] # buffer[ch][1] \/ device[t] # device[ch]
        BY <1>0, <2>2 DEF Apart
      <4>3. CASE /\ i \in DOMAIN got[u] /\ got'[u][i] = got[u][i]
                 /\ j \in DOMAIN got[t] /\ got'[t][j] = got[t][j]
        <5>1. got[u][i] = got[t][j]
          BY <3>1, <4>3
        <5> QED
          BY <1>0, <4>3, <5>1 DEF Apart
      <4>4. CASE u = s /\ t = s
        <5>1. \A k \in DOMAIN got[s] : got[s][k] # buffer[ch][1]
          BY <2>2, <4>1, <4>4
        <5> QED
          BY <2>4, <3>1, <4>3, <4>4, <5>1
      <4> QED
        BY <2>2, <2>4, <3>1, <4>1, <4>2, <4>3, <4>4
    <3>2. ASSUME NEW i \in DOMAIN buffer'[u], NEW j \in DOMAIN buffer'[t],
                 buffer'[u][i] = buffer'[t][j]
          PROVE  u = t /\ i = j
      <4>1. PICK k \in DOMAIN buffer[u] : /\ buffer'[u][i] = buffer[u][k]
                                          /\ k = IF u = ch THEN i + 1 ELSE i
                                          /\ u = ch => i \in Nat \ {0}
        BY <2>3
      <4>2. PICK l \in DOMAIN buffer[t] : /\ buffer'[t][j] = buffer[t][l]
                                          /\ l = IF t = ch THEN j + 1 ELSE j
                                          /\ t = ch => j \in Nat \ {0}
        BY <2>3
      <4>3. u = t /\ k = l
        <5>1. buffer[u][k] = buffer[t][l]
          BY <3>2, <4>1, <4>2
        <5> QED
          BY <1>0, <5>1 DEF Apart
      <4> QED
        BY <4>1, <4>2, <4>3
    <3>3. ASSUME NEW i \in DOMAIN got'[u], NEW j \in DOMAIN buffer'[t],
                 got'[u][i] = buffer'[t][j]
          PROVE  FALSE
      <4>1. PICK l \in DOMAIN buffer[t] : /\ buffer'[t][j] = buffer[t][l]
                                          /\ l = IF t = ch THEN j + 1 ELSE j
                                          /\ t = ch => j \in Nat \ {0}
        BY <2>3
      <4>2. CASE i \in DOMAIN got[u] /\ got'[u][i] = got[u][i]
        BY <1>0, <3>3, <4>1, <4>2 DEF Apart
      <4>3. CASE u = s /\ got'[u][i] = buffer[ch][1]
        <5>1. t = ch /\ l = 1
          BY <1>0, <2>2, <3>3, <4>1, <4>3 DEF Apart
        <5> QED
          BY <4>1, <5>1
      <4> QED
        BY <2>4, <4>2, <4>3
    <3> QED
      BY <3>1, <3>2, <3>3
  <2> QED
    BY <1>0, <2>5, <2>6, <2>7, <2>8 DEF CopyInv
<1>2. ASSUME NEW n \in Notifiers, Offer(n)
      PROVE  CopyInv'
  <2>1. /\ device' = device /\ got' = got /\ message' = message
        /\ holding' = holding /\ sent' = sent
    BY <1>2 DEF Offer, streamVars
  <2>2. PICK ch \in todo[n] :
          /\ n \in holding /\ todo' = [todo EXCEPT ![n] = todo[n] \ {ch}]
          /\ \A t \in Streams : \A i \in DOMAIN buffer'[t] :
               \/ i \in DOMAIN buffer[t] /\ buffer'[t][i] = buffer[t][i]
               \/ t = ch /\ i = Len(buffer[ch]) + 1 /\ buffer'[t][i] = message[n]
    BY <1>0, <1>2, Offered
  <2>3. ch \in Streams /\ message[n] \in sent
    BY <1>0, <2>2 DEF TypeInv, HoldersSend
  <2>4. Unsent'
    BY <1>0, <2>1, <2>2, <2>3 DEF Unsent
  <2>5. HoldersDiffer'
    BY <1>0, <2>1 DEF HoldersDiffer
  <2>6. Fresh'
    <3> SUFFICES ASSUME NEW p \in holding, NEW c \in todo'[p], NEW t \in Streams,
                        device[t] = device[c]
                 PROVE  /\ \A i \in DOMAIN got[t] : got[t][i] # message[p]
                        /\ \A i \in DOMAIN buffer'[t] : buffer'[t][i] # message[p]
      BY <2>1 DEF Fresh
    <3>1. p \in Notifiers /\ c \in todo[p] /\ c \in Streams /\ (p = n => c # ch)
      BY <1>0, <2>2
    <3>2. \A i \in DOMAIN got[t] : got[t][i] # message[p]
      BY <1>0, <3>1 DEF Fresh
    <3>3. ASSUME t = ch
          PROVE  message[n] # message[p]
      <4>1. c \in Registered /\ ch \in Registered
        BY <1>0, <3>1, <2>2 DEF OfferedRegistered
      <4>2. c = ch
        BY <1>0, <3>3, <4>1 DEF Registered, ChannelsOfDevice
      <4> QED
        BY <1>0, <2>2, <3>1, <4>2 DEF HoldersDiffer
    <3>4. \A i \in DOMAIN buffer'[t] : buffer'[t][i] # message[p]
      BY <1>0, <2>2, <3>1, <3>3 DEF Fresh
    <3> QED
      BY <3>2, <3>4
  <2>7. Apart'
    <3> SUFFICES ASSUME NEW u \in Streams, NEW t \in Streams, device[u] = device[t]
                 PROVE  /\ \A i \in DOMAIN buffer'[u], j \in DOMAIN buffer'[t] :
                            buffer'[u][i] = buffer'[t][j] => u = t /\ i = j
                        /\ \A i \in DOMAIN got[u], j \in DOMAIN buffer'[t] :
                            got[u][i] # buffer'[t][j]
      BY <1>0, <2>1 DEF Apart
    <3>1. ASSUME NEW i \in DOMAIN buffer'[u], NEW j \in DOMAIN buffer'[t],
                 buffer'[u][i] = buffer'[t][j]
          PROVE  u = t /\ i = j
      <4>1. \A v \in Streams : device[v] = device[ch] =>
              \A k \in DOMAIN buffer[v] : buffer[v][k] # message[n]
        BY <1>0, <2>2 DEF Fresh
      <4>2. CASE /\ i \in DOMAIN buffer[u] /\ buffer'[u][i] = buffer[u][i]
                 /\ j \in DOMAIN buffer[t] /\ buffer'[t][j] = buffer[t][j]
        <5>1. buffer[u][i] = buffer[t][j]
          BY <3>1, <4>2
        <5> QED
          BY <1>0, <4>2, <5>1 DEF Apart
      <4>3. CASE u = ch /\ t = ch
        <5>1. \A k \in DOMAIN buffer[ch] : buffer[ch][k] # message[n]
          BY <2>3, <4>1
        <5> QED
          BY <2>2, <3>1, <4>2, <4>3, <5>1
      <4> QED
        BY <2>2, <3>1, <4>1, <4>2, <4>3
    <3>2. ASSUME NEW i \in DOMAIN got[u], NEW j \in DOMAIN buffer'[t]
          PROVE  got[u][i] # buffer'[t][j]
      BY <1>0, <2>2, <2>3, <3>2 DEF Apart, Fresh
    <3> QED
      BY <3>1, <3>2
  <2> QED
    BY <1>0, <2>4, <2>5, <2>6, <2>7 DEF CopyInv
<1>3. ASSUME NEW n \in Notifiers, NEW m \in Messages, m \notin sent, Begin(n, m)
      PROVE  CopyInv'
  <2>1. /\ n \notin holding /\ holding' = holding \cup {n}
        /\ message' = [message EXCEPT ![n] = m]
        /\ todo' = [todo EXCEPT ![n] = Registered]
        /\ sent' = sent \cup {m}
        /\ device' = device /\ got' = got /\ buffer' = buffer
    BY <1>3 DEF Begin, streamVars
  <2>2. \A p \in holding : message[p] \in sent /\ p # n
    BY <1>0, <2>1 DEF TypeInv, HoldersSend
  <2>3. Unsent' /\ Apart'
    BY <1>0, <2>1 DEF Unsent, Apart
  <2>4. HoldersDiffer'
    BY <1>0, <1>3, <2>1, <2>2 DEF HoldersDiffer
  <2>5. Fresh'
    <3> SUFFICES ASSUME NEW p \in holding', NEW c \in todo'[p], NEW t \in Streams,
                        device[t] = device[c]
                 PROVE  /\ \A i \in DOMAIN got[t] : got[t][i] # message'[p]
                        /\ \A i \in DOMAIN buffer[t] : buffer[t][i] # message'[p]
      BY <2>1 DEF Fresh
    <3>1. CASE p = n
      <4>1. message'[p] = m
        BY <1>0, <2>1, <3>1
      <4> QED
        BY <1>0, <1>3, <4>1 DEF Unsent
    <3>2. CASE p \in holding
      <4>1. message'[p] = message[p] /\ c \in todo[p]
        BY <1>0, <2>1, <2>2, <3>2
      <4> QED
        BY <1>0, <3>2, <4>1 DEF Fresh
    <3> QED
      BY <2>1, <3>1, <3>2
  <2> QED
    BY <1>0, <2>3, <2>4, <2>5 DEF CopyInv
<1>4. ASSUME NEW n \in Notifiers, End(n)
      PROVE  CopyInv'
  <2>1. /\ holding' = holding \ {n} /\ message' = [message EXCEPT ![n] = None]
        /\ todo' = todo /\ sent' = sent
        /\ device' = device /\ got' = got /\ buffer' = buffer
    BY <1>4 DEF End, streamVars
  <2>2. \A p \in holding' : p \in holding /\ message'[p] = message[p]
    BY <1>0, <2>1
  <2> QED
    BY <1>0, <2>1, <2>2 DEF CopyInv, Unsent, HoldersDiffer, Fresh, Apart
<1>5. ASSUME UNCHANGED <<buffer, device, got, notifyVars>>
      PROVE  CopyInv'
  BY <1>0, <1>5 DEF notifyVars, CopyInv, Unsent, HoldersDiffer, Fresh, Apart
<1>6. ASSUME NEW s \in Streams, Subscribe(s) \/ Cancel(s) \/ Unsubscribe(s)
      PROVE  UNCHANGED <<buffer, device, got, notifyVars>>
  BY <1>6 DEF Subscribe, Cancel, Unsubscribe
<1>7. CASE UNCHANGED vars
  BY <1>5, <1>7 DEF vars, streamVars
<1> QED
  BY <1>1, <1>2, <1>3, <1>4, <1>5, <1>6, <1>7 DEF Next, StreamStep

\* There is no message at first.
LEMMA CopyInvInit == Init => CopyInv
<1> SUFFICES ASSUME Init PROVE CopyInv
  OBVIOUS
<1>1. MapInv /\ \A s \in Streams : DOMAIN got[s] = {} /\ DOMAIN buffer[s] = {}
  BY MapInvInit DEF Init
<1> QED
  BY <1>1 DEF Init, CopyInv, Unsent, HoldersDiffer, Fresh, Apart

\* A device is sent a notification at most once, over all its streams and what
\* their channels still hold.
THEOREM NoNotificationTwice == Spec => []AtMostOnce
<1>1. CopyInv => AtMostOnce
  <2> SUFFICES ASSUME CopyInv, NEW d \in Devices, NEW m \in Messages
               PROVE  Cardinality(Copies(d, m)) <= 1
    BY DEF AtMostOnce
  <2>1. \A x, y \in Copies(d, m) : x = y
    BY DEF CopyInv, Apart, Copies
  <2>2. CASE Copies(d, m) = {}
    BY <2>2, FS_EmptySet
  <2>3. ASSUME NEW x \in Copies(d, m)
        PROVE  Cardinality(Copies(d, m)) <= 1
    <3>1. Copies(d, m) = {x}
      BY <2>1
    <3>2. Cardinality({x}) = 1
      BY FS_Singleton
    <3> QED
      BY <3>1, <3>2
  <2> QED
    BY <2>2, <2>3
<1> QED
  BY <1>1, CopyInvInit, CopyInvNext, PTL DEF Spec
=============================================================================
