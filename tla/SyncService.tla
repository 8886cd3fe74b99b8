---------------------------- MODULE SyncService ----------------------------
(***************************************************************************)
(* The sync service of EchoVault: src/internal/service/sync and the gRPC   *)
(* handlers in src/internal/grpc/handler_sync.go.                          *)
(*                                                                         *)
(* Devices push batches of changes and pull the changes of the others.     *)
(* The sync_logs table orders them: PushChanges reads the latest version   *)
(* of every entity in the batch, leaves out the changes it judges stale,   *)
(* and for every other change reads the next version number and inserts a  *)
(* row.  Every query and every insert is a statement of its own: nothing   *)
(* holds two of them together, and the version column is not unique.       *)
(* gRPC runs each call in a goroutine of its own, so the statements of     *)
(* concurrent pushes interleave.                                           *)
(*                                                                         *)
(* A call is a one-shot process.  A device is the puller the service sees: *)
(* the version it will pass as since_version, and what it was sent.        *)
(***************************************************************************)
EXTENDS Integers, SequencesExt

CONSTANTS
    Calls,        \* PushChanges calls
    Devices,      \* devices that pull and acknowledge
    EntityTypes,  \* SyncChange.entity_type
    EntityIds,    \* SyncChange.entity_id
    Actions,      \* SyncChange.action: numbers of the proto enum
    MaxBatch,     \* bound: changes in one push
    PageSize,     \* defaultPullBatchSize
    Concurrent,   \* FALSE: a push is sent only when no other is in flight
    Faults,       \* what may go wrong: "read", "write", "crash"
    MaxFaults     \* bound: faults in one behaviour

ASSUME ActionsAssumption == Actions \subseteq 0 .. 3
ASSUME MaxBatchAssumption == MaxBatch \in Nat
ASSUME PageSizeAssumption == PageSize \in Nat \ {0}
ASSUME ConcurrentAssumption == Concurrent \in BOOLEAN
ASSUME FaultsAssumption == Faults \subseteq {"read", "write", "crash"}
ASSUME MaxFaultsAssumption == MaxFaults \in Nat

VARIABLES
    log,        \* the sync_logs table, rows in the order of their inserts
    acked,      \* the rows whose acked column is set
    pc,         \* where each call is in PushChanges
    batch,      \* the changes of each call, in order
    root,       \* the call whose batch this one sends (again)
    pos,        \* the change the call is working on
    conflicts,  \* the conflicts Resolve found: position and server version
    ver,        \* v, the version read for the change being appended
    accepted,   \* the number of changes logged
    answer,     \* PushResponse.ServerVersion
    faults,     \* the faults so far, by kind
    cursor,     \* the since_version each device will pull with next
    seen        \* the rows each device was sent

callVars == <<pc, batch, root, pos, conflicts, ver, accepted, answer>>
deviceVars == <<cursor, seen>>
vars == <<log, acked, callVars, faults, deviceVars>>

Running == {"resolve", "apply", "append", "notify", "respond"}
Ended == {"done", "failed"}

\* What SyncChange_Action.String() makes of the enum, which Append stores.
ActionName == [a \in 0 .. 3 |->
    CASE a = 0 -> "ACTION_UNSPECIFIED" [] a = 1 -> "ACTION_CREATE"
      [] a = 2 -> "ACTION_UPDATE"      [] a = 3 -> "ACTION_DELETE"]

StoredActions == {ActionName[a] : a \in Actions}

\* What a pull makes of the stored action.
ActionToProto(name) ==
    CASE name = "create" -> 1 [] name = "update" -> 2
      [] name = "delete" -> 3 [] OTHER -> 0

Change == [etype : EntityTypes, eid : EntityIds, action : Actions, base : Nat]
Row == [etype : EntityTypes, eid : EntityIds, action : StoredActions,
        version : Nat \ {0}, call : Calls, at : Nat \ {0}]
Conflict == [at : Nat \ {0}, server : Nat \ {0}]

-----------------------------------------------------------------------------
(* Queries on the table. *)

Versions == {log[i].version : i \in DOMAIN log}

RowsOf(etype, eid) == {i \in DOMAIN log : log[i].etype = etype /\ log[i].eid = eid}

\* Mutant: GetByEntity orders by ascending version.
LatestVersionAscending(etype, eid) ==
    LET vs == {log[i].version : i \in RowsOf(etype, eid)}
    IN  IF vs = {} THEN 0 ELSE Min(vs)

\* The version of the row GetByEntity returns, 0 when there is none.
LatestVersion(etype, eid) == Max({0} \cup {log[i].version : i \in RowsOf(etype, eid)})

Current == Max({0} \cup Versions)

\* Mutants: Next is incremented only from 0; by the count.
NextFreeFirst == Max({1} \cup Versions)
NextFreeByCount == Len(log) + 1

\* VersionTracker.Next: one more than the greatest version in the table.
NextFree == Current + 1

\* Mutant: QuerySince leaves out the version after v.
RowsAfterNext(v) == {i \in DOMAIN log : log[i].version > v + 1}

RowsAfter(v) == {i \in DOMAIN log : log[i].version > v}

\* Mutant: QuerySince without its Order.
PagesUnordered(v) == {S \in SUBSET RowsAfter(v) : Cardinality(S) <= PageSize}

\* What a stream of QuerySince(v) may deliver before it ends or breaks: at most
\* a page, lowest versions first, rows of one version in any order.
Pages(v) ==
    {S \in SUBSET RowsAfter(v) :
        /\ Cardinality(S) <= PageSize
        /\ \A i \in S, j \in RowsAfter(v) \ S : log[i].version <= log[j].version}

-----------------------------------------------------------------------------
(* PushChanges. *)

TypeOK ==
    /\ log \in Seq(Row)
    /\ acked \subseteq DOMAIN log
    /\ pc \in [Calls -> {"idle"} \cup Running \cup Ended]
    /\ batch \in [Calls -> Seq(Change)]
    /\ root \in [Calls -> Calls]
    /\ pos \in [Calls -> Nat \ {0}]
    /\ conflicts \in [Calls -> SUBSET Conflict]
    /\ ver \in [Calls -> Nat]
    /\ accepted \in [Calls -> Nat]
    /\ answer \in [Calls -> Nat]
    /\ faults \in Seq(Faults)
    /\ cursor \in [Devices -> Nat]
    /\ seen \in [Devices -> SUBSET DOMAIN log]

Init ==
    /\ log = <<>>
    /\ acked = {}
    /\ pc = [c \in Calls |-> "idle"]
    /\ batch = [c \in Calls |-> <<>>]
    /\ root = [c \in Calls |-> c]
    /\ pos = [c \in Calls |-> 1]
    /\ conflicts = [c \in Calls |-> {}]
    /\ ver = [c \in Calls |-> 0]
    /\ accepted = [c \in Calls |-> 0]
    /\ answer = [c \in Calls |-> 0]
    /\ faults = <<>>
    /\ cursor = [d \in Devices |-> 0]
    /\ seen = [d \in Devices |-> {}]

Fault(kind) ==
    /\ kind \in Faults
    /\ Len(faults) < MaxFaults
    /\ faults' = Append(faults, kind)

MayStart(c) ==
    /\ pc[c] = "idle"
    /\ Concurrent \/ \A o \in Calls : pc[o] \notin Running

\* An empty batch is answered at once.
FirstStep(b) == IF b = <<>> THEN "respond" ELSE "resolve"

\* A device sends a batch; the base of a change is a version it has learned.
Arrive(c) ==
    /\ MayStart(c)
    /\ \E b \in SeqOf([etype : EntityTypes, eid : EntityIds, action : Actions,
                       base : {0} \cup Versions], MaxBatch) :
        /\ batch' = [batch EXCEPT ![c] = b]
        /\ pc' = [pc EXCEPT ![c] = FirstStep(b)]
    /\ UNCHANGED <<log, acked, root, pos, conflicts, ver, accepted, answer,
                   faults, deviceVars>>

\* The batch of a call that ended, answered or not, is sent again unchanged; the
\* device that sends it has no other attempt at this batch in flight.
Retry(c, o) ==
    /\ MayStart(c)
    /\ pc[o] \in Ended
    /\ \A p \in Calls : root[p] = root[o] => pc[p] \notin Running
    /\ batch[o] # <<>>
    /\ batch' = [batch EXCEPT ![c] = batch[o]]
    /\ root' = [root EXCEPT ![c] = root[o]]
    /\ pc' = [pc EXCEPT ![c] = "resolve"]
    /\ UNCHANGED <<log, acked, pos, conflicts, ver, accepted, answer, faults,
                   deviceVars>>

\* The loops over the batch: the next change, or what comes after the last.
\* Resolve goes over the whole batch before the first change is applied.
NextInBatch(c, again, after) ==
    IF pos[c] = Len(batch[c])
      THEN /\ pc' = [pc EXCEPT ![c] = after]
           /\ pos' = [pos EXCEPT ![c] = 1]
      ELSE /\ pc' = [pc EXCEPT ![c] = again]
           /\ pos' = [pos EXCEPT ![c] = @ + 1]

\* Mutants: a change based on the server's version is a conflict; a change that
\* was never synced is not.
JudgeNotStrict(c, sv) ==
    conflicts' = [conflicts EXCEPT ![c] =
        IF sv > 0 /\ batch[c][pos[c]].base <= sv
          THEN @ \cup {[at |-> pos[c], server |-> sv]}
          ELSE @]

JudgeOnlySynced(c, sv) ==
    conflicts' = [conflicts EXCEPT ![c] =
        IF batch[c][pos[c]].base > 0 /\ batch[c][pos[c]].base < sv
          THEN @ \cup {[at |-> pos[c], server |-> sv]}
          ELSE @]

\* A change based on less than the server's version sv is a conflict.
Judge(c, sv) ==
    conflicts' = [conflicts EXCEPT ![c] =
        IF sv > 0 /\ batch[c][pos[c]].base < sv
          THEN @ \cup {[at |-> pos[c], server |-> sv]}
          ELSE @]

Resolve(c) ==
    /\ pc[c] = "resolve"
    /\ Judge(c, LatestVersion(batch[c][pos[c]].etype, batch[c][pos[c]].eid))
    /\ NextInBatch(c, "resolve", "apply")
    /\ UNCHANGED <<log, acked, batch, root, ver, accepted, answer, faults,
                   deviceVars>>

\* getVersion answers 0 when its query fails.
ResolveBlind(c) ==
    /\ pc[c] = "resolve"
    /\ Fault("read")
    /\ Judge(c, 0)
    /\ NextInBatch(c, "resolve", "apply")
    /\ UNCHANGED <<log, acked, batch, root, ver, accepted, answer, deviceVars>>

\* Mutant: any conflict skips the change.
ShouldSkipAll(c) == conflicts[c] # {}

\* shouldSkip: any conflict on the same entity_id, whatever its entity_type.
ShouldSkip(c) ==
    \E k \in conflicts[c] : batch[c][k.at].eid = batch[c][pos[c]].eid

Skip(c) ==
    /\ pc[c] = "apply"
    /\ ShouldSkip(c)
    /\ NextInBatch(c, "apply", "respond")
    /\ UNCHANGED <<log, acked, batch, root, conflicts, ver, accepted, answer,
                   faults, deviceVars>>

NextVersion(c) ==
    /\ pc[c] = "apply"
    /\ ~ ShouldSkip(c)
    /\ ver' = [ver EXCEPT ![c] = NextFree]
    /\ pc' = [pc EXCEPT ![c] = "append"]
    /\ UNCHANGED <<log, acked, batch, root, pos, conflicts, accepted, answer,
                   faults, deviceVars>>

\* VersionTracker.Next answers 1 when its query fails.
NextVersionBlind(c) ==
    /\ pc[c] = "apply"
    /\ ~ ShouldSkip(c)
    /\ Fault("read")
    /\ ver' = [ver EXCEPT ![c] = 1]
    /\ pc' = [pc EXCEPT ![c] = "append"]
    /\ UNCHANGED <<log, acked, batch, root, pos, conflicts, accepted, answer,
                   deviceVars>>

NewRow(c) ==
    LET ch == batch[c][pos[c]]
    IN  [etype |-> ch.etype, eid |-> ch.eid, action |-> ActionName[ch.action],
         version |-> ver[c], call |-> c, at |-> pos[c]]

AppendChange(c) ==
    /\ pc[c] = "append"
    /\ log' = Append(log, NewRow(c))
    /\ accepted' = [accepted EXCEPT ![c] = @ + 1]
    /\ pc' = [pc EXCEPT ![c] = "notify"]
    /\ UNCHANGED <<acked, batch, root, pos, conflicts, ver, answer, faults,
                   deviceVars>>

\* The insert fails: the call returns an error, what it logged stays.
AppendFails(c) ==
    /\ pc[c] = "append"
    /\ Fault("write")
    /\ pc' = [pc EXCEPT ![c] = "failed"]
    /\ UNCHANGED <<log, acked, batch, root, pos, conflicts, ver, accepted, answer,
                   deviceVars>>

\* Notify never waits for a subscriber: module Notifier models what it sends.
Notify(c) ==
    /\ pc[c] = "notify"
    /\ NextInBatch(c, "apply", "respond")
    /\ UNCHANGED <<log, acked, batch, root, conflicts, ver, accepted, answer,
                   faults, deviceVars>>

Respond(c) ==
    /\ pc[c] = "respond"
    /\ answer' = [answer EXCEPT ![c] = Current]
    /\ pc' = [pc EXCEPT ![c] = "done"]
    /\ UNCHANGED <<log, acked, batch, root, pos, conflicts, ver, accepted, faults,
                   deviceVars>>

\* VersionTracker.Current answers 0 when its query fails.
RespondBlind(c) ==
    /\ pc[c] = "respond"
    /\ Fault("read")
    /\ answer' = [answer EXCEPT ![c] = 0]
    /\ pc' = [pc EXCEPT ![c] = "done"]
    /\ UNCHANGED <<log, acked, batch, root, pos, conflicts, ver, accepted,
                   deviceVars>>

\* The process dies and is started again: only the table survives.
Crash ==
    /\ Fault("crash")
    /\ pc' = [c \in Calls |-> IF pc[c] \in Running THEN "failed" ELSE pc[c]]
    /\ UNCHANGED <<log, acked, batch, root, pos, conflicts, ver, accepted, answer,
                   deviceVars>>

-----------------------------------------------------------------------------
(* PullChanges and AckChanges. *)

\* A device pulls from its cursor, which moves to the last version it was sent.
Pull(d) ==
    /\ \E S \in Pages(cursor[d]) :
        /\ seen' = [seen EXCEPT ![d] = @ \cup S]
        /\ cursor' = [cursor EXCEPT ![d] = Max({@} \cup {log[i].version : i \in S})]
    /\ UNCHANGED <<log, acked, callVars, faults>>

\* Mutant: Ack compares with = instead of <=.
AckOne(v) ==
    /\ acked' = acked \cup {i \in DOMAIN log : log[i].version = v}
    /\ UNCHANGED <<log, callVars, faults, deviceVars>>

\* Ack marks the rows of every device up to the version the request names, which
\* nothing compares with what the device was sent; its device_id is not read.
Ack(v) ==
    /\ acked' = acked \cup {i \in DOMAIN log : log[i].version <= v}
    /\ UNCHANGED <<log, callVars, faults, deviceVars>>

-----------------------------------------------------------------------------
(* The specification. *)

\* The statements PushChanges executes once a call has arrived.
Step(c) ==
    \/ Resolve(c) \/ ResolveBlind(c) \/ Skip(c)
    \/ NextVersion(c) \/ NextVersionBlind(c)
    \/ AppendChange(c) \/ AppendFails(c)
    \/ Notify(c)
    \/ Respond(c) \/ RespondBlind(c)

Next ==
    \/ \E c \in Calls : Arrive(c) \/ Step(c)
    \/ \E c, o \in Calls : Retry(c, o)
    \/ Crash
    \/ \E d \in Devices : Pull(d)
    \/ \E v \in Versions : Ack(v)  \* any other number marks what one of them does

Spec == Init /\ [][Next]_vars

\* A call that has arrived runs to its end; a device that is behind pulls again
\* and again, and is sent something.
Fairness ==
    /\ \A c \in Calls : WF_vars(Step(c))
    /\ \A d \in Devices : WF_vars(Pull(d) /\ seen' # seen)

FairSpec == Spec /\ Fairness

-----------------------------------------------------------------------------
(* What holds however the statements of the calls interleave. *)

\* The versions in use are 1, 2, ... without a hole, and each was in use before
\* the next one was: a device whose cursor is v has been past every number up
\* to v (VersionTracker.Next and ChangeLogger.Append).
NoVersionGaps ==
    \A i \in DOMAIN log : \A v \in 1 .. log[i].version - 1 :
        \E j \in 1 .. i - 1 : log[j].version = v

\* A reported conflict names a row that another call wrote for that entity and
\* that the change was not based on; the change itself is not logged.  A batch
\* never conflicts with itself (Resolve runs before the first Append).
ConflictsGenuine ==
    \A c \in Calls : \A k \in conflicts[c] :
        LET ch == batch[c][k.at]
        IN  /\ k.at \in DOMAIN batch[c]
            /\ k.server > ch.base
            /\ \E i \in RowsOf(ch.etype, ch.eid) :
                log[i].version = k.server /\ log[i].call # c
            /\ \A i \in DOMAIN log : ~ (log[i].call = c /\ log[i].at = k.at)

\* No query failed so far: one that fails is taken for an empty answer.
QueriesWorked == ~ Contains(faults, "read")

\* The changes of one push get increasing versions in the order of the batch,
\* whatever other calls insert between them (VersionTracker.Next, Append).
OwnChangesOrdered ==
    QueriesWorked =>
        \A i, j \in DOMAIN log : i < j /\ log[i].call = log[j].call =>
            log[i].at < log[j].at /\ log[i].version < log[j].version

\* Sending a batch again after its call failed, or after its answer was lost,
\* logs no change a second time: the first row is a conflict for the second
\* (Resolve).
LoggedOnce ==
    QueriesWorked =>
        \A i, j \in DOMAIN log :
            root[log[i].call] = root[log[j].call] /\ log[i].at = log[j].at => i = j

\* A batch in which no entity_id occurs twice is answered in full: every change
\* was logged and counted, or is reported as a conflict.
Answered(c) == accepted[c] + Cardinality(conflicts[c]) = Len(batch[c])

DistinctBatchesAnswered ==
    \A c \in Calls : pc[c] = "done" =>
        \/ Answered(c)
        \/ \E m, n \in DOMAIN batch[c] : m # n /\ batch[c][m].eid = batch[c][n].eid

\* A device is sent a change of every version its cursor passes.  The change that a
\* slower push logs behind the cursor, and that the device is never sent, always
\* has the version of one that it was sent (NextFree, QuerySince).
NoVersionSkipped ==
    \A d \in Devices : \A v \in 1 .. cursor[d] : \E i \in seen[d] : log[i].version = v

-----------------------------------------------------------------------------
(* What holds when pushes come one at a time. *)

\* The version is the number of the row: unique, and increasing with the
\* inserts, as the field's comment in the proto file has it.
DenseVersions == \A i \in DOMAIN log : log[i].version = i

\* A device has been sent every change its cursor has passed: pulling from the
\* cursor skips nothing (PullChanges, QuerySince).
NoLostChange ==
    \A d \in Devices, i \in DOMAIN log : log[i].version <= cursor[d] => i \in seen[d]

\* A change that is logged over another call's change was based on it: no update
\* is overwritten by a device that had not learned of it (Resolve).
NoLostUpdate ==
    \A i, j \in DOMAIN log :
        /\ i < j
        /\ log[i].etype = log[j].etype /\ log[i].eid = log[j].eid
        /\ log[i].call # log[j].call
        => log[i].version <= batch[log[j].call][log[j].at].base

\* The acked rows are the first rows of the table, whatever versions the acks name
\* and whatever is logged between them: no push logs a change behind an ack, where
\* nobody would acknowledge it again (AckChanges, VersionTracker.Next).
AcksReachBack == \A i \in acked : 1 .. i \subseteq acked

\* Every change that is logged, up to the last row all the pushes can log, reaches
\* every device that keeps pulling, page after page.
EveryChangeArrives ==
    \A d \in Devices, i \in 1 .. MaxBatch * Cardinality(Calls) :
        i \in DOMAIN log ~> i \in seen[d]

\* What the service promises: one feed of changes that every device reads from
\* the start, in order, without a hole.
Feed == INSTANCE ChangeFeed WITH
    Changes <- [etype : EntityTypes, eid : EntityIds, action : StoredActions],
    feed <- [i \in DOMAIN log |-> [etype |-> log[i].etype, eid |-> log[i].eid,
                                   action |-> log[i].action]],
    received <- seen

FeedSpec == Feed!Spec

=============================================================================
