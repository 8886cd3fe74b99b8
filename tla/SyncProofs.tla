----------------------------- MODULE SyncProofs -----------------------------
(***************************************************************************)
(* Theorems about SyncService, for every value of its constants, and about *)
(* SyncServer, which composes it with Notifier.  The server's own theorems *)
(* come last; the others speak of Spec, the sync service.                  *)
(***************************************************************************)
EXTENDS SyncServer, SequenceTheorems, FiniteSetTheorems, WellFoundedInduction, TLAPS

-----------------------------------------------------------------------------
(* Maxima. *)

\* A nonempty set of naturals with a bound has a greatest element, and Max is it.
LEMMA MaxOfBounded ==
    ASSUME NEW S \in SUBSET Nat, S # {},
           NEW b \in Nat, \A x \in S : x <= b
    PROVE  /\ Max(S) \in S
           /\ \A x \in S : x <= Max(S)
<1> DEFINE Below == {b - x : x \in S}
           Less == OpToRel(<, Nat)
<1>1. Below \subseteq Nat /\ Below # {}
  <2>1. \A x \in S : b - x \in Nat
    OBVIOUS
  <2>2. PICK x \in S : TRUE
    OBVIOUS
  <2>3. b - x \in Below
    OBVIOUS
  <2> QED
    BY <2>1, <2>3
<1>2. IsWellFoundedOn(Less, Nat)
  BY NatLessThanWellFounded
<1>3. \A m, n \in Nat : m < n => <<m, n>> \in Less
  BY DEF OpToRel
<1>4. PICK y \in Below : \A z \in Below : y <= z
  <2> HIDE DEF Below, Less
  <2>1. PICK y \in Below : \A z \in Below : ~ (<<z, y>> \in Less)
    BY <1>1, <1>2, WFMin
  <2>2. ASSUME NEW z \in Below
        PROVE  y <= z
    <3>1. y \in Nat /\ z \in Nat
      BY <1>1
    <3>2. ~ (z < y)
      BY <1>3, <2>1, <3>1, Zenon
    <3> QED
      BY <3>1, <3>2
  <2> QED
    BY <2>2
<1>5. PICK m \in S : y = b - m
  OBVIOUS
<1>6. \A x \in S : m >= x
  BY <1>4, <1>5
<1> QED
  BY <1>6 DEF Max

-----------------------------------------------------------------------------
(* The inductive invariant behind type correctness. *)

\* A call that works on a change is inside its batch; a loop starts at 1.
InBatch ==
    \A c \in Calls :
        /\ pc[c] \in {"resolve", "apply", "append", "notify"} =>
            pos[c] \in 1 .. Len(batch[c])
        /\ pc[c] = "idle" => pos[c] = 1

\* No version exceeds the number of rows, so the maxima of the queries exist; the
\* version a call is about to append is one more at most.
VersionsBounded ==
    /\ \A i \in DOMAIN log : log[i].version <= i
    /\ \A c \in Calls : pc[c] = "append" => ver[c] \in 1 .. Len(log) + 1

\* The types, with the bounds on the versions and on the place in the batch.
TypeInv == TypeOK /\ InBatch /\ VersionsBounded

\* What typing says of a row.
LEMMA RowTypes ==
    ASSUME TypeOK
    PROVE  /\ Len(log) \in Nat
           /\ DOMAIN log = 1 .. Len(log)
           /\ \A i \in DOMAIN log : log[i] \in Row /\ log[i].version \in Nat \ {0}
<1>1. log \in Seq(Row)
  BY DEF TypeOK
<1>2. Len(log) \in Nat /\ DOMAIN log = 1 .. Len(log)
  BY <1>1, LenProperties
<1>3. \A i \in DOMAIN log : log[i] \in Row
  BY <1>1, <1>2, ElementOfSeq
<1> QED
  BY <1>2, <1>3 DEF Row

\* The greatest of k and the versions of some rows of the table.
Top(k, S) == Max({k} \cup {log[i].version : i \in S})

\* Top is k or the version of one of the rows, and no row of S is above it.
LEMMA TopOfRows ==
    ASSUME TypeOK, VersionsBounded,
           NEW k \in Nat, NEW S \in SUBSET DOMAIN log
    PROVE  /\ Top(k, S) \in Nat
           /\ k <= Top(k, S)
           /\ \A i \in S : log[i].version <= Top(k, S)
           /\ Top(k, S) = k \/ \E i \in S : log[i].version = Top(k, S)
<1> DEFINE T == {k} \cup {log[i].version : i \in S}
<1>1. \A i \in S : log[i].version \in Nat /\ log[i].version <= Len(log)
  <2> SUFFICES ASSUME NEW i \in S
               PROVE  log[i].version \in Nat /\ log[i].version <= Len(log)
    OBVIOUS
  <2>1. i \in 1 .. Len(log) /\ Len(log) \in Nat /\ log[i].version \in Nat
    BY RowTypes
  <2>2. log[i].version <= i
    BY DEF VersionsBounded
  <2> QED
    BY <2>1, <2>2
<1>2. T \in SUBSET Nat /\ k \in T
  BY <1>1
<1>3. k + Len(log) \in Nat /\ \A x \in T : x <= k + Len(log)
  BY <1>1, RowTypes
<1>4. Max(T) \in T /\ \A x \in T : x <= Max(T)
  <2> HIDE DEF T
  <2> QED
    BY <1>2, <1>3, MaxOfBounded
<1> QED
  BY <1>2, <1>4 DEF Top

\* Current is the greatest version in use, or 0.
LEMMA CurrentIsLatest ==
    ASSUME TypeOK, VersionsBounded
    PROVE  /\ Current \in Nat
           /\ \A i \in DOMAIN log : log[i].version <= Current
           /\ Current = 0 \/ \E i \in DOMAIN log : log[i].version = Current
<1>1. Current = Top(0, DOMAIN log)
  BY DEF Current, Versions, Top
<1> QED
  BY <1>1, TopOfRows

\* LatestVersion is the greatest version of the entity, or 0.
LEMMA LatestVersionIsLatest ==
    ASSUME TypeOK, VersionsBounded, NEW etype, NEW eid
    PROVE  /\ LatestVersion(etype, eid) \in Nat
           /\ \A i \in RowsOf(etype, eid) :
                log[i].version <= LatestVersion(etype, eid)
           /\ \/ LatestVersion(etype, eid) = 0
              \/ \E i \in RowsOf(etype, eid) :
                    log[i].version = LatestVersion(etype, eid)
<1>1. RowsOf(etype, eid) \in SUBSET DOMAIN log
  BY DEF RowsOf
<1>2. LatestVersion(etype, eid) = Top(0, RowsOf(etype, eid))
  BY DEF LatestVersion, Top
<1> QED
  BY <1>1, <1>2, TopOfRows

\* One turn of a loop over the batch keeps a call inside its batch.
LEMMA NextInBatchKeeps ==
    ASSUME TypeOK, InBatch, NEW c \in Calls,
           pc[c] \in {"resolve", "apply", "notify"},
           NEW again \in {"resolve", "apply"}, NEW after \in {"apply", "respond"},
           NextInBatch(c, again, after), batch' = batch
    PROVE  /\ pc' \in [Calls -> {"idle"} \cup Running \cup Ended]
           /\ pos' \in [Calls -> Nat \ {0}]
           /\ InBatch'
           /\ \A o \in Calls : pc'[o] = "append" => pc[o] = "append"
<1>1. pos[c] \in 1 .. Len(batch[c]) /\ Len(batch[c]) \in Nat
  <2>1. batch[c] \in Seq(Change)
    BY DEF TypeOK
  <2> QED
    BY <2>1, LenProperties DEF InBatch
<1>2. /\ pc \in [Calls -> {"idle"} \cup Running \cup Ended]
      /\ pos \in [Calls -> Nat \ {0}]
  BY DEF TypeOK
<1>3. PICK step \in {"resolve", "apply", "respond"}, p \in 1 .. Len(batch[c]) :
        pc' = [pc EXCEPT ![c] = step] /\ pos' = [pos EXCEPT ![c] = p]
  <2>1. CASE pos[c] = Len(batch[c])
    BY <1>1, <2>1 DEF NextInBatch
  <2>2. CASE pos[c] # Len(batch[c])
    BY <1>1, <1>2, <2>2 DEF NextInBatch
  <2> QED
    BY <2>1, <2>2
<1>4. pc' \in [Calls -> {"idle"} \cup Running \cup Ended]
  BY <1>2, <1>3 DEF Running
<1>5. pos' \in [Calls -> Nat \ {0}]
  BY <1>1, <1>2, <1>3
<1>6. InBatch'
  BY <1>2, <1>3 DEF InBatch
<1>7. \A o \in Calls : pc'[o] = "append" => pc[o] = "append"
  BY <1>2, <1>3
<1> QED
  BY <1>4, <1>5, <1>6, <1>7

\* Judging a change records a positive version at a position of the batch.
LEMMA JudgeTypes ==
    ASSUME TypeOK, NEW c \in Calls, NEW sv \in Nat, Judge(c, sv)
    PROVE  conflicts' \in [Calls -> SUBSET Conflict]
BY DEF TypeOK, Judge, Conflict

\* The row a call appends is one the table may hold.
LEMMA NewRowTypes ==
    ASSUME TypeInv, NEW c \in Calls, pc[c] = "append"
    PROVE  NewRow(c) \in Row /\ NewRow(c).version = ver[c]
<1>1. batch[c] \in Seq(Change) /\ pos[c] \in 1 .. Len(batch[c])
  BY DEF TypeInv, TypeOK, InBatch
<1>2. batch[c][pos[c]] \in Change
  BY <1>1, ElementOfSeq
<1>3. ver[c] \in Nat \ {0} /\ pos[c] \in Nat \ {0}
  <2>1. Len(log) \in Nat /\ ver[c] \in 1 .. Len(log) + 1
    BY RowTypes DEF TypeInv, VersionsBounded
  <2> QED
    BY <2>1 DEF TypeInv, TypeOK
<1> QED
  BY <1>2, <1>3 DEF NewRow, Row, Change, StoredActions

\* AppendChange adds one row, with the version the call holds, at the end.
LEMMA Appended ==
    ASSUME TypeInv, NEW c \in Calls, AppendChange(c)
    PROVE  /\ log' \in Seq(Row)
           /\ Len(log) \in Nat
           /\ Len(log') = Len(log) + 1
           /\ DOMAIN log = 1 .. Len(log)
           /\ DOMAIN log' = 1 .. Len(log) + 1
           /\ \A i \in DOMAIN log : log'[i] = log[i]
           /\ log'[Len(log) + 1] = NewRow(c)
           /\ NewRow(c).version = ver[c]
           /\ ver[c] \in 1 .. Len(log) + 1
<1>1. log \in Seq(Row) /\ pc[c] = "append" /\ log' = Append(log, NewRow(c))
  BY DEF TypeInv, TypeOK, AppendChange
<1>2. NewRow(c) \in Row /\ NewRow(c).version = ver[c] /\ ver[c] \in 1 .. Len(log) + 1
  BY <1>1, NewRowTypes DEF TypeInv, VersionsBounded
<1> QED
  BY <1>1, <1>2, AppendProperties, LenProperties

\* The type invariant holds in an empty table with idle calls.
LEMMA TypeInvInit == Init => TypeInv
<1> SUFFICES ASSUME Init PROVE TypeInv
  OBVIOUS
<1>1. log \in Seq(Row) /\ DOMAIN log = {} /\ Len(log) = 0
  BY EmptySeq, LenProperties DEF Init
<1>2. batch \in [Calls -> Seq(Change)]
  BY EmptySeq DEF Init
<1> QED
  BY <1>1, <1>2 DEF Init, TypeInv, TypeOK, InBatch, VersionsBounded

\* A fault is counted.
LEMMA FaultTypes ==
    ASSUME TypeOK, NEW kind, Fault(kind)
    PROVE  faults' \in Seq(Faults)
BY DEF TypeOK, Fault

\* Every statement of a push, and every pull, ack and crash, keeps the types.
LEMMA TypeInvNext == TypeInv /\ [Next]_vars => TypeInv'
<1> SUFFICES ASSUME TypeInv, [Next]_vars
             PROVE  TypeInv'
  OBVIOUS
<1> USE DEF TypeInv
<1>1. ASSUME NEW c \in Calls, Arrive(c)
      PROVE  TypeInv'
  <2>1. PICK b \in SeqOf([etype : EntityTypes, eid : EntityIds, action : Actions,
                          base : {0} \cup Versions], MaxBatch) :
            /\ batch' = [batch EXCEPT ![c] = b]
            /\ pc' = [pc EXCEPT ![c] = FirstStep(b)]
    BY <1>1 DEF Arrive
  <2>2. b \in Seq(Change) /\ (b # <<>> => 1 \in 1 .. Len(b))
    <3> DEFINE New == [etype : EntityTypes, eid : EntityIds, action : Actions,
                       base : {0} \cup Versions]
    <3>1. New \subseteq Change
      BY RowTypes DEF Change, Versions
    <3>2. PICK m \in Nat : b \in [1 .. m -> New]
      BY <2>1, MaxBatchAssumption DEF SeqOf
    <3>3. b \in Seq(New)
      <4> HIDE DEF New
      <4> QED
        BY <3>2, SeqDef
    <3>4. b \in Seq(Change)
      BY <3>1, <3>3, SeqMonotonic
    <3> QED
      BY <3>4, EmptySeq
  <2>3. TypeOK'
    BY <1>1, <2>1, <2>2 DEF Arrive, TypeOK, FirstStep, Running, deviceVars
  <2>4. InBatch'
    BY <1>1, <2>1, <2>2 DEF Arrive, TypeOK, InBatch, FirstStep, MayStart
  <2>5. VersionsBounded'
    BY <1>1, <2>1 DEF Arrive, TypeOK, VersionsBounded, FirstStep
  <2> QED
    BY <2>3, <2>4, <2>5
<1>2. ASSUME NEW c \in Calls, NEW o \in Calls, Retry(c, o)
      PROVE  TypeInv'
  <2>1. batch[o] \in Seq(Change) /\ 1 \in 1 .. Len(batch[o])
    BY <1>2, EmptySeq DEF Retry, TypeOK
  <2>2. TypeOK'
    BY <1>2, <2>1 DEF Retry, TypeOK, Running, deviceVars
  <2>3. InBatch'
    <3>1. pos[c] = 1
      BY <1>2 DEF Retry, MayStart, InBatch
    <3> QED
      BY <1>2, <2>1, <3>1 DEF Retry, TypeOK, InBatch
  <2>4. VersionsBounded'
    BY <1>2 DEF Retry, TypeOK, VersionsBounded
  <2> QED
    BY <2>2, <2>3, <2>4
<1>3. ASSUME NEW c \in Calls, Resolve(c) \/ ResolveBlind(c)
      PROVE  TypeInv'
  <2> DEFINE ch == batch[c][pos[c]]
  <2>1. PICK sv \in Nat : Judge(c, sv)
    <3>1. LatestVersion(ch.etype, ch.eid) \in Nat
      BY LatestVersionIsLatest
    <3> QED
      BY <1>3, <3>1 DEF Resolve, ResolveBlind
  <2>2. conflicts' \in [Calls -> SUBSET Conflict]
    BY <2>1, JudgeTypes
  <2>3. /\ pc' \in [Calls -> {"idle"} \cup Running \cup Ended]
        /\ pos' \in [Calls -> Nat \ {0}]
        /\ InBatch'
        /\ \A o \in Calls : pc'[o] = "append" => pc[o] = "append"
    BY <1>3, NextInBatchKeeps DEF Resolve, ResolveBlind
  <2>4. faults' \in Seq(Faults)
    BY <1>3, FaultTypes DEF Resolve, ResolveBlind, TypeOK
  <2>5. TypeOK'
    BY <1>3, <2>2, <2>3, <2>4 DEF Resolve, ResolveBlind, TypeOK, deviceVars
  <2>6. VersionsBounded'
    BY <1>3, <2>3 DEF Resolve, ResolveBlind, VersionsBounded
  <2> QED
    BY <2>3, <2>5, <2>6
<1>4. ASSUME NEW c \in Calls, Skip(c) \/ Notify(c)
      PROVE  TypeInv'
  <2>1. /\ pc' \in [Calls -> {"idle"} \cup Running \cup Ended]
        /\ pos' \in [Calls -> Nat \ {0}]
        /\ InBatch'
        /\ \A o \in Calls : pc'[o] = "append" => pc[o] = "append"
    BY <1>4, NextInBatchKeeps DEF Skip, Notify
  <2>2. TypeOK'
    BY <1>4, <2>1 DEF Skip, Notify, TypeOK, deviceVars
  <2>3. VersionsBounded'
    BY <1>4, <2>1 DEF Skip, Notify, VersionsBounded
  <2> QED
    BY <2>1, <2>2, <2>3
<1>5. ASSUME NEW c \in Calls, NextVersion(c) \/ NextVersionBlind(c)
      PROVE  TypeInv'
  <2>1. PICK v \in 1 .. Len(log) + 1 : ver' = [ver EXCEPT ![c] = v]
    <3>1. Current \in 0 .. Len(log) /\ Len(log) \in Nat
      BY CurrentIsLatest, RowTypes DEF VersionsBounded
    <3> QED
      BY <1>5, <3>1 DEF NextVersion, NextVersionBlind, NextFree
  <2>2. faults' \in Seq(Faults)
    BY <1>5, FaultTypes DEF NextVersion, NextVersionBlind, TypeOK
  <2>3. TypeOK'
    <3>1. /\ pc' = [pc EXCEPT ![c] = "append"]
          /\ UNCHANGED <<log, acked, batch, root, pos, conflicts, accepted, answer,
                         cursor, seen>>
      BY <1>5 DEF NextVersion, NextVersionBlind, deviceVars
    <3>2. \A w \in 1 .. Len(log) + 1 : w \in Nat
      BY RowTypes
    <3> QED
      BY <2>1, <2>2, <3>1, <3>2 DEF TypeOK, Running
  <2>4. InBatch'
    BY <1>5 DEF NextVersion, NextVersionBlind, TypeOK, InBatch
  <2>5. VersionsBounded'
    BY <1>5, <2>1 DEF NextVersion, NextVersionBlind, TypeOK, VersionsBounded
  <2> QED
    BY <2>3, <2>4, <2>5
<1>6. ASSUME NEW c \in Calls, AppendChange(c)
      PROVE  TypeInv'
  <2>1. /\ log' \in Seq(Row)
        /\ Len(log) \in Nat
        /\ Len(log') = Len(log) + 1
        /\ DOMAIN log = 1 .. Len(log)
        /\ DOMAIN log' = 1 .. Len(log) + 1
        /\ \A i \in DOMAIN log : log'[i] = log[i]
        /\ log'[Len(log) + 1].version \in 1 .. Len(log) + 1
    BY <1>6, Appended
  <2>2. TypeOK'
    BY <1>6, <2>1, SMTT(30) DEF AppendChange, TypeOK, Running, deviceVars
  <2>3. InBatch'
    BY <1>6 DEF AppendChange, TypeOK, InBatch
  <2>4. VersionsBounded'
    <3>1. \A i \in DOMAIN log : log[i].version <= i
      BY DEF VersionsBounded
    <3>2. \A i \in DOMAIN log' : log'[i].version <= i
      BY <2>1, <3>1
    <3>3. \A o \in Calls : pc'[o] = "append" => pc[o] = "append" /\ ver'[o] = ver[o]
      BY <1>6 DEF AppendChange, TypeOK
    <3>4. \A o \in Calls : pc'[o] = "append" => ver'[o] \in 1 .. Len(log) + 1
      BY <3>3 DEF VersionsBounded
    <3>5. 1 .. Len(log) + 1 \subseteq 1 .. Len(log') + 1
      BY <2>1
    <3> QED
      BY <3>2, <3>4, <3>5 DEF VersionsBounded
  <2> QED
    BY <2>2, <2>3, <2>4
<1>7. ASSUME NEW c \in Calls, AppendFails(c)
      PROVE  TypeInv'
  <2>1. TypeOK'
    BY <1>7, FaultTypes DEF AppendFails, TypeOK, Ended, deviceVars
  <2>2. InBatch' /\ VersionsBounded'
    BY <1>7 DEF AppendFails, TypeOK, InBatch, VersionsBounded
  <2> QED
    BY <2>1, <2>2
<1>8. ASSUME NEW c \in Calls, Respond(c) \/ RespondBlind(c)
      PROVE  TypeInv'
  <2>1. Current \in Nat
    BY CurrentIsLatest
  <2>2. faults' \in Seq(Faults)
    BY <1>8, FaultTypes DEF Respond, RespondBlind, TypeOK
  <2>3. TypeOK'
    <3>1. /\ pc' = [pc EXCEPT ![c] = "done"]
          /\ \E a \in Nat : answer' = [answer EXCEPT ![c] = a]
          /\ UNCHANGED <<log, acked, batch, root, pos, conflicts, ver, accepted,
                         cursor, seen>>
      BY <1>8, <2>1 DEF Respond, RespondBlind, deviceVars
    <3> QED
      BY <2>2, <3>1, SMTT(30) DEF TypeOK, Ended
  <2>4. InBatch' /\ VersionsBounded'
    BY <1>8 DEF Respond, RespondBlind, TypeOK, InBatch, VersionsBounded
  <2> QED
    BY <2>3, <2>4
<1>9. CASE Crash
  <2>1. TypeOK'
    BY <1>9, FaultTypes DEF Crash, TypeOK, Ended, deviceVars
  <2>2. InBatch' /\ VersionsBounded'
    BY <1>9 DEF Crash, TypeOK, InBatch, VersionsBounded
  <2> QED
    BY <2>1, <2>2
<1>10. ASSUME NEW d \in Devices, Pull(d)
       PROVE  TypeInv'
  <2>1. PICK S \in Pages(cursor[d]) :
            /\ seen' = [seen EXCEPT ![d] = @ \cup S]
            /\ cursor' = [cursor EXCEPT ![d] = Top(cursor[d], S)]
    BY <1>10 DEF Pull, Top, TypeOK
  <2>2. S \in SUBSET DOMAIN log
    BY DEF Pages, RowsAfter
  <2>3. Top(cursor[d], S) \in Nat
    BY <2>2, TopOfRows DEF TypeOK
  <2>4. TypeOK'
    BY <1>10, <2>1, <2>2, <2>3 DEF Pull, TypeOK, callVars
  <2>5. InBatch' /\ VersionsBounded'
    BY <1>10 DEF Pull, InBatch, VersionsBounded, callVars
  <2> QED
    BY <2>4, <2>5
<1>11. ASSUME NEW v, Ack(v)
       PROVE  TypeInv'
  BY <1>11 DEF Ack, TypeOK, InBatch, VersionsBounded, callVars, deviceVars
<1>12. CASE UNCHANGED vars
  BY <1>12 DEF vars, callVars, deviceVars, TypeOK, InBatch, VersionsBounded
<1> QED
  BY <1>1, <1>2, <1>3, <1>4, <1>5, <1>6, <1>7, <1>8, <1>9, <1>10, <1>11, <1>12
     DEF Next, Step

\* Every variable keeps its type, whatever the constants.
THEOREM TypeCorrect == Spec => []TypeOK
<1>1. TypeInv => TypeOK
  BY DEF TypeInv
<1> QED
  BY <1>1, TypeInvInit, TypeInvNext, PTL DEF Spec

-----------------------------------------------------------------------------
(* What the steps do to the table and to the versions about to be used. *)

\* Only AppendChange writes the table.
LEMMA LogSteps ==
    ASSUME [Next]_vars
    PROVE  log' = log \/ \E c \in Calls : AppendChange(c)
BY DEF Next, Step, vars, callVars, deviceVars, Arrive, Retry, Resolve, ResolveBlind,
       Skip, NextVersion, NextVersionBlind, AppendFails, Notify, Respond,
       RespondBlind, Crash, Pull, Ack

\* A call comes to hold a version only by reading the next one.
LEMMA PendingSteps ==
    ASSUME TypeInv, [Next]_vars, NEW c \in Calls, pc'[c] = "append"
    PROVE  \/ pc[c] = "append" /\ ver'[c] = ver[c]
           \/ NextVersion(c) \/ NextVersionBlind(c)
<1> USE DEF TypeInv, TypeOK
<1>1. ASSUME NEW o \in Calls, Arrive(o)
      PROVE  pc[c] = "append" /\ ver'[c] = ver[c]
  BY <1>1 DEF Arrive, FirstStep
<1>2. ASSUME NEW o \in Calls, NEW p \in Calls, Retry(o, p)
      PROVE  pc[c] = "append" /\ ver'[c] = ver[c]
  BY <1>2 DEF Retry
<1>3. ASSUME NEW o \in Calls,
             Resolve(o) \/ ResolveBlind(o) \/ Skip(o) \/ Notify(o)
      PROVE  pc[c] = "append" /\ ver'[c] = ver[c]
  BY <1>3, NextInBatchKeeps DEF Resolve, ResolveBlind, Skip, Notify
<1>4. ASSUME NEW o \in Calls, NextVersion(o) \/ NextVersionBlind(o), o # c
      PROVE  pc[c] = "append" /\ ver'[c] = ver[c]
  BY <1>4 DEF NextVersion, NextVersionBlind
<1>5. ASSUME NEW o \in Calls,
             AppendChange(o) \/ AppendFails(o) \/ Respond(o) \/ RespondBlind(o)
      PROVE  pc[c] = "append" /\ ver'[c] = ver[c]
  BY <1>5 DEF AppendChange, AppendFails, Respond, RespondBlind
<1>6. CASE Crash
  BY <1>6 DEF Crash
<1>7. ASSUME NEW x, Pull(x) \/ Ack(x)
      PROVE  pc[c] = "append" /\ ver'[c] = ver[c]
  BY <1>7 DEF Pull, Ack, callVars
<1>8. CASE UNCHANGED vars
  BY <1>8 DEF vars, callVars
<1> QED
  BY <1>1, <1>2, <1>3, <1>4, <1>5, <1>6, <1>7, <1>8 DEF Next, Step

-----------------------------------------------------------------------------
(* Versions have no gaps. *)

\* Below the version a call is about to append every version is in the table.
PendingHasNoGaps ==
    \A c \in Calls : pc[c] = "append" =>
        \A v \in 1 .. ver[c] - 1 : \E j \in DOMAIN log : log[j].version = v

\* No version is missing, also below the one a push is about to append.
GapInv == TypeInv /\ NoVersionGaps /\ PendingHasNoGaps

\* No step makes a hole in the versions: a push that appends read a maximum
\* below which every version is there, and rows are never taken out.
LEMMA GapInvNext == GapInv /\ [Next]_vars => GapInv'
<1> SUFFICES ASSUME GapInv, [Next]_vars
             PROVE  GapInv'
  OBVIOUS
<1>1. TypeInv /\ TypeInv' /\ TypeOK /\ VersionsBounded
  BY TypeInvNext DEF GapInv, TypeInv
<1>2. \A i \in DOMAIN log : i \in DOMAIN log' /\ log'[i] = log[i]
  BY <1>1, LogSteps, Appended
<1>3. NoVersionGaps'
  <2>1. CASE log' = log
    BY <2>1 DEF GapInv, NoVersionGaps
  <2>2. ASSUME NEW c \in Calls, AppendChange(c)
        PROVE  NoVersionGaps'
    <3> SUFFICES ASSUME NEW i \in DOMAIN log', NEW v \in 1 .. log'[i].version - 1
                 PROVE  \E j \in 1 .. i - 1 : log'[j].version = v
      BY DEF NoVersionGaps
    <3>1. CASE i \in DOMAIN log
      BY <1>1, <2>2, <3>1, Appended DEF GapInv, NoVersionGaps
    <3>2. CASE i = Len(log) + 1
      <4>1. pc[c] = "append" /\ v \in 1 .. ver[c] - 1
        BY <1>1, <2>2, <3>2, Appended DEF AppendChange
      <4>2. PICK j \in DOMAIN log : log[j].version = v
        BY <4>1 DEF GapInv, PendingHasNoGaps
      <4> QED
        BY <1>1, <1>2, <2>2, <3>2, <4>2, Appended
    <3> QED
      BY <1>1, <2>2, <3>1, <3>2, Appended
  <2> QED
    BY <2>1, <2>2, LogSteps
<1>4. PendingHasNoGaps'
  <2> SUFFICES ASSUME NEW c \in Calls, pc'[c] = "append",
                      NEW v \in 1 .. ver'[c] - 1
               PROVE  \E j \in DOMAIN log : log[j].version = v
    BY <1>2 DEF PendingHasNoGaps
  <2>1. CASE pc[c] = "append" /\ ver'[c] = ver[c]
    BY <2>1, SMTT(30) DEF GapInv, PendingHasNoGaps
  <2>2. CASE NextVersion(c)
    <3>1. v \in 1 .. Current
      BY <1>1, <2>2, CurrentIsLatest DEF NextVersion, NextFree, TypeOK
    <3>2. PICK m \in DOMAIN log : log[m].version = Current
      BY <1>1, <3>1, CurrentIsLatest
    <3>3. CASE v = Current
      BY <3>2, <3>3
    <3>4. CASE v # Current
      <4>1. v \in 1 .. log[m].version - 1
        BY <1>1, <3>1, <3>2, <3>4, CurrentIsLatest
      <4>2. PICK j \in 1 .. m - 1 : log[j].version = v
        BY <4>1 DEF GapInv, NoVersionGaps
      <4> QED
        BY <1>1, <4>2, RowTypes
    <3> QED
      BY <3>3, <3>4
  <2>3. CASE NextVersionBlind(c)
    BY <1>1, <2>3 DEF NextVersionBlind, TypeOK
  <2> QED
    BY <1>1, <2>1, <2>2, <2>3, PendingSteps
<1> QED
  BY <1>1, <1>3, <1>4 DEF GapInv

\* The versions in use are 1, 2, ... without a hole, under any interleaving and
\* with any of the faults, failed queries included.
THEOREM VersionsHaveNoGaps == Spec => []NoVersionGaps
<1>1. Init => GapInv
  <2> SUFFICES ASSUME Init PROVE GapInv
    OBVIOUS
  <2>1. TypeInv /\ DOMAIN log = {}
    BY TypeInvInit DEF Init
  <2> QED
    BY <2>1 DEF Init, GapInv, NoVersionGaps, PendingHasNoGaps
<1>2. GapInv => NoVersionGaps
  BY DEF GapInv
<1> QED
  BY <1>1, <1>2, GapInvNext, PTL DEF Spec

-----------------------------------------------------------------------------
(* No version is skipped. *)

\* Of every version up to its cursor a device has a change, and there are no holes
\* for a page to jump over.
SkipInv == GapInv /\ NoVersionSkipped

\* A page holds a row of every version between the cursor and its last one.
LEMMA PageSkipsNoVersion ==
    ASSUME GapInv, NEW k \in Nat, NEW S \in Pages(k), NEW v \in k + 1 .. Top(k, S)
    PROVE  \E i \in S : log[i].version = v
<1>1. TypeOK /\ VersionsBounded /\ NoVersionGaps /\ S \in SUBSET DOMAIN log
  BY DEF GapInv, TypeInv, Pages, RowsAfter
<1>2. PICK i \in S : log[i].version = Top(k, S)
  <2>1. Top(k, S) \in Nat /\ (Top(k, S) = k \/ \E i \in S : log[i].version = Top(k, S))
    BY <1>1, TopOfRows
  <2> QED
    BY <2>1
<1>3. CASE v = Top(k, S)
  BY <1>2, <1>3
<1>4. CASE v # Top(k, S)
  <2>1. i \in DOMAIN log /\ v \in 1 .. log[i].version - 1
    BY <1>1, <1>2, <1>4, RowTypes
  <2>2. PICK j \in 1 .. i - 1 : log[j].version = v
    BY <1>1, <2>1 DEF NoVersionGaps
  <2>3. j \in RowsAfter(k)
    BY <1>1, <2>1, <2>2, RowTypes DEF RowsAfter
  <2>4. j \notin S => log[i].version <= v
    BY <2>2, <2>3 DEF Pages
  <2>5. j \in S
    BY <1>1, <2>1, <2>4, RowTypes
  <2> QED
    BY <2>2, <2>5
<1> QED
  BY <1>3, <1>4

\* A pull is the only step that moves a cursor, and its page has the versions the
\* cursor passes.
LEMMA SkipInvNext == SkipInv /\ [Next]_vars => SkipInv'
<1> SUFFICES ASSUME SkipInv, [Next]_vars
             PROVE  SkipInv'
  OBVIOUS
<1>1. GapInv /\ GapInv' /\ TypeInv /\ TypeOK /\ NoVersionSkipped
  BY GapInvNext DEF SkipInv, GapInv, TypeInv
<1>2. \A i \in DOMAIN log : i \in DOMAIN log' /\ log'[i] = log[i]
  BY <1>1, LogSteps, Appended
<1>3. NoVersionSkipped'
  <2>1. ASSUME NEW d \in Devices, Pull(d)
        PROVE  NoVersionSkipped'
    <3>1. PICK S \in Pages(cursor[d]) :
              /\ seen' = [seen EXCEPT ![d] = @ \cup S]
              /\ cursor' = [cursor EXCEPT ![d] = Top(cursor[d], S)]
      BY <1>1, <2>1 DEF Pull, Top, TypeOK
    <3>2. log' = log /\ cursor[d] \in Nat /\ Top(cursor[d], S) \in Nat
      BY <1>1, <2>1, TopOfRows DEF Pull, TypeInv, TypeOK, Pages, RowsAfter
    <3>3. ASSUME NEW v \in 1 .. Top(cursor[d], S)
          PROVE  \E i \in seen[d] \cup S : log[i].version = v
      <4>1. CASE v \in 1 .. cursor[d]
        BY <1>1, <4>1 DEF NoVersionSkipped
      <4>2. CASE v \in cursor[d] + 1 .. Top(cursor[d], S)
        BY <1>1, <3>2, <4>2, PageSkipsNoVersion
      <4> QED
        BY <3>2, <4>1, <4>2
    <3> QED
      BY <1>1, <3>1, <3>2, <3>3 DEF NoVersionSkipped, TypeOK
  <2>2. CASE UNCHANGED deviceVars
    <3>1. cursor' = cursor /\ seen' = seen
      BY <2>2 DEF deviceVars
    <3>2. \A d \in Devices : \A i \in seen[d] : log'[i] = log[i]
      BY <1>1, <1>2 DEF TypeOK
    <3> QED
      BY <1>1, <3>1, <3>2 DEF NoVersionSkipped
  <2>3. (\E d \in Devices : Pull(d)) \/ UNCHANGED deviceVars
    BY DEF Next, Step, vars, Arrive, Retry, Resolve, ResolveBlind, Skip,
           NextVersion, NextVersionBlind, AppendChange, AppendFails, Notify,
           Respond, RespondBlind, Crash, Ack
  <2> QED
    BY <2>1, <2>2, <2>3
<1> QED
  BY <1>1, <1>3 DEF SkipInv

\* At first there are no rows and every cursor is 0.
LEMMA SkipInvInit == Init => SkipInv
<1> SUFFICES ASSUME Init PROVE SkipInv
  OBVIOUS
<1>1. TypeInv /\ DOMAIN log = {}
  BY TypeInvInit DEF Init
<1>2. GapInv
  BY <1>1 DEF Init, GapInv, NoVersionGaps, PendingHasNoGaps
<1> QED
  BY <1>2 DEF Init, SkipInv, NoVersionSkipped

\* However pushes race and whatever fails, a device has been sent a change of every
\* version up to its cursor.
THEOREM VersionsAreNotSkipped == Spec => []NoVersionSkipped
<1>1. SkipInv => NoVersionSkipped
  BY DEF SkipInv
<1> QED
  BY <1>1, SkipInvInit, SkipInvNext, PTL DEF Spec

-----------------------------------------------------------------------------
(* One push at a time, and no query fails. *)

\* Where calls do not overlap, at most one is on its way.
OneRunning ==
    \A c, o \in Calls : pc[c] \in Running /\ pc[o] \in Running => c = o

\* The version a push has read is still the next one.
PendingIsNext == \A c \in Calls : pc[c] = "append" => ver[c] = Len(log) + 1

\* A row's version is its place in the table: no other push is between read and insert.
DenseInv == TypeInv /\ DenseVersions /\ OneRunning /\ PendingIsNext

\* A call starts only when no other runs; nothing else sets a call running.
LEMMA OneRunningNext ==
    ASSUME ~ Concurrent, TypeInv, OneRunning, [Next]_vars
    PROVE  OneRunning'
<1> USE DEF TypeInv, TypeOK, OneRunning, Running
<1>1. ASSUME NEW c \in Calls, Arrive(c)
      PROVE  OneRunning'
  BY <1>1 DEF Arrive, MayStart
<1>2. ASSUME NEW c \in Calls, NEW o \in Calls, Retry(c, o)
      PROVE  OneRunning'
  BY <1>2 DEF Retry, MayStart
<1>3. ASSUME NEW c \in Calls,
             Resolve(c) \/ ResolveBlind(c) \/ Skip(c) \/ Notify(c)
      PROVE  OneRunning'
  <2>1. pc[c] \in Running /\ \E w : pc' = [pc EXCEPT ![c] = w]
    BY <1>3 DEF Resolve, ResolveBlind, Skip, Notify, NextInBatch
  <2> QED
    BY <2>1
<1>4. ASSUME NEW c \in Calls,
             \/ NextVersion(c) \/ NextVersionBlind(c) \/ AppendChange(c)
             \/ AppendFails(c) \/ Respond(c) \/ RespondBlind(c)
      PROVE  OneRunning'
  BY <1>4 DEF NextVersion, NextVersionBlind, AppendChange, AppendFails, Respond,
              RespondBlind
<1>5. CASE Crash
  BY <1>5 DEF Crash
<1>6. ASSUME NEW x, Pull(x) \/ Ack(x)
      PROVE  OneRunning'
  BY <1>6 DEF Pull, Ack, callVars
<1>7. CASE UNCHANGED vars
  BY <1>7 DEF vars, callVars
<1> QED
  BY <1>1, <1>2, <1>3, <1>4, <1>5, <1>6, <1>7 DEF Next, Step

\* With dense versions the latest version is the number of rows.
LEMMA CurrentIsLength ==
    ASSUME TypeInv, DenseVersions
    PROVE  Current = Len(log)
<1>1. /\ Len(log) \in Nat /\ Current \in Nat
      /\ \A i \in 1 .. Len(log) : i <= Current
      /\ Current = 0 \/ Current \in 1 .. Len(log)
  BY RowTypes, CurrentIsLatest DEF TypeInv, DenseVersions
<1>2. CASE Len(log) = 0
  BY <1>1, <1>2
<1>3. CASE Len(log) \in 1 .. Len(log)
  BY <1>1, <1>3
<1> QED
  BY <1>1, <1>2, <1>3

\* With one push at a time and no failing query, every step keeps the versions
\* dense: nothing is inserted between the read of the maximum and the insert.
LEMMA DenseInvNext ==
    ASSUME ~ Concurrent, "read" \notin Faults
    PROVE  DenseInv /\ [Next]_vars => DenseInv'
<1> SUFFICES ASSUME DenseInv, [Next]_vars
             PROVE  DenseInv'
  OBVIOUS
<1>1. TypeInv /\ TypeInv' /\ OneRunning'
  BY TypeInvNext, OneRunningNext DEF DenseInv
<1>2. DenseVersions'
  <2>1. CASE log' = log
    BY <2>1 DEF DenseInv, DenseVersions
  <2>2. ASSUME NEW c \in Calls, AppendChange(c)
        PROVE  DenseVersions'
    <3>1. ver[c] = Len(log) + 1
      BY <2>2 DEF DenseInv, PendingIsNext, AppendChange
    <3> QED
      BY <1>1, <2>2, <3>1, Appended DEF DenseInv, DenseVersions
  <2> QED
    BY <2>1, <2>2, LogSteps
<1>3. PendingIsNext'
  <2> SUFFICES ASSUME NEW c \in Calls, pc'[c] = "append"
               PROVE  ver'[c] = Len(log') + 1
    BY DEF PendingIsNext
  <2>1. CASE NextVersion(c)
    <3>1. Current = Len(log)
      BY <1>1, CurrentIsLength DEF DenseInv
    <3> QED
      BY <1>1, <2>1, <3>1 DEF NextVersion, NextFree, TypeInv, TypeOK
  <2>2. CASE NextVersionBlind(c)
    BY <2>2 DEF NextVersionBlind, Fault
  <2>3. CASE pc[c] = "append" /\ ver'[c] = ver[c]
    <3>1. CASE log' = log
      BY <2>3, <3>1 DEF DenseInv, PendingIsNext
    <3>2. ASSUME NEW o \in Calls, AppendChange(o)
          PROVE  FALSE
      <4>1. o = c
        BY <2>3, <3>2 DEF DenseInv, OneRunning, Running, AppendChange
      <4> QED
        BY <1>1, <3>2, <4>1 DEF AppendChange, TypeInv, TypeOK
    <3> QED
      BY <3>1, <3>2, LogSteps
  <2> QED
    BY <1>1, <2>1, <2>2, <2>3, PendingSteps
<1> QED
  BY <1>1, <1>2, <1>3 DEF DenseInv

\* The empty table is dense and no push is running.
LEMMA DenseInvInit == Init => DenseInv
<1> SUFFICES ASSUME Init PROVE DenseInv
  OBVIOUS
<1>1. TypeInv /\ DOMAIN log = {} /\ \A c \in Calls : pc[c] = "idle"
  BY TypeInvInit DEF Init
<1> QED
  BY <1>1 DEF DenseInv, DenseVersions, OneRunning, PendingIsNext, Running

\* When pushes come one at a time and no query fails, the versions number the
\* rows: they are unique and increase with the inserts.
THEOREM SerialVersionsAreDense ==
    ASSUME ~ Concurrent, "read" \notin Faults
    PROVE  Spec => []DenseVersions
<1>1. DenseInv => DenseVersions
  BY DEF DenseInv
<1>2. DenseInv /\ [Next]_vars => DenseInv'
  BY DenseInvNext
<1> QED
  BY <1>1, <1>2, DenseInvInit, PTL DEF Spec

-----------------------------------------------------------------------------
(* One push at a time: devices receive the table as a prefix. *)

\* A device has been sent the rows up to its cursor, and no others.
ReceivedPrefix ==
    \A d \in Devices : cursor[d] \in 0 .. Len(log) /\ seen[d] = 1 .. cursor[d]

\* What a device has is what the table starts with.
FeedInv == DenseInv /\ ReceivedPrefix

\* With dense versions a page is the run of rows that follows the cursor.
LEMMA PageIsNextRows ==
    ASSUME TypeInv, DenseVersions, NEW k \in 0 .. Len(log), NEW S \in Pages(k)
    PROVE  /\ Top(k, S) \in k .. Len(log)
           /\ S = k + 1 .. Top(k, S)
<1>1. /\ Len(log) \in Nat /\ DOMAIN log = 1 .. Len(log)
      /\ \A i \in DOMAIN log : log[i].version = i
  BY RowTypes DEF TypeInv, DenseVersions
<1>2. RowsAfter(k) = k + 1 .. Len(log)
  BY <1>1 DEF RowsAfter
<1>3. /\ S \subseteq k + 1 .. Len(log)
      /\ \A i \in S, j \in RowsAfter(k) \ S : i <= j
  BY <1>1, <1>2 DEF Pages
<1>4. /\ Top(k, S) \in Nat /\ k <= Top(k, S)
      /\ \A i \in S : i <= Top(k, S)
      /\ Top(k, S) = k \/ Top(k, S) \in S
  <2>1. S \in SUBSET DOMAIN log
    BY <1>1, <1>3
  <2> QED
    BY <1>1, <2>1, TopOfRows DEF TypeInv
<1>5. Top(k, S) \in k .. Len(log)
  BY <1>1, <1>3, <1>4
<1>6. ASSUME NEW j \in k + 1 .. Top(k, S)
      PROVE  j \in S
  <2>1. Top(k, S) \in S /\ j \in RowsAfter(k)
    BY <1>1, <1>2, <1>4, <1>5
  <2>2. j \notin S => Top(k, S) <= j
    BY <1>3, <2>1
  <2> QED
    BY <1>4, <2>1, <2>2
<1>7. ASSUME NEW i \in S
      PROVE  i \in k + 1 .. Top(k, S)
  <2>1. i \in k + 1 .. Len(log)
    BY <1>3
  <2>2. i <= Top(k, S) /\ Top(k, S) \in Nat
    BY <1>4
  <2> QED
    BY <1>1, <2>1, <2>2
<1> DEFINE Run == k + 1 .. Top(k, S)
<1>8. S = Run
  <2>1. \A i \in Run : i \in S
    BY <1>6
  <2>2. \A i \in S : i \in Run
    BY <1>7
  <2> HIDE DEF Run
  <2> QED
    BY <2>1, <2>2
<1> QED
  BY <1>5, <1>8

\* With one push at a time and no failing query, every step leaves the rows a
\* device was sent a prefix of the table that ends at its cursor.
LEMMA FeedInvNext ==
    ASSUME ~ Concurrent, "read" \notin Faults
    PROVE  FeedInv /\ [Next]_vars => FeedInv'
<1> SUFFICES ASSUME FeedInv, [Next]_vars
             PROVE  FeedInv'
  OBVIOUS
<1>1. DenseInv' /\ TypeInv /\ TypeOK /\ DenseVersions
  BY DenseInvNext DEF FeedInv, DenseInv, TypeInv
<1>2. Len(log) \in Nat /\ Len(log') \in Nat /\ Len(log) <= Len(log')
  BY <1>1, RowTypes, LogSteps, Appended
<1>3. ReceivedPrefix'
  <2>1. ASSUME NEW d \in Devices, Pull(d)
        PROVE  ReceivedPrefix'
    <3>1. PICK S \in Pages(cursor[d]) :
              /\ seen' = [seen EXCEPT ![d] = @ \cup S]
              /\ cursor' = [cursor EXCEPT ![d] = Top(cursor[d], S)]
      BY <1>1, <2>1 DEF Pull, Top, TypeOK
    <3>2. cursor[d] \in 0 .. Len(log) /\ seen[d] = 1 .. cursor[d] /\ log' = log
      BY <2>1 DEF FeedInv, ReceivedPrefix, Pull
    <3>3. /\ Top(cursor[d], S) \in cursor[d] .. Len(log)
          /\ S = cursor[d] + 1 .. Top(cursor[d], S)
      BY <1>1, <3>2, PageIsNextRows
    <3>4. /\ seen[d] \cup S = 1 .. Top(cursor[d], S)
          /\ Top(cursor[d], S) \in 0 .. Len(log)
      BY <1>2, <3>2, <3>3
    <3> QED
      BY <1>1, <3>1, <3>2, <3>4 DEF FeedInv, ReceivedPrefix, TypeOK
  <2>2. CASE UNCHANGED deviceVars
    BY <1>2, <2>2 DEF FeedInv, ReceivedPrefix, deviceVars
  <2>3. (\E d \in Devices : Pull(d)) \/ UNCHANGED deviceVars
    BY DEF Next, Step, vars, Arrive, Retry, Resolve, ResolveBlind, Skip,
           NextVersion, NextVersionBlind, AppendChange, AppendFails, Notify,
           Respond, RespondBlind, Crash, Ack
  <2> QED
    BY <2>1, <2>2, <2>3
<1> QED
  BY <1>1, <1>3 DEF FeedInv

\* At first no device was sent anything and every cursor is 0.
LEMMA FeedInvInit == Init => FeedInv
<1> SUFFICES ASSUME Init PROVE FeedInv
  OBVIOUS
<1>1. DenseInv /\ Len(log) \in Nat
  BY DenseInvInit, RowTypes DEF DenseInv, TypeInv
<1> QED
  BY <1>1 DEF Init, FeedInv, ReceivedPrefix

\* When pushes come one at a time and no query fails, pulling from the cursor
\* skips no change.
THEOREM SerialPullsLoseNothing ==
    ASSUME ~ Concurrent, "read" \notin Faults
    PROVE  Spec => []NoLostChange
<1>1. FeedInv => NoLostChange
  <2> SUFFICES ASSUME FeedInv, NEW d \in Devices, NEW i \in DOMAIN log,
                      log[i].version <= cursor[d]
               PROVE  i \in seen[d]
    BY DEF NoLostChange
  <2>1. i \in 1 .. Len(log) /\ Len(log) \in Nat /\ log[i].version = i
    BY RowTypes DEF FeedInv, DenseInv, TypeInv, DenseVersions
  <2> QED
    BY <2>1 DEF FeedInv, ReceivedPrefix
<1>2. FeedInv /\ [Next]_vars => FeedInv'
  BY FeedInvNext
<1> QED
  BY <1>1, <1>2, FeedInvInit, PTL DEF Spec

\* With one push at a time, and whatever versions the acks name, the rows that are
\* marked acked are the first ones of the table.
THEOREM SerialAcksReachBack ==
    ASSUME ~ Concurrent, "read" \notin Faults
    PROVE  Spec => []AcksReachBack
<1>1. Init => AcksReachBack
  BY DEF Init, AcksReachBack
<1>2. DenseInv /\ AcksReachBack /\ [Next]_vars => AcksReachBack'
  <2> SUFFICES ASSUME DenseInv, AcksReachBack, [Next]_vars,
                      NEW i \in acked', NEW j \in 1 .. i
               PROVE  j \in acked'
    BY DEF AcksReachBack
  <2>1. TypeInv /\ TypeOK /\ DenseVersions
    BY DEF DenseInv, TypeInv
  <2>2. CASE acked' = acked
    BY <2>2 DEF AcksReachBack
  <2>3. ASSUME NEW v \in Versions, Ack(v)
        PROVE  j \in acked'
    <3>1. acked' = acked \cup {k \in DOMAIN log : log[k].version <= v}
      BY <2>3 DEF Ack
    <3>2. CASE i \in acked
      BY <3>1, <3>2 DEF AcksReachBack
    <3>3. CASE i \notin acked
      <4>1. /\ DOMAIN log = 1 .. Len(log) /\ Len(log) \in Nat /\ v \in Nat
            /\ \A k \in DOMAIN log : log[k].version = k
        BY <2>1, RowTypes DEF DenseVersions, Versions
      <4> QED
        BY <3>1, <3>3, <4>1
    <3> QED
      BY <3>2, <3>3
  <2>4. acked' = acked \/ \E v \in Versions : Ack(v)
    BY DEF Next, Step, vars, Arrive, Retry, Resolve, ResolveBlind, Skip,
           NextVersion, NextVersionBlind, AppendChange, AppendFails, Notify,
           Respond, RespondBlind, Crash, Pull
  <2> QED
    BY <2>2, <2>3, <2>4
<1>3. DenseInv /\ [Next]_vars => DenseInv'
  BY DenseInvNext
<1> QED
  BY <1>1, <1>2, <1>3, DenseInvInit, PTL DEF Spec

-----------------------------------------------------------------------------
(* One push at a time: the service implements ChangeFeed, its liveness aside. *)

\* The table as the abstract feed sees it.
Content(row) == [etype |-> row.etype, eid |-> row.eid, action |-> row.action]
Contents(rows) == [i \in DOMAIN rows |-> Content(rows[i])]
Changes == [etype : EntityTypes, eid : EntityIds, action : StoredActions]

\* What the feed sees of a table is a sequence of changes, row by row.
LEMMA ContentsIsSequence ==
    ASSUME NEW rows \in Seq(Row)
    PROVE  /\ Contents(rows) \in Seq(Changes)
           /\ Len(Contents(rows)) = Len(rows)
           /\ \A i \in 1 .. Len(rows) : Contents(rows)[i] = Content(rows[i])
<1>1. Len(rows) \in Nat /\ DOMAIN rows = 1 .. Len(rows)
  BY LenProperties
<1>2. \A i \in 1 .. Len(rows) : Content(rows[i]) \in Changes
  <2>1. \A i \in 1 .. Len(rows) : rows[i] \in Row
    BY ElementOfSeq
  <2> QED
    BY <2>1 DEF Row, Content, Changes
<1>3. Contents(rows) \in [1 .. Len(rows) -> Changes]
  BY <1>1, <1>2 DEF Contents
<1>4. Contents(rows) \in Seq(Changes)
  BY <1>1, <1>3, SeqDef
<1>5. DOMAIN Contents(rows) = 1 .. Len(rows)
  BY <1>1 DEF Contents
<1>6. Len(Contents(rows)) = Len(rows)
  BY <1>1, <1>4, <1>5, LenProperties
<1> QED
  BY <1>1, <1>4, <1>6 DEF Contents

\* Appending a row appends its content to the feed.
LEMMA ContentsOfAppend ==
    ASSUME NEW rows \in Seq(Row), NEW row \in Row
    PROVE  Contents(Append(rows, row)) = Append(Contents(rows), Content(row))
<1> DEFINE l == Contents(Append(rows, row))
           r == Append(Contents(rows), Content(row))
<1>1. Content(row) \in Changes
  BY DEF Row, Content, Changes
<1>2. /\ Append(rows, row) \in Seq(Row)
      /\ Len(Append(rows, row)) = Len(rows) + 1
      /\ \A i \in 1 .. Len(rows) : Append(rows, row)[i] = rows[i]
      /\ Append(rows, row)[Len(rows) + 1] = row
      /\ Len(rows) \in Nat
  BY AppendProperties, LenProperties
<1>3. /\ l \in Seq(Changes)
      /\ Len(l) = Len(rows) + 1
      /\ \A i \in 1 .. Len(rows) + 1 : l[i] = Content(Append(rows, row)[i])
  BY <1>2, ContentsIsSequence
<1>4. /\ r \in Seq(Changes)
      /\ Len(r) = Len(rows) + 1
      /\ \A i \in 1 .. Len(rows) : r[i] = Content(rows[i])
      /\ r[Len(rows) + 1] = Content(row)
  BY <1>1, ContentsIsSequence, AppendProperties
<1>5. ASSUME NEW i \in 1 .. Len(l)
      PROVE  l[i] = r[i]
  <2> HIDE DEF l, r
  <2>1. i \in 1 .. Len(rows) \/ i = Len(rows) + 1
    BY <1>2, <1>3
  <2> QED
    BY <1>2, <1>3, <1>4, <2>1
<1> QED
  <2> HIDE DEF l, r
  <2>1. l = r
    BY <1>3, <1>4, <1>5, SeqEqual
  <2> QED
    BY <2>1 DEF l, r

\* An insert publishes a change, a pull consumes the next ones, and every other
\* step leaves the feed as it is.
LEMMA FeedStep ==
    ASSUME ~ Concurrent, "read" \notin Faults, FeedInv, [Next]_vars
    PROVE  [Feed!Next]_(Feed!vars)
<1>1. TypeOK /\ TypeInv /\ DenseVersions /\ ReceivedPrefix
  BY DEF FeedInv, DenseInv, TypeInv
<1> DEFINE feed == [i \in DOMAIN log |-> [etype |-> log[i].etype, eid |-> log[i].eid,
                                          action |-> log[i].action]]
<1>2. feed = Contents(log) /\ feed' = Contents(log') /\ Len(feed) = Len(log)
  BY <1>1, ContentsIsSequence DEF Contents, Content, TypeOK
<1>3. ASSUME NEW c \in Calls, AppendChange(c)
      PROVE  [Feed!Next]_(Feed!vars)
  <2>1. NewRow(c) \in Row /\ log' = Append(log, NewRow(c)) /\ log \in Seq(Row)
    BY <1>1, <1>3, NewRowTypes DEF AppendChange, TypeOK
  <2>2. PICK x \in Changes : x = Content(NewRow(c))
    BY <2>1 DEF Row, Content, Changes
  <2>3. feed' = Append(feed, x)
    BY <1>2, <2>1, <2>2, ContentsOfAppend
  <2>4. seen' = seen
    BY <1>3 DEF AppendChange, deviceVars
  <2>5. Feed!Publish(x)
    BY <2>3, <2>4 DEF Feed!Publish
  <2> QED
    BY <2>2, <2>5 DEF Feed!Next, Changes
<1>4. ASSUME NEW d \in Devices, Pull(d)
      PROVE  [Feed!Next]_(Feed!vars)
  <2> DEFINE k == cursor[d]
  <2>1. PICK S \in Pages(k) : seen' = [seen EXCEPT ![d] = @ \cup S]
    BY <1>4 DEF Pull
  <2>2. k \in 0 .. Len(log) /\ seen[d] = 1 .. k /\ log' = log /\ Len(log) \in Nat
    BY <1>1, <1>4, RowTypes DEF ReceivedPrefix, Pull
  <2>3. PICK t \in k .. Len(log) : S = k + 1 .. t
    BY <1>1, <2>2, PageIsNextRows
  <2>4. Cardinality(S) <= PageSize
    BY DEF Pages
  <2>5. feed' = feed
    BY <1>2, <2>2
  <2>6. CASE t = k
    <3>1. S = {}
      BY <2>2, <2>3, <2>6
    <3>2. seen' = seen
      BY <1>1, <2>1, <3>1 DEF TypeOK
    <3> QED
      BY <2>5, <3>2 DEF Feed!vars
  <2>7. CASE t # k
    <3>1. t - k \in 1 .. PageSize
      <4>1. t \in Int /\ k \in Int /\ k + 1 \in Int /\ k < t
        BY <2>2, <2>3, <2>7
      <4>2. Cardinality(k + 1 .. t) = t - (k + 1) + 1
        BY <4>1, FS_Interval
      <4> QED
        BY <2>2, <2>3, <2>4, <4>1, <4>2, PageSizeAssumption
    <3>2. k + (t - k) = t /\ t <= Len(feed) /\ k \in 0 .. Len(feed)
      BY <1>2, <2>2, <2>3
    <3>3. seen' = [seen EXCEPT ![d] = 1 .. k + (t - k)]
      <4>1. seen[d] \cup S = 1 .. t
        BY <2>2, <2>3
      <4> QED
        BY <2>1, <3>2, <4>1
    <3>4. Feed!Consume(d)
      BY <2>2, <2>5, <3>1, <3>2, <3>3 DEF Feed!Consume
    <3> QED
      BY <3>4 DEF Feed!Next
  <2> QED
    BY <2>6, <2>7
<1>5. CASE UNCHANGED <<log, seen>>
  BY <1>5 DEF Feed!vars
<1>6. \/ \E c \in Calls : AppendChange(c)
      \/ \E d \in Devices : Pull(d)
      \/ UNCHANGED <<log, seen>>
  BY DEF Next, Step, vars, deviceVars, Arrive, Retry, Resolve, ResolveBlind, Skip,
         NextVersion, NextVersionBlind, AppendFails, Notify, Respond, RespondBlind,
         Crash, Ack
<1> QED
  BY <1>3, <1>4, <1>5, <1>6

\* When pushes come one at a time and no query fails, every step of the service
\* is a step of the change feed or leaves it alone.
THEOREM SerialImplementsFeed ==
    ASSUME ~ Concurrent, "read" \notin Faults
    PROVE  Spec => Feed!Init /\ [][Feed!Next]_(Feed!vars)
<1>1. Init => Feed!Init
  BY DEF Init, Feed!Init
<1>2. FeedInv /\ [Next]_vars => [Feed!Next]_(Feed!vars)
  BY FeedStep
<1>3. FeedInv /\ [Next]_vars => FeedInv'
  BY FeedInvNext
<1> QED
  BY <1>1, <1>2, <1>3, FeedInvInit, PTL DEF Spec

-----------------------------------------------------------------------------
(* The action of a pulled change. *)

\* Whatever action was pushed, a device is sent ACTION_UNSPECIFIED: Append stores
\* the name of the enum value, and syncEntToProto knows other names.
PulledActionUnspecified ==
    \A d \in Devices : \A i \in seen[d] : ActionToProto(log[i].action) = 0

\* No name that Append stores is one that a pull knows (handler_sync.go:106).
THEOREM PulledActionsAreUnspecified == Spec => []PulledActionUnspecified
<1>1. ASSUME NEW a \in 0 .. 3
      PROVE  ActionToProto(ActionName[a]) = 0
  <2>1. ActionName[a] \in {"ACTION_UNSPECIFIED", "ACTION_CREATE", "ACTION_UPDATE",
                           "ACTION_DELETE"}
    BY DEF ActionName
  <2> QED
    BY <2>1 DEF ActionToProto
<1>2. TypeOK => PulledActionUnspecified
  <2> SUFFICES ASSUME TypeOK, NEW d \in Devices, NEW i \in seen[d]
               PROVE  ActionToProto(log[i].action) = 0
    BY DEF PulledActionUnspecified
  <2>1. i \in 1 .. Len(log) /\ log \in Seq(Row)
    BY DEF TypeOK
  <2>2. log[i] \in Row
    BY <2>1
  <2>3. log[i].action \in StoredActions
    BY <2>2 DEF Row
  <2>4. PICK a \in Actions : log[i].action = ActionName[a]
    BY <2>3 DEF StoredActions
  <2> QED
    BY <1>1, <2>4, ActionsAssumption
<1> QED
  BY <1>2, TypeCorrect, PTL

-----------------------------------------------------------------------------
(* What a step does to one call. *)

\* A call whose turn it is not is left as it was, unless the process dies.
LEMMA Bystander ==
    ASSUME TypeInv, [Next]_vars, NEW c \in Calls
    PROVE  \/ Arrive(c) \/ (\E o \in Calls : Retry(c, o)) \/ Step(c) \/ Crash
           \/ /\ pc'[c] = pc[c] /\ batch'[c] = batch[c] /\ root'[c] = root[c]
              /\ pos'[c] = pos[c] /\ conflicts'[c] = conflicts[c]
              /\ ver'[c] = ver[c] /\ accepted'[c] = accepted[c]
<1> DEFINE Same == /\ pc'[c] = pc[c] /\ batch'[c] = batch[c] /\ root'[c] = root[c]
                   /\ pos'[c] = pos[c] /\ conflicts'[c] = conflicts[c]
                   /\ ver'[c] = ver[c] /\ accepted'[c] = accepted[c]
<1> USE DEF TypeInv, TypeOK
<1>1. ASSUME NEW o \in Calls, o # c, Arrive(o) \/ \E p \in Calls : Retry(o, p)
      PROVE  Same
  BY <1>1 DEF Arrive, Retry
<1>2. ASSUME NEW o \in Calls, o # c, Resolve(o) \/ ResolveBlind(o) \/ Skip(o) \/ Notify(o)
      PROVE  Same
  BY <1>2 DEF Resolve, ResolveBlind, Skip, Notify, Judge, NextInBatch
<1>3. ASSUME NEW o \in Calls, o # c,
             \/ NextVersion(o) \/ NextVersionBlind(o) \/ AppendChange(o)
             \/ AppendFails(o) \/ Respond(o) \/ RespondBlind(o)
      PROVE  Same
  BY <1>3 DEF NextVersion, NextVersionBlind, AppendChange, AppendFails, Respond,
              RespondBlind
<1>4. ASSUME NEW x, Pull(x) \/ Ack(x)
      PROVE  Same
  BY <1>4 DEF Pull, Ack, callVars
<1>5. CASE UNCHANGED vars
  BY <1>5 DEF vars, callVars
<1> QED
  BY <1>1, <1>2, <1>3, <1>4, <1>5 DEF Next, Step

\* Rows are never changed or taken out; a new one is the one its call appends.
LEMMA TableSteps ==
    ASSUME TypeInv, [Next]_vars
    PROVE  /\ \A i \in DOMAIN log : i \in DOMAIN log' /\ log'[i] = log[i]
           /\ \A i \in DOMAIN log' :
                \/ i \in DOMAIN log
                \/ /\ i = Len(log) + 1
                   /\ \E c \in Calls : AppendChange(c) /\ log'[i] = NewRow(c)
<1>1. CASE log' = log
  BY <1>1
<1>2. ASSUME NEW c \in Calls, AppendChange(c)
      PROVE  /\ \A i \in DOMAIN log : i \in DOMAIN log' /\ log'[i] = log[i]
             /\ \A i \in DOMAIN log' :
                  \/ i \in DOMAIN log
                  \/ /\ i = Len(log) + 1
                     /\ AppendChange(c) /\ log'[i] = NewRow(c)
  BY <1>2, Appended
<1> QED
  BY <1>1, <1>2, LogSteps

\* The row a call appends is the change it is at; the call moves on to
\* the next change only when it has notified.
LEMMA NewRowFields ==
    ASSUME TypeInv, NEW c \in Calls, AppendChange(c)
    PROVE  /\ pos[c] \in DOMAIN batch[c]
           /\ NewRow(c).call = c
           /\ NewRow(c).at = pos[c]
           /\ NewRow(c).version = ver[c]
           /\ NewRow(c).etype = batch[c][pos[c]].etype
           /\ NewRow(c).eid = batch[c][pos[c]].eid
           /\ pc[c] = "append" /\ pc'[c] = "notify"
           /\ batch' = batch /\ root' = root /\ pos' = pos /\ conflicts' = conflicts
           /\ accepted'[c] = accepted[c] + 1
BY DEF AppendChange, NewRow, TypeInv, TypeOK, InBatch

-----------------------------------------------------------------------------
(* Conflicts are genuine. *)

\* A call logs nothing before it applies, and then its changes in the order of its
\* batch.
RowsInOrder ==
    \A i \in DOMAIN log : \A c \in Calls : log[i].call = c =>
        /\ log[i].at \in DOMAIN batch[c]
        /\ log[i].etype = batch[c][log[i].at].etype
        /\ log[i].eid = batch[c][log[i].at].eid
        /\ pc[c] \notin {"idle", "resolve"}
        /\ pc[c] \in {"apply", "append"} => log[i].at < pos[c]
        /\ pc[c] = "notify" => log[i].at <= pos[c]

\* A call is past every change it logged.
LEMMA RowsInOrderNext ==
    ASSUME TypeInv, RowsInOrder, [Next]_vars
    PROVE  RowsInOrder'
<1> SUFFICES ASSUME NEW i \in DOMAIN log', NEW c \in Calls, log'[i].call = c
             PROVE  /\ log'[i].at \in DOMAIN batch'[c]
                    /\ log'[i].etype = batch'[c][log'[i].at].etype
                    /\ log'[i].eid = batch'[c][log'[i].at].eid
                    /\ pc'[c] \notin {"idle", "resolve"}
                    /\ pc'[c] \in {"apply", "append"} => log'[i].at < pos'[c]
                    /\ pc'[c] = "notify" => log'[i].at <= pos'[c]
  BY DEF RowsInOrder
<1>1. CASE i \notin DOMAIN log
  <2>1. PICK o \in Calls : AppendChange(o) /\ log'[i] = NewRow(o)
    BY <1>1, TableSteps
  <2>2. o = c
    BY <2>1, NewRowFields
  <2>3. pos[c] \in Nat
    BY DEF TypeInv, TypeOK
  <2> QED
    BY <2>1, <2>2, <2>3, NewRowFields
<1>2. CASE i \in DOMAIN log
  <2>1. log'[i] = log[i]
    BY <1>2, TableSteps
  <2>2. /\ log[i].at \in DOMAIN batch[c]
        /\ log[i].etype = batch[c][log[i].at].etype
        /\ log[i].eid = batch[c][log[i].at].eid
        /\ pc[c] \notin {"idle", "resolve"}
        /\ pc[c] \in {"apply", "append"} => log[i].at < pos[c]
        /\ pc[c] = "notify" => log[i].at <= pos[c]
    BY <1>2, <2>1 DEF RowsInOrder
  <2>3. log[i].at \in Nat /\ pos[c] \in Nat
    BY <1>2, RowTypes DEF TypeInv, TypeOK, Row
  <2>4. CASE Arrive(c) \/ (\E o \in Calls : Retry(c, o)) \/ Resolve(c) \/ ResolveBlind(c)
    BY <2>2, <2>4 DEF Arrive, Retry, MayStart, Resolve, ResolveBlind
  <2>5. CASE Skip(c) \/ Notify(c)
    BY <2>1, <2>2, <2>3, <2>5, SMTT(20) DEF Skip, Notify, NextInBatch, TypeInv, TypeOK
  <2>6. CASE NextVersion(c) \/ NextVersionBlind(c)
    BY <2>1, <2>2, <2>6 DEF NextVersion, NextVersionBlind, TypeInv, TypeOK
  <2>7. CASE AppendChange(c)
    BY <2>1, <2>2, <2>3, <2>7, NewRowFields
  <2>8. CASE AppendFails(c) \/ Respond(c) \/ RespondBlind(c)
    BY <2>1, <2>2, <2>8 DEF AppendFails, Respond, RespondBlind, TypeInv, TypeOK
  <2>9. CASE Crash
    BY <2>1, <2>2, <2>9 DEF Crash, TypeInv, TypeOK
  <2> QED
    BY <2>1, <2>2, <2>4, <2>5, <2>6, <2>7, <2>8, <2>9, Bystander DEF Step
<1> QED
  BY <1>1, <1>2

\* A call judges its changes in order, and appends none that a conflict skips.
JudgedInOrder ==
    \A c \in Calls :
        /\ pc[c] = "idle" => conflicts[c] = {}
        /\ pc[c] = "resolve" => \A k \in conflicts[c] : k.at < pos[c]
        /\ pc[c] \in {"append", "notify"} => ~ ShouldSkip(c)

\* What a step of Resolve, blind or not, does to its call.
LEMMA ResolveSteps ==
    ASSUME TypeInv, NEW c \in Calls, Resolve(c) \/ ResolveBlind(c)
    PROVE  /\ pc[c] = "resolve" /\ pos[c] \in DOMAIN batch[c]
           /\ pos[c] \in Nat /\ Len(batch[c]) \in Nat
           /\ DOMAIN batch[c] = 1 .. Len(batch[c])
           /\ batch' = batch /\ log' = log /\ root' = root /\ accepted' = accepted
           /\ \/ pos[c] = Len(batch[c]) /\ pc'[c] = "apply" /\ pos'[c] = 1
              \/ pos[c] # Len(batch[c]) /\ pc'[c] = "resolve" /\ pos'[c] = pos[c] + 1
<1>1. /\ pc[c] = "resolve" /\ batch' = batch /\ log' = log /\ root' = root
      /\ accepted' = accepted
  BY DEF Resolve, ResolveBlind
<1>2. pos[c] \in 1 .. Len(batch[c]) /\ batch[c] \in Seq(Change)
  BY <1>1 DEF TypeInv, TypeOK, InBatch
<1>3. Len(batch[c]) \in Nat /\ DOMAIN batch[c] = 1 .. Len(batch[c]) /\ pos[c] \in Nat
  BY <1>2, LenProperties
<1>4. NextInBatch(c, "resolve", "apply")
  BY DEF Resolve, ResolveBlind
<1>5. \/ pos[c] = Len(batch[c]) /\ pc'[c] = "apply" /\ pos'[c] = 1
      \/ pos[c] # Len(batch[c]) /\ pc'[c] = "resolve" /\ pos'[c] = pos[c] + 1
  BY <1>4 DEF NextInBatch, TypeInv, TypeOK
<1> QED
  BY <1>1, <1>2, <1>3, <1>5

\* What Judge records: nothing, or the one conflict of the change with the latest
\* version of its entity.
LEMMA JudgeSteps ==
    ASSUME TypeInv, NEW c \in Calls, Resolve(c) \/ ResolveBlind(c),
           NEW latest, latest = LatestVersion(batch[c][pos[c]].etype, batch[c][pos[c]].eid)
    PROVE  LET k == [at |-> pos[c], server |-> latest]
           IN  /\ latest \in Nat
               /\ \/ conflicts'[c] = conflicts[c]
                  \/ /\ conflicts'[c] = conflicts[c] \cup {k}
                     /\ latest > 0 /\ batch[c][pos[c]].base < latest
               /\ \/ Fault("read")
                  \/ latest = 0
                  \/ ~ (batch[c][pos[c]].base < latest)
                  \/ conflicts'[c] = conflicts[c] \cup {k}
<1>1. latest \in Nat
  BY LatestVersionIsLatest DEF TypeInv
<1>c. conflicts = [d \in Calls |-> conflicts[d]]
  BY DEF TypeInv, TypeOK
<1>2. CASE Judge(c, latest)
  <2>1. conflicts'[c] = IF latest > 0 /\ batch[c][pos[c]].base < latest
                          THEN conflicts[c] \cup {[at |-> pos[c], server |-> latest]}
                          ELSE conflicts[c]
    BY <1>2, <1>c DEF Judge
  <2>2. CASE latest > 0 /\ batch[c][pos[c]].base < latest
    BY <1>1, <2>1, <2>2
  <2>3. CASE ~ (latest > 0 /\ batch[c][pos[c]].base < latest)
    <3>1. conflicts'[c] = conflicts[c]
      BY <2>1, <2>3
    <3>2. latest = 0 \/ ~ (batch[c][pos[c]].base < latest)
      BY <1>1, <2>3
    <3> QED
      BY <1>1, <3>1, <3>2
  <2> QED
    BY <2>2, <2>3
<1>3. CASE Judge(c, 0) /\ Fault("read")
  <2>1. conflicts'[c] = conflicts[c]
    BY <1>3, <1>c DEF Judge
  <2> QED
    BY <1>1, <1>3, <2>1
<1> QED
  BY <1>2, <1>3 DEF Resolve, ResolveBlind

\* Judging comes before applying, change by change; a change that conflicts is
\* skipped.
LEMMA JudgedInOrderNext ==
    ASSUME TypeInv, JudgedInOrder, [Next]_vars
    PROVE  JudgedInOrder'
<1> SUFFICES ASSUME NEW c \in Calls
             PROVE  /\ pc'[c] = "idle" => conflicts'[c] = {}
                    /\ pc'[c] = "resolve" => \A k \in conflicts'[c] : k.at < pos'[c]
                    /\ pc'[c] \in {"append", "notify"} => ~ ShouldSkip(c)'
  BY DEF JudgedInOrder
<1>1. /\ pc[c] = "idle" => conflicts[c] = {}
      /\ pc[c] = "resolve" => \A k \in conflicts[c] : k.at < pos[c]
      /\ pc[c] \in {"append", "notify"} => ~ ShouldSkip(c)
  BY DEF JudgedInOrder
<1>2. CASE Arrive(c) \/ \E o \in Calls : Retry(c, o)
  BY <1>1, <1>2 DEF Arrive, Retry, MayStart, FirstStep, TypeInv, TypeOK
<1>3. CASE Resolve(c) \/ ResolveBlind(c)
  <2>1. \A k \in conflicts[c] : k.at \in Nat
    BY DEF TypeInv, TypeOK, Conflict
  <2>2. \A k \in conflicts'[c] : k \in conflicts[c] \/ k.at = pos[c]
    BY <1>3, JudgeSteps
  <2>3. pc'[c] = "resolve" => pos'[c] = pos[c] + 1
    BY <1>3, ResolveSteps
  <2> QED
    BY <1>1, <1>3, <2>1, <2>2, <2>3, ResolveSteps
<1>4. CASE Skip(c) \/ Notify(c)
  BY <1>4 DEF Skip, Notify, NextInBatch, TypeInv, TypeOK
<1>5. CASE NextVersion(c) \/ NextVersionBlind(c)
  BY <1>5 DEF NextVersion, NextVersionBlind, ShouldSkip, TypeInv, TypeOK
<1>6. CASE AppendChange(c)
  BY <1>1, <1>6, NewRowFields DEF ShouldSkip
<1>7. CASE AppendFails(c) \/ Respond(c) \/ RespondBlind(c)
  BY <1>7 DEF AppendFails, Respond, RespondBlind, TypeInv, TypeOK
<1>8. CASE Crash
  BY <1>1, <1>8 DEF Crash, ShouldSkip, TypeInv, TypeOK, Running
<1>9. CASE /\ pc'[c] = pc[c] /\ batch'[c] = batch[c] /\ pos'[c] = pos[c]
           /\ conflicts'[c] = conflicts[c]
  BY <1>1, <1>9 DEF ShouldSkip
<1> QED
  BY <1>2, <1>3, <1>4, <1>5, <1>6, <1>7, <1>8, <1>9, Bystander DEF Step

\* What makes ConflictsGenuine inductive: while a call judges it has no rows, and
\* while it appends it has judged.
ConflictInv == TypeInv /\ RowsInOrder /\ JudgedInOrder /\ ConflictsGenuine

\* A conflict names a row that stays, of another call; its change is never logged.
LEMMA ConflictsGenuineNext ==
    ASSUME ConflictInv, [Next]_vars
    PROVE  ConflictsGenuine'
<1> DEFINE Genuine(c, k) ==
             LET ch == batch[c][k.at]
             IN  /\ k.at \in DOMAIN batch[c]
                 /\ k.server > ch.base
                 /\ \E i \in RowsOf(ch.etype, ch.eid) :
                     log[i].version = k.server /\ log[i].call # c
                 /\ \A i \in DOMAIN log : ~ (log[i].call = c /\ log[i].at = k.at)
<1>0. TypeInv /\ RowsInOrder /\ JudgedInOrder /\ ConflictsGenuine
  BY DEF ConflictInv
<1> SUFFICES ASSUME NEW c \in Calls, NEW k \in conflicts'[c]
             PROVE  Genuine(c, k)'
  BY DEF ConflictsGenuine
<1>1. ASSUME k \in conflicts[c], batch'[c] = batch[c],
             \A i \in DOMAIN log' : i \notin DOMAIN log =>
                ~ (log'[i].call = c /\ log'[i].at = k.at)
      PROVE  Genuine(c, k)'
  <2>1. Genuine(c, k)
    BY <1>0, <1>1 DEF ConflictsGenuine
  <2>2. \A i \in DOMAIN log : i \in DOMAIN log' /\ log'[i] = log[i]
    BY <1>0, TableSteps
  <2> QED
    BY <1>1, <2>1, <2>2 DEF RowsOf
<1>2. CASE Arrive(c) \/ \E o \in Calls : Retry(c, o)
  BY <1>0, <1>2 DEF JudgedInOrder, Arrive, Retry, MayStart
<1>3. CASE Resolve(c) \/ ResolveBlind(c)
  <2>1. CASE k \in conflicts[c]
    BY <1>0, <1>1, <1>3, <2>1, ResolveSteps
  <2>2. CASE k \notin conflicts[c]
    <3> DEFINE ch == batch[c][pos[c]]
    <3>1. /\ k.at = pos[c] /\ k.at \in DOMAIN batch[c]
          /\ k.server > 0 /\ k.server > ch.base
          /\ k.server = LatestVersion(ch.etype, ch.eid)
          /\ batch' = batch /\ log' = log /\ pc[c] = "resolve"
      BY <1>0, <1>3, <2>2, ResolveSteps, JudgeSteps
    <3>2. PICK i \in RowsOf(ch.etype, ch.eid) : log[i].version = k.server
      BY <1>0, <3>1, LatestVersionIsLatest DEF TypeInv
    <3>3. \A j \in DOMAIN log : log[j].call # c
      BY <1>0, <3>1 DEF RowsInOrder
    <3>4. i \in DOMAIN log
      BY <3>2 DEF RowsOf
    <3> QED
      BY <3>1, <3>2, <3>3, <3>4 DEF RowsOf
  <2> QED
    BY <2>1, <2>2
<1>4. CASE AppendChange(c)
  <2>1. k \in conflicts[c] /\ ~ ShouldSkip(c) /\ batch' = batch
    BY <1>0, <1>4, NewRowFields DEF JudgedInOrder
  <2>2. k.at # pos[c]
    BY <2>1 DEF ShouldSkip
  <2>3. \A i \in DOMAIN log' : i \notin DOMAIN log => log'[i] = NewRow(c)
    BY <1>0, <1>4, Appended
  <2> QED
    BY <1>0, <1>1, <1>4, <2>1, <2>2, <2>3, NewRowFields
<1>5. ASSUME conflicts'[c] = conflicts[c], batch'[c] = batch[c], ~ AppendChange(c)
      PROVE  Genuine(c, k)'
  <2>1. \A i \in DOMAIN log' : i \notin DOMAIN log => log'[i].call # c
    BY <1>0, <1>5, TableSteps, NewRowFields
  <2> QED
    BY <1>1, <1>5, <2>1
<1>6. CASE \/ Skip(c) \/ Notify(c) \/ NextVersion(c) \/ NextVersionBlind(c)
           \/ AppendFails(c) \/ Respond(c) \/ RespondBlind(c) \/ Crash
  BY <1>4, <1>5, <1>6 DEF Skip, Notify, NextVersion, NextVersionBlind,
     AppendFails, Respond, RespondBlind, Crash
<1> QED
  BY <1>0, <1>2, <1>3, <1>4, <1>5, <1>6, Bystander DEF Step

\* At first nothing is judged or logged.
LEMMA ConflictInvInit == Init => ConflictInv
<1> SUFFICES ASSUME Init PROVE ConflictInv
  OBVIOUS
<1>1. TypeInv /\ DOMAIN log = {}
  BY TypeInvInit DEF Init
<1> QED
  BY <1>1 DEF Init, ConflictInv, RowsInOrder, JudgedInOrder, ConflictsGenuine

\* Every step keeps the invariant.
LEMMA ConflictInvNext == ConflictInv /\ [Next]_vars => ConflictInv'
BY TypeInvNext, RowsInOrderNext, JudgedInOrderNext, ConflictsGenuineNext DEF ConflictInv

\* A conflict that is reported is one: the row it names was written by another
\* call, the change was not based on it and is not logged.  No hypothesis on the
\* faults or on the interleaving.
THEOREM ReportedConflictsAreGenuine == Spec => []ConflictsGenuine
<1>1. ConflictInv => ConflictsGenuine
  BY DEF ConflictInv
<1> QED
  BY <1>1, ConflictInvInit, ConflictInvNext, PTL DEF Spec

-----------------------------------------------------------------------------
(* The changes of one push stay in order. *)

\* A query that failed is not forgotten, and one that fails is counted.
LEMMA QueriesSteps ==
    ASSUME TypeInv, [Next]_vars, QueriesWorked'
    PROVE  QueriesWorked /\ ~ Fault("read")
<1>1. \/ faults' = faults /\ ~ Fault("read")
      \/ \E kind \in {"read", "write", "crash"} :
            faults' = Append(faults, kind) /\ (Fault("read") => kind = "read")
  <2>1. faults \in Seq(Faults)
    BY DEF TypeInv, TypeOK
  <2>2. \A k, l : Append(faults, k) = Append(faults, l) => k = l
    BY <2>1
  <2> QED
    BY <2>1, <2>2
    DEF Fault, Next, Step, vars, callVars, deviceVars, Arrive, Retry, Resolve, ResolveBlind,
        Skip, NextVersion, NextVersionBlind, AppendFails, AppendChange, Notify, Respond,
        RespondBlind, Crash, Pull, Ack
<1> QED
  BY <1>1 DEF QueriesWorked, Contains

\* The version a call is about to append is above those of the rows it appended.
PendingIsNewest ==
    QueriesWorked =>
        \A c \in Calls : pc[c] = "append" =>
            \A i \in DOMAIN log : log[i].call = c => log[i].version < ver[c]

\* The rows of a push come in the order of its batch, the pending one included.
OrderInv == TypeInv /\ RowsInOrder /\ PendingIsNewest /\ OwnChangesOrdered

\* The next version was read from a table that held the earlier rows of the
\* call, and no other call appends rows in its name.
LEMMA OrderInvNext == OrderInv /\ [Next]_vars => OrderInv'
<1> SUFFICES ASSUME OrderInv, [Next]_vars
             PROVE  OrderInv'
  OBVIOUS
<1>1. TypeInv /\ RowsInOrder /\ TypeInv' /\ RowsInOrder'
  BY TypeInvNext, RowsInOrderNext DEF OrderInv
<1>2. PendingIsNewest'
  <2> SUFFICES ASSUME QueriesWorked', NEW c \in Calls, pc'[c] = "append",
                      NEW i \in DOMAIN log', log'[i].call = c
               PROVE  log'[i].version < ver'[c]
    BY DEF PendingIsNewest
  <2>1. QueriesWorked /\ ~ Fault("read")
    BY <1>1, QueriesSteps
  <2>2. i \in DOMAIN log /\ log'[i] = log[i]
    <3>1. ASSUME NEW o \in Calls, AppendChange(o), log'[i] = NewRow(o)
          PROVE  FALSE
      BY <1>1, <3>1, NewRowFields
    <3> QED
      BY <1>1, <3>1, TableSteps
  <2>3. CASE pc[c] = "append" /\ ver'[c] = ver[c]
    BY <2>1, <2>2, <2>3 DEF OrderInv, PendingIsNewest
  <2>4. CASE NextVersion(c)
    <3>1. ver'[c] = Current + 1
      BY <1>1, <2>4 DEF NextVersion, NextFree, TypeInv, TypeOK
    <3>2. log[i].version <= Current /\ log[i].version \in Nat /\ Current \in Nat
      BY <1>1, <2>2, CurrentIsLatest, RowTypes DEF TypeInv
    <3> QED
      BY <2>2, <3>1, <3>2
  <2>5. CASE NextVersionBlind(c)
    BY <2>1, <2>5 DEF NextVersionBlind
  <2> QED
    BY <1>1, <2>3, <2>4, <2>5, PendingSteps
<1>3. OwnChangesOrdered'
  <2> SUFFICES ASSUME QueriesWorked', NEW i \in DOMAIN log', NEW j \in DOMAIN log',
                      i < j, log'[i].call = log'[j].call
               PROVE  log'[i].at < log'[j].at /\ log'[i].version < log'[j].version
    BY DEF OwnChangesOrdered
  <2>1. QueriesWorked
    BY <1>1, QueriesSteps
  <2>2. DOMAIN log = 1 .. Len(log) /\ Len(log) \in Nat
    BY <1>1, RowTypes DEF TypeInv
  <2>3. CASE j \in DOMAIN log
    <3>1. i \in DOMAIN log
      BY <1>1, <2>2, <2>3, TableSteps
    <3> QED
      BY <1>1, <2>1, <2>3, <3>1, TableSteps DEF OrderInv, OwnChangesOrdered
  <2>4. CASE j \notin DOMAIN log
    <3>1. PICK c \in Calls : AppendChange(c) /\ log'[j] = NewRow(c)
      BY <1>1, <2>4, TableSteps
    <3>2. i \in DOMAIN log /\ log'[i] = log[i]
      <4>1. j = Len(log) + 1
        BY <1>1, <2>4, TableSteps
      <4> QED
        BY <1>1, <2>2, <4>1, TableSteps
    <3>3. /\ log[i].call = c /\ pc[c] = "append"
          /\ log'[j].at = pos[c] /\ log'[j].version = ver[c]
      BY <1>1, <3>1, <3>2, NewRowFields
    <3>4. log[i].at < pos[c]
      BY <1>1, <3>2, <3>3 DEF RowsInOrder
    <3>5. log[i].version < ver[c]
      BY <2>1, <3>2, <3>3 DEF OrderInv, PendingIsNewest
    <3> QED
      BY <3>2, <3>3, <3>4, <3>5
  <2> QED
    BY <2>3, <2>4
<1> QED
  BY <1>1, <1>2, <1>3 DEF OrderInv

\* The changes of one push get increasing versions in the order of its batch,
\* whatever other pushes insert between them.
THEOREM PushesStayInOrder == Spec => []OwnChangesOrdered
<1>1. Init => OrderInv
  <2> SUFFICES ASSUME Init PROVE OrderInv
    OBVIOUS
  <2>1. TypeInv /\ DOMAIN log = {}
    BY TypeInvInit DEF Init
  <2> QED
    BY <2>1 DEF Init, OrderInv, RowsInOrder, PendingIsNewest, OwnChangesOrdered
<1>2. OrderInv => OwnChangesOrdered
  BY DEF OrderInv
<1> QED
  BY <1>1, <1>2, OrderInvNext, PTL DEF Spec

-----------------------------------------------------------------------------
(* A batch that is sent again. *)

\* The attempts at a batch carry the same changes, and one at most is running.
Attempts ==
    /\ \A c \in Calls : pc[c] = "idle" => root[c] = c
    /\ \A c \in Calls : pc[c] # "idle" => pc[root[c]] # "idle"
    /\ \A c, o \in Calls : root[c] = root[o] /\ pc[c] # "idle" /\ pc[o] # "idle" =>
        batch[c] = batch[o]
    /\ \A c, o \in Calls : root[c] = root[o] /\ pc[c] \in Running /\ pc[o] \in Running =>
        c = o

\* A step of PushChanges, and a crash, keep what was sent and start no call.
LEMMA StepsKeepBatches ==
    ASSUME TypeInv, [Next]_vars, ~ \E c \in Calls : Arrive(c) \/ \E o \in Calls : Retry(c, o)
    PROVE  /\ batch' = batch /\ root' = root
           /\ \A c \in Calls : pc'[c] = "idle" <=> pc[c] = "idle"
           /\ \A c \in Calls : pc'[c] \in Running => pc[c] \in Running
<1> USE DEF TypeInv, TypeOK
<1>1. ASSUME NEW c \in Calls, Resolve(c) \/ ResolveBlind(c) \/ Skip(c) \/ Notify(c)
      PROVE  /\ batch' = batch /\ root' = root
             /\ pc[c] \in Running
             /\ \E s \in Running : pc' = [pc EXCEPT ![c] = s]
  BY <1>1 DEF Resolve, ResolveBlind, Skip, Notify, NextInBatch, Running
<1>2. ASSUME NEW c \in Calls, Resolve(c) \/ ResolveBlind(c) \/ Skip(c) \/ Notify(c)
      PROVE  /\ batch' = batch /\ root' = root
             /\ \A o \in Calls : pc'[o] = "idle" <=> pc[o] = "idle"
             /\ \A o \in Calls : pc'[o] \in Running => pc[o] \in Running
  BY <1>1, <1>2 DEF Running
<1>3. ASSUME NEW c \in Calls,
             \/ NextVersion(c) \/ NextVersionBlind(c) \/ AppendChange(c)
             \/ AppendFails(c) \/ Respond(c) \/ RespondBlind(c)
      PROVE  /\ batch' = batch /\ root' = root
             /\ \A o \in Calls : pc'[o] = "idle" <=> pc[o] = "idle"
             /\ \A o \in Calls : pc'[o] \in Running => pc[o] \in Running
  BY <1>3, SMTT(30)
  DEF NextVersion, NextVersionBlind, AppendChange, AppendFails, Respond, RespondBlind,
      Running
<1>4. CASE Crash
  BY <1>4 DEF Crash, Running
<1>5. ASSUME NEW x, Pull(x) \/ Ack(x)
      PROVE  batch' = batch /\ root' = root /\ pc' = pc
  BY <1>5 DEF Pull, Ack, callVars
<1>6. CASE UNCHANGED vars
  BY <1>6 DEF vars, callVars
<1> QED
  BY <1>2, <1>3, <1>4, <1>5, <1>6 DEF Next, Step

\* A call that arrives starts at its own batch, which no other call has sent.
LEMMA ArriveSteps ==
    ASSUME TypeInv, Attempts, NEW c \in Calls, Arrive(c)
    PROVE  /\ pc[c] = "idle" /\ pc'[c] \in {"resolve", "respond"}
           /\ \A p \in Calls : p # c => pc'[p] = pc[p] /\ batch'[p] = batch[p]
           /\ log' = log /\ pos' = pos /\ conflicts' = conflicts /\ root' = root
           /\ root[c] = c /\ \A p \in Calls : p # c => root[p] # c
<1> USE DEF TypeInv, TypeOK
<1>1. pc[c] = "idle" /\ root[c] = c /\ \A p \in Calls : p # c => root[p] # c
  BY DEF Attempts, Arrive, MayStart
<1> QED
  BY <1>1 DEF Arrive, FirstStep

\* A call that retries starts at the batch of one that ended, when no attempt at
\* that batch is running.
LEMMA RetrySteps ==
    ASSUME TypeInv, Attempts, NEW c \in Calls, NEW o \in Calls, Retry(c, o)
    PROVE  /\ pc[c] = "idle" /\ pc'[c] = "resolve" /\ pc[o] \in Ended /\ o # c
           /\ \A p \in Calls : p # c => /\ pc'[p] = pc[p] /\ batch'[p] = batch[p]
                                       /\ root'[p] = root[p]
           /\ log' = log /\ pos' = pos /\ conflicts' = conflicts
           /\ root'[c] = root[o] /\ batch'[c] = batch[o] /\ root[o] # c
           /\ \A p \in Calls : root[p] = root[o] => pc[p] \notin Running
<1>1. /\ pc[c] = "idle" /\ pc'[c] = "resolve" /\ pc[o] \in Ended /\ o # c
      /\ \A p \in Calls : p # c => /\ pc'[p] = pc[p] /\ batch'[p] = batch[p]
                                  /\ root'[p] = root[p]
      /\ log' = log /\ pos' = pos /\ conflicts' = conflicts
      /\ root'[c] = root[o] /\ batch'[c] = batch[o]
      /\ \A p \in Calls : root[p] = root[o] => pc[p] \notin Running
  BY DEF Retry, MayStart, Ended, TypeInv, TypeOK
<1>2. root[o] # c
  BY <1>1 DEF Attempts, Ended
<1> QED
  BY <1>1, <1>2

\* Starting a call, the only step that adds an attempt, keeps them apart.
LEMMA AttemptsNext ==
    ASSUME TypeInv, Attempts, [Next]_vars
    PROVE  Attempts'
<1>0. \A c \in Calls : root[c] \in Calls
  BY DEF TypeInv, TypeOK
<1>1. CASE ~ \E c \in Calls : Arrive(c) \/ \E o \in Calls : Retry(c, o)
  BY <1>0, <1>1, StepsKeepBatches DEF Attempts
<1>2. ASSUME NEW c \in Calls, Arrive(c)
      PROVE  Attempts'
  BY <1>0, <1>2, ArriveSteps DEF Attempts
<1>3. ASSUME NEW c \in Calls, NEW o \in Calls, Retry(c, o)
      PROVE  Attempts'
  BY <1>0, <1>3, RetrySteps DEF Attempts, Ended
<1> QED
  BY <1>1, <1>2, <1>3

\* The base of a change is 0 or a version in the table: a device learns no other.
BasesKnown ==
    \A c \in Calls : \A n \in DOMAIN batch[c] :
        batch[c][n].base = 0 \/ \E i \in DOMAIN log : batch[c][n].base = log[i].version

\* The base of a change is drawn from the table when its call arrives.
LEMMA BasesKnownNext ==
    ASSUME TypeInv, BasesKnown, [Next]_vars
    PROVE  BasesKnown'
<1> SUFFICES ASSUME NEW c \in Calls, NEW n \in DOMAIN batch'[c]
             PROVE  \/ batch'[c][n].base = 0
                    \/ \E i \in DOMAIN log : batch'[c][n].base = log[i].version
  BY TableSteps DEF BasesKnown
<1>1. CASE \E o \in Calls : batch'[c] = batch[o]
  BY <1>1 DEF BasesKnown
<1>2. CASE Arrive(c)
  <2> DEFINE New == [etype : EntityTypes, eid : EntityIds, action : Actions,
                     base : {0} \cup Versions]
  <2>1. PICK b \in SeqOf(New, MaxBatch) : batch' = [batch EXCEPT ![c] = b]
    BY <1>2 DEF Arrive
  <2>2. PICK m \in Nat : b \in [1 .. m -> New]
    BY MaxBatchAssumption DEF SeqOf
  <2>3. batch'[c] = b
    BY <2>1 DEF TypeInv, TypeOK
  <2>4. b[n] \in New
    <3> HIDE DEF New
    <3> QED
      BY <2>2, <2>3
  <2>5. b[n].base = 0 \/ b[n].base \in Versions
    BY <2>4
  <2> QED
    BY <2>3, <2>5 DEF Versions
<1>3. ASSUME NEW o \in Calls, Retry(c, o)
      PROVE  batch'[c] = batch[o]
  BY <1>3 DEF Retry, TypeInv, TypeOK
<1>4. ASSUME Step(c) \/ Crash
      PROVE  batch'[c] = batch[c]
  BY <1>4 DEF Step, Resolve, ResolveBlind, Skip, NextVersion, NextVersionBlind,
     AppendChange, AppendFails, Notify, Respond, RespondBlind, Crash
<1> QED
  BY <1>1, <1>2, <1>3, <1>4, Bystander

\* A row is newer than what its change was based on.
RowsAreNewer ==
    QueriesWorked =>
        /\ \A i \in DOMAIN log, c \in Calls :
            log[i].call = c => batch[c][log[i].at].base < log[i].version
        /\ \A c \in Calls : pc[c] = "append" => batch[c][pos[c]].base < ver[c]

\* The batch of a call changes only when it starts.
LEMMA BatchKept ==
    ASSUME TypeInv, [Next]_vars, NEW c \in Calls, pc[c] # "idle"
    PROVE  batch'[c] = batch[c] /\ root'[c] = root[c] /\ pc'[c] # "idle"
<1>1. ASSUME Step(c)
      PROVE  batch'[c] = batch[c] /\ root'[c] = root[c] /\ pc'[c] # "idle"
  BY <1>1 DEF Step, Resolve, ResolveBlind, Skip, NextVersion, NextVersionBlind,
     AppendChange, AppendFails, Notify, Respond, RespondBlind, NextInBatch, TypeInv, TypeOK
<1>2. CASE Crash
  BY <1>2 DEF Crash
<1> QED
  BY <1>1, <1>2, Bystander DEF Arrive, Retry, MayStart

\* A version is read after the call arrived, so it is above every base.
LEMMA RowsAreNewerNext ==
    ASSUME TypeInv, RowsInOrder, BasesKnown, RowsAreNewer, [Next]_vars
    PROVE  RowsAreNewer'
<1> SUFFICES ASSUME QueriesWorked'
             PROVE  /\ \A i \in DOMAIN log', c \in Calls :
                        log'[i].call = c => batch'[c][log'[i].at].base < log'[i].version
                    /\ \A c \in Calls : pc'[c] = "append" => batch'[c][pos'[c]].base < ver'[c]
  BY DEF RowsAreNewer
<1>1. QueriesWorked /\ ~ Fault("read")
  BY QueriesSteps
<1>2. ASSUME NEW i \in DOMAIN log', NEW c \in Calls, log'[i].call = c
      PROVE  batch'[c][log'[i].at].base < log'[i].version
  <2>1. CASE i \in DOMAIN log
    <3>1. log'[i] = log[i] /\ pc[c] # "idle"
      BY <1>2, <2>1, TableSteps DEF RowsInOrder
    <3> QED
      BY <1>1, <1>2, <2>1, <3>1, BatchKept DEF RowsAreNewer
  <2>2. CASE i \notin DOMAIN log
    <3>1. PICK o \in Calls : AppendChange(o) /\ log'[i] = NewRow(o)
      BY <2>2, TableSteps
    <3> QED
      BY <1>1, <1>2, <3>1, NewRowFields DEF RowsAreNewer
  <2> QED
    BY <2>1, <2>2
<1>3. ASSUME NEW c \in Calls, pc'[c] = "append"
      PROVE  batch'[c][pos'[c]].base < ver'[c]
  <2>1. CASE NextVersion(c)
    <3>1. ver'[c] = Current + 1 /\ batch' = batch /\ pos' = pos /\ pc[c] = "apply"
      BY <2>1 DEF NextVersion, NextFree, TypeInv, TypeOK
    <3>2. pos[c] \in DOMAIN batch[c]
      BY <3>1 DEF TypeInv, TypeOK, InBatch
    <3>3. /\ Current \in Nat /\ \A i \in DOMAIN log : log[i].version <= Current
          /\ \A i \in DOMAIN log : log[i].version \in Nat
      BY CurrentIsLatest, RowTypes DEF TypeInv
    <3>4. \/ batch[c][pos[c]].base = 0
          \/ \E i \in DOMAIN log : batch[c][pos[c]].base = log[i].version
      BY <3>2 DEF BasesKnown
    <3> QED
      BY <3>1, <3>3, <3>4
  <2>2. CASE NextVersionBlind(c)
    BY <1>1, <2>2 DEF NextVersionBlind
  <2>3. CASE pc[c] = "append" /\ ver'[c] = ver[c]
    <3>1. batch'[c] = batch[c]
      BY <2>3, BatchKept
    <3>2. pos'[c] = pos[c]
      BY <1>3, <2>3, Bystander DEF Arrive, Retry, MayStart, Step, Resolve, ResolveBlind,
         Skip, NextVersion, NextVersionBlind, AppendChange, AppendFails, Notify,
         Respond, RespondBlind, Crash
    <3> QED
      BY <1>1, <2>3, <3>1, <3>2 DEF RowsAreNewer
  <2> QED
    BY <1>3, <2>1, <2>2, <2>3, PendingSteps
<1> QED
  BY <1>2, <1>3

\* Resolve has gone over the n-th change of a running call.
Judged(c, n) == pc[c] \in Running /\ (pc[c] = "resolve" => n < pos[c])

\* A step of a running call judges one change at most: the one Resolve is at.
LEMMA JudgedSteps ==
    ASSUME TypeInv, [Next]_vars, NEW c \in Calls, pc[c] # "idle",
           NEW n \in DOMAIN batch[c], Judged(c, n)'
    PROVE  \/ Judged(c, n) /\ conflicts[c] \subseteq conflicts'[c]
           \/ n = pos[c] /\ (Resolve(c) \/ ResolveBlind(c))
<1>1. CASE Resolve(c) \/ ResolveBlind(c)
  <2>1. conflicts[c] \subseteq conflicts'[c]
    BY <1>1, JudgeSteps
  <2> QED
    BY <1>1, <2>1, ResolveSteps DEF Judged, Running
<1>2. CASE \/ Skip(c) \/ NextVersion(c) \/ NextVersionBlind(c) \/ AppendChange(c)
           \/ AppendFails(c) \/ Notify(c) \/ Respond(c) \/ RespondBlind(c)
  <2>1. pc[c] \in {"apply", "append", "notify", "respond"} /\ conflicts' = conflicts
    BY <1>2 DEF Skip, NextVersion, NextVersionBlind, AppendChange, AppendFails, Notify,
       Respond, RespondBlind
  <2> QED
    BY <2>1 DEF Judged, Running
<1>3. CASE Crash
  BY <1>3 DEF Crash, Judged, Running, TypeInv, TypeOK
<1>4. CASE pc'[c] = pc[c] /\ pos'[c] = pos[c] /\ conflicts'[c] = conflicts[c]
  BY <1>4 DEF Judged
<1> QED
  BY <1>1, <1>2, <1>3, <1>4, Bystander DEF Step, Arrive, Retry, MayStart

\* What an earlier attempt logged is a conflict for the attempt that is running.
EarlierIsConflict ==
    QueriesWorked =>
        \A c, o \in Calls, i \in DOMAIN log :
            /\ log[i].call = o /\ o # c /\ root[o] = root[c]
            /\ Judged(c, log[i].at)
            => \E k \in conflicts[c] : k.at = log[i].at

\* What makes LoggedOnce inductive.
RetryInv ==
    /\ TypeInv /\ RowsInOrder /\ JudgedInOrder /\ Attempts
    /\ BasesKnown /\ RowsAreNewer /\ EarlierIsConflict

\* When a running attempt judges a change that an earlier attempt logged, that row
\* is newer than the base of the change: Judge finds the conflict.
LEMMA EarlierIsConflictNext ==
    ASSUME RetryInv, [Next]_vars
    PROVE  EarlierIsConflict'
<1>0. TypeInv /\ RowsInOrder /\ Attempts /\ RowsAreNewer
  BY DEF RetryInv
<1> SUFFICES ASSUME QueriesWorked', NEW c \in Calls, NEW o \in Calls,
                    NEW i \in DOMAIN log', log'[i].call = o, o # c, root'[o] = root'[c],
                    Judged(c, log[i].at)'
             PROVE  \E k \in conflicts'[c] : k.at = log'[i].at
  BY DEF EarlierIsConflict, Judged
<1>1. QueriesWorked /\ ~ Fault("read")
  BY <1>0, QueriesSteps
<1>2. CASE \E p \in Calls : Arrive(p)
  <2>1. PICK p \in Calls : Arrive(p)
    BY <1>2
  <2>2. log' = log /\ root' = root /\ conflicts' = conflicts /\ pos' = pos
    BY <1>0, <2>1, ArriveSteps
  <2>3. p # c /\ p # o
    BY <1>0, <2>1, ArriveSteps
  <2>4. Judged(c, log[i].at)
    BY <1>0, <2>1, <2>2, <2>3, ArriveSteps DEF Judged
  <2> QED
    BY <1>1, <2>2, <2>4 DEF RetryInv, EarlierIsConflict
<1>3. CASE \E p, q \in Calls : Retry(p, q)
  <2>1. PICK p \in Calls, q \in Calls : Retry(p, q)
    BY <1>3
  <2>2. log' = log /\ conflicts' = conflicts /\ pos' = pos /\ pc[p] = "idle"
    BY <1>0, <2>1, RetrySteps
  <2>3. p # o
    BY <1>0, <2>2 DEF RowsInOrder
  <2>4. p # c
    <3>1. pos[p] = 1
      BY <1>0, <2>2 DEF TypeInv, InBatch
    <3>2. log[i].at \in Nat \ {0}
      BY <1>0, <2>2, RowTypes DEF TypeInv, Row
    <3>3. pc'[p] = "resolve"
      BY <1>0, <2>1, RetrySteps
    <3> QED
      BY <2>2, <3>1, <3>2, <3>3 DEF Judged
  <2>5. Judged(c, log[i].at) /\ root[o] = root[c]
    BY <1>0, <2>1, <2>2, <2>3, <2>4, RetrySteps DEF Judged
  <2> QED
    BY <1>1, <2>2, <2>5 DEF RetryInv, EarlierIsConflict
<1>4. CASE ~ \E p \in Calls : Arrive(p) \/ \E q \in Calls : Retry(p, q)
  <2>1. /\ batch' = batch /\ root' = root
        /\ pc[c] \in Running
    BY <1>0, <1>4, StepsKeepBatches DEF Judged
  <2>2. i \in DOMAIN log /\ log'[i] = log[i]
    <3>1. ASSUME NEW p \in Calls, AppendChange(p), log'[i] = NewRow(p)
          PROVE  FALSE
      <4>1. p = o /\ pc[p] \in Running
        BY <1>0, <3>1, NewRowFields DEF Running
      <4> QED
        BY <1>0, <2>1, <4>1 DEF Attempts
    <3> QED
      BY <1>0, <3>1, TableSteps
  <2>3. /\ log[i].at \in DOMAIN batch[o] /\ pc[o] # "idle"
        /\ log[i].etype = batch[o][log[i].at].etype
        /\ log[i].eid = batch[o][log[i].at].eid
    BY <1>0, <2>2 DEF RowsInOrder
  <2>4. batch[o] = batch[c]
    BY <1>0, <2>1, <2>3 DEF Attempts, Running
  <2>5. pc[c] # "idle"
    BY <2>1 DEF Running
  <2>6. CASE Judged(c, log[i].at) /\ conflicts[c] \subseteq conflicts'[c]
    BY <1>1, <2>1, <2>2, <2>6 DEF RetryInv, EarlierIsConflict
  <2>7. CASE log[i].at = pos[c] /\ (Resolve(c) \/ ResolveBlind(c))
    <3> DEFINE ch == batch[c][pos[c]]
               latest == LatestVersion(ch.etype, ch.eid)
    <3>1. i \in RowsOf(ch.etype, ch.eid)
      BY <2>2, <2>3, <2>4, <2>7 DEF RowsOf
    <3>2. log[i].version <= latest /\ latest \in Nat
      BY <1>0, <3>1, LatestVersionIsLatest DEF TypeInv
    <3>3. ch.base < log[i].version
      BY <1>0, <1>1, <2>2, <2>4, <2>7 DEF RowsAreNewer
    <3>4. log[i].version \in Nat \ {0} /\ ch.base \in Nat
      <4>1. batch[c] \in Seq(Change)
        BY <1>0 DEF TypeInv, TypeOK
      <4>2. ch \in Change
        BY <2>3, <2>4, <2>7, <4>1, ElementOfSeq
      <4> QED
        BY <1>0, <2>2, <4>2, RowTypes DEF TypeInv, Change
    <3>5. latest > 0 /\ ch.base < latest
      BY <3>2, <3>3, <3>4
    <3>6. conflicts'[c] = conflicts[c] \cup {[at |-> pos[c], server |-> latest]}
      <4> HIDE DEF latest
      <4>1. latest = LatestVersion(ch.etype, ch.eid)
        BY DEF latest
      <4> QED
        BY <1>0, <1>1, <2>7, <3>5, <4>1, JudgeSteps
    <3> DEFINE k == [at |-> pos[c], server |-> latest]
    <3>7. k \in conflicts'[c] /\ k.at = pos[c]
      BY <3>6
    <3> HIDE DEF k
    <3> QED
      BY <2>2, <2>7, <3>7
  <2> QED
    BY <1>0, <2>2, <2>3, <2>4, <2>5, <2>6, <2>7, JudgedSteps
<1> QED
  BY <1>2, <1>3, <1>4

\* The whole invariant of LoggedOnce.
LoggedOnceInv == RetryInv /\ LoggedOnce

\* The running attempt appends no change that an earlier one logged.
LEMMA LoggedOnceNext ==
    ASSUME RetryInv, LoggedOnce, [Next]_vars
    PROVE  LoggedOnce'
<1>0. TypeInv /\ RowsInOrder /\ Attempts /\ JudgedInOrder
  BY DEF RetryInv
<1> SUFFICES ASSUME QueriesWorked', NEW i \in DOMAIN log', NEW j \in DOMAIN log',
                    root'[log'[i].call] = root'[log'[j].call], log'[i].at = log'[j].at
             PROVE  i = j
  BY DEF LoggedOnce
<1>1. QueriesWorked
  BY <1>0, QueriesSteps
<1>2. \A m \in DOMAIN log : /\ m \in DOMAIN log' /\ log'[m] = log[m]
                            /\ log[m].call \in Calls /\ pc[log[m].call] # "idle"
                            /\ root'[log[m].call] = root[log[m].call]
  <2> SUFFICES ASSUME NEW m \in DOMAIN log
               PROVE  /\ m \in DOMAIN log' /\ log'[m] = log[m]
                      /\ log[m].call \in Calls /\ pc[log[m].call] # "idle"
                      /\ root'[log[m].call] = root[log[m].call]
    OBVIOUS
  <2>1. log[m].call \in Calls
    BY <1>0, RowTypes DEF TypeInv, Row
  <2>2. pc[log[m].call] # "idle"
    BY <1>0, <2>1 DEF RowsInOrder
  <2> QED
    BY <1>0, <2>1, <2>2, BatchKept, TableSteps
<1>3. CASE i \in DOMAIN log /\ j \in DOMAIN log
  BY <1>1, <1>2, <1>3 DEF LoggedOnce
<1>4. CASE i \notin DOMAIN log /\ j \notin DOMAIN log
  BY <1>0, <1>4, TableSteps
<1>5. ASSUME NEW m \in DOMAIN log, NEW n \in DOMAIN log', n \notin DOMAIN log,
             root'[log'[m].call] = root'[log'[n].call], log'[m].at = log'[n].at
      PROVE  FALSE
  <2>1. PICK c \in Calls : AppendChange(c) /\ log'[n] = NewRow(c)
    BY <1>0, <1>5, TableSteps
  <2>2. /\ log'[n].call = c /\ log'[n].at = pos[c] /\ pc[c] = "append"
        /\ pos[c] \in DOMAIN batch[c] /\ root'[c] = root[c]
    BY <1>0, <2>1, NewRowFields
  <2>3. PICK o \in Calls : o = log[m].call
    BY <1>2
  <2>4. root[o] = root[c] /\ log[m].at = pos[c]
    BY <1>2, <1>5, <2>2, <2>3
  <2>5. o # c
    <3>1. pos[c] \in Nat
      BY <1>0 DEF TypeInv, TypeOK
    <3> QED
      BY <1>0, <2>2, <2>3, <2>4, <3>1 DEF RowsInOrder
  <2>6. \E k \in conflicts[c] : k.at = pos[c]
    BY <1>1, <2>2, <2>3, <2>4, <2>5 DEF RetryInv, EarlierIsConflict, Judged, Running
  <2> QED
    BY <1>0, <2>2, <2>6 DEF JudgedInOrder, ShouldSkip
<1> QED
  BY <1>2, <1>3, <1>4, <1>5

\* Sending a batch again logs no change a second time, whatever became of the
\* earlier attempts and whatever other pushes do meanwhile.
THEOREM RetriesLogOnce == Spec => []LoggedOnce
<1>1. Init => LoggedOnceInv
  <2> SUFFICES ASSUME Init PROVE LoggedOnceInv
    OBVIOUS
  <2>1. TypeInv /\ DOMAIN log = {} /\ \A c \in Calls : DOMAIN batch[c] = {}
    BY TypeInvInit DEF Init
  <2> QED
    BY <2>1 DEF Init, LoggedOnceInv, RetryInv, RowsInOrder, JudgedInOrder, Attempts,
       BasesKnown, RowsAreNewer, EarlierIsConflict, LoggedOnce, Running
<1>2. LoggedOnceInv /\ [Next]_vars => LoggedOnceInv'
  <2> SUFFICES ASSUME LoggedOnceInv, [Next]_vars PROVE LoggedOnceInv'
    OBVIOUS
  <2>1. RetryInv /\ LoggedOnce
    BY DEF LoggedOnceInv
  <2>2. LoggedOnce' /\ EarlierIsConflict'
    BY <2>1, LoggedOnceNext, EarlierIsConflictNext
  <2>3. /\ TypeInv' /\ RowsInOrder' /\ JudgedInOrder' /\ Attempts'
        /\ BasesKnown' /\ RowsAreNewer'
    BY <2>1, TypeInvNext, RowsInOrderNext, JudgedInOrderNext, AttemptsNext,
       BasesKnownNext, RowsAreNewerNext DEF RetryInv
  <2> QED
    BY <2>2, <2>3 DEF LoggedOnceInv, RetryInv
<1>3. LoggedOnceInv => LoggedOnce
  BY DEF LoggedOnceInv
<1> QED
  BY <1>1, <1>2, <1>3, PTL DEF Spec

-----------------------------------------------------------------------------
(* One push at a time: no update is lost. *)

\* What another call wrote for the entity of a judged change, the change was
\* based on or conflicts with.
NewerIsConflict ==
    \A c \in Calls : \A n \in DOMAIN batch[c] :
        \A i \in RowsOf(batch[c][n].etype, batch[c][n].eid) :
            log[i].call # c /\ Judged(c, n) =>
                log[i].version <= batch[c][n].base \/ \E k \in conflicts[c] : k.at = n

\* What makes NoLostUpdate inductive.
UpdateInv ==
    /\ TypeInv /\ OneRunning /\ RowsInOrder /\ JudgedInOrder
    /\ NewerIsConflict /\ NoLostUpdate

\* Nothing is inserted by another call between the judging of a change and its
\* insert.
LEMMA NewerIsConflictNext ==
    ASSUME "read" \notin Faults, UpdateInv, [Next]_vars
    PROVE  NewerIsConflict'
<1>0. TypeInv /\ OneRunning /\ RowsInOrder /\ ~ Fault("read")
  BY DEF UpdateInv, Fault
<1> SUFFICES ASSUME NEW c \in Calls, NEW n \in DOMAIN batch'[c],
                    NEW i \in RowsOf(batch[c][n].etype, batch[c][n].eid)',
                    log'[i].call # c, Judged(c, n)'
             PROVE  log'[i].version <= batch'[c][n].base \/ \E k \in conflicts'[c] : k.at = n
  BY DEF NewerIsConflict
<1>1. pc[c] # "idle"
  <2>1. ASSUME pc[c] = "idle"
        PROVE  FALSE
    <3>1. Arrive(c) \/ \E o \in Calls : Retry(c, o)
      BY <1>0, <2>1, Bystander DEF Step, Resolve, ResolveBlind, Skip, NextVersion,
         NextVersionBlind, AppendChange, AppendFails, Notify, Respond, RespondBlind,
         Crash, Judged, Running
    <3>2. pos'[c] = 1 /\ pc'[c] \in {"resolve", "respond"}
      BY <1>0, <2>1, <3>1 DEF Arrive, Retry, FirstStep, TypeInv, TypeOK, InBatch
    <3>3. batch'[c] # <<>> => pc'[c] = "resolve"
      BY <1>0, <3>1 DEF Arrive, Retry, FirstStep, TypeInv, TypeOK
    <3>4. n \in Nat \ {0} /\ batch'[c] # <<>>
      <4>1. batch'[c] \in Seq(Change)
        BY <1>0, TypeInvNext DEF TypeInv, TypeOK
      <4> QED
        BY <4>1, LenProperties
    <3> QED
      BY <3>2, <3>3, <3>4 DEF Judged
  <2> QED
    BY <2>1
<1>2. batch'[c] = batch[c]
  BY <1>0, <1>1, BatchKept
<1>3. pc[c] \in Running
  BY <1>0, <1>1, <1>2, JudgedSteps DEF Judged, Resolve, ResolveBlind, Running
<1>4. i \in RowsOf(batch[c][n].etype, batch[c][n].eid) /\ log'[i] = log[i]
  <2>1. i \in DOMAIN log'
    BY DEF RowsOf
  <2>2. ASSUME NEW p \in Calls, AppendChange(p), log'[i] = NewRow(p)
        PROVE  FALSE
    <3>1. pc[p] \in Running /\ p # c
      BY <1>0, <2>2, NewRowFields DEF Running
    <3> QED
      BY <1>0, <1>3, <3>1 DEF OneRunning
  <2>3. i \in DOMAIN log /\ log'[i] = log[i]
    BY <1>0, <2>1, <2>2, TableSteps
  <2> QED
    BY <1>2, <2>3 DEF RowsOf
<1>5. CASE Judged(c, n) /\ conflicts[c] \subseteq conflicts'[c]
  BY <1>2, <1>4, <1>5 DEF UpdateInv, NewerIsConflict
<1>6. CASE n = pos[c] /\ (Resolve(c) \/ ResolveBlind(c))
  <2> DEFINE ch == batch[c][pos[c]]
             latest == LatestVersion(ch.etype, ch.eid)
  <2>1. log[i].version <= latest /\ latest \in Nat
    BY <1>0, <1>4, <1>6, LatestVersionIsLatest DEF TypeInv
  <2>2. log[i].version \in Nat \ {0}
    BY <1>0, <1>4, RowTypes DEF TypeInv, RowsOf
  <2>3. ch.base \in Nat
    <3>1. batch[c] \in Seq(Change)
      BY <1>0 DEF TypeInv, TypeOK
    <3>2. ch \in Change
      BY <1>2, <1>6, <3>1, ElementOfSeq
    <3> QED
      BY <3>2 DEF Change
  <2>4. ~ (ch.base < latest) \/ \E k \in conflicts'[c] : k.at = n
    <3>1. latest = LatestVersion(ch.etype, ch.eid)
      OBVIOUS
    <3> HIDE DEF latest
    <3>2. \/ ~ (ch.base < latest) \/ latest = 0
          \/ conflicts'[c] = conflicts[c] \cup {[at |-> pos[c], server |-> latest]}
      BY <1>0, <1>6, <3>1, JudgeSteps
    <3>3. CASE conflicts'[c] = conflicts[c] \cup {[at |-> pos[c], server |-> latest]}
      <4>1. [at |-> pos[c], server |-> latest] \in conflicts'[c]
        BY <3>3
      <4>2. [at |-> pos[c], server |-> latest].at = n
        BY <1>6
      <4> QED
        BY <4>1, <4>2
    <3> QED
      BY <2>3, <3>2, <3>3
  <2> QED
    BY <1>2, <1>4, <1>6, <2>1, <2>2, <2>3, <2>4
<1> QED
  BY <1>0, <1>1, <1>2, <1>5, <1>6, JudgedSteps

\* The change that is appended has no conflict.
LEMMA NoLostUpdateNext ==
    ASSUME UpdateInv, [Next]_vars
    PROVE  NoLostUpdate'
<1>0. TypeInv /\ RowsInOrder /\ JudgedInOrder
  BY DEF UpdateInv
<1> SUFFICES ASSUME NEW i \in DOMAIN log', NEW j \in DOMAIN log', i < j,
                    log'[i].etype = log'[j].etype, log'[i].eid = log'[j].eid,
                    log'[i].call # log'[j].call
             PROVE  log'[i].version <= batch'[log'[j].call][log'[j].at].base
  BY DEF NoLostUpdate
<1>1. i \in DOMAIN log /\ log'[i] = log[i]
  <2>1. DOMAIN log = 1 .. Len(log) /\ Len(log) \in Nat
    BY <1>0, RowTypes DEF TypeInv
  <2> QED
    BY <1>0, <2>1, TableSteps
<1>2. CASE j \in DOMAIN log
  <2>1. log'[j] = log[j] /\ log[j].call \in Calls
    BY <1>0, <1>2, TableSteps, RowTypes DEF TypeInv, Row
  <2>2. batch'[log[j].call] = batch[log[j].call]
    BY <1>0, <1>2, <2>1, BatchKept DEF RowsInOrder
  <2> QED
    BY <1>1, <1>2, <2>1, <2>2 DEF UpdateInv, NoLostUpdate
<1>3. CASE j \notin DOMAIN log
  <2>1. PICK c \in Calls : AppendChange(c) /\ log'[j] = NewRow(c)
    BY <1>0, <1>3, TableSteps
  <2>2. /\ log'[j].call = c /\ log'[j].at = pos[c] /\ pc[c] = "append"
        /\ pos[c] \in DOMAIN batch[c] /\ batch' = batch
        /\ log'[j].etype = batch[c][pos[c]].etype
        /\ log'[j].eid = batch[c][pos[c]].eid
    BY <1>0, <2>1, NewRowFields
  <2>3. i \in RowsOf(batch[c][pos[c]].etype, batch[c][pos[c]].eid) /\ log[i].call # c
    BY <1>1, <2>2 DEF RowsOf
  <2>4. \/ log[i].version <= batch[c][pos[c]].base
        \/ \E k \in conflicts[c] : k.at = pos[c]
    BY <2>2, <2>3 DEF UpdateInv, NewerIsConflict, Judged, Running
  <2>5. ~ \E k \in conflicts[c] : k.at = pos[c]
    BY <1>0, <2>2 DEF JudgedInOrder, ShouldSkip
  <2> QED
    BY <1>1, <2>2, <2>4, <2>5
<1> QED
  BY <1>2, <1>3

\* When pushes come one at a time and no query fails, a change that is logged over
\* another call's was based on it.
THEOREM SerialUpdatesAreKept ==
    ASSUME ~ Concurrent, "read" \notin Faults
    PROVE  Spec => []NoLostUpdate
<1>1. Init => UpdateInv
  <2> SUFFICES ASSUME Init PROVE UpdateInv
    OBVIOUS
  <2>1. TypeInv /\ DOMAIN log = {} /\ \A c \in Calls : DOMAIN batch[c] = {}
    BY TypeInvInit DEF Init
  <2> QED
    BY <2>1 DEF Init, UpdateInv, OneRunning, RowsInOrder, JudgedInOrder,
       NewerIsConflict, NoLostUpdate, Running
<1>2. UpdateInv /\ [Next]_vars => UpdateInv'
  BY TypeInvNext, OneRunningNext, RowsInOrderNext, JudgedInOrderNext,
     NewerIsConflictNext, NoLostUpdateNext DEF UpdateInv
<1>3. UpdateInv => NoLostUpdate
  BY DEF UpdateInv
<1> QED
  BY <1>1, <1>2, <1>3, PTL DEF Spec

-----------------------------------------------------------------------------
(* Every change of a batch is accounted for. *)

\* The conflicts at changes before the p-th.
ConflictsBefore(c, p) == {k \in conflicts[c] : k.at < p}

\* No entity_id occurs twice in the batch.
Distinct(c) == \A m, n \in DOMAIN batch[c] : m # n => batch[c][m].eid # batch[c][n].eid

\* A change has one conflict at most, and the changes a call is past were each
\* counted or skipped for a conflict.
Counted(c) ==
    /\ IsFiniteSet(conflicts[c])
    /\ \A k, l \in conflicts[c] : k.at = l.at => k = l
    /\ pc[c] \in {"idle", "resolve"} => accepted[c] = 0
    /\ Distinct(c) =>
        /\ pc[c] \in {"apply", "append"} =>
            accepted[c] + Cardinality(ConflictsBefore(c, pos[c])) = pos[c] - 1
        /\ pc[c] = "notify" =>
            accepted[c] + Cardinality(ConflictsBefore(c, pos[c])) = pos[c]
        /\ pc[c] \in {"respond", "done"} => Answered(c)

\* What makes DistinctBatchesAnswered inductive.
CountInv == ConflictInv /\ \A c \in Calls : Counted(c)

\* The conflicts a call is past, before and after it takes the change at pos.
LEMMA ConflictsPassed ==
    ASSUME ConflictInv, NEW c \in Calls, Counted(c), pos[c] \in Nat
    PROVE  /\ IsFiniteSet(ConflictsBefore(c, pos[c]))
           /\ Cardinality(ConflictsBefore(c, pos[c])) \in Nat
           /\ ConflictsBefore(c, 1) = {}
           /\ ConflictsBefore(c, Len(batch[c]) + 1) = conflicts[c]
           /\ (\A k \in conflicts[c] : k.at # pos[c]) =>
                ConflictsBefore(c, pos[c] + 1) = ConflictsBefore(c, pos[c])
           /\ (\E k \in conflicts[c] : k.at = pos[c]) =>
                Cardinality(ConflictsBefore(c, pos[c] + 1)) =
                    Cardinality(ConflictsBefore(c, pos[c])) + 1
<1>1. \A k \in conflicts[c] : k.at \in Nat \ {0} /\ k.at \in 1 .. Len(batch[c])
  <2>1. \A k \in conflicts[c] : k.at \in DOMAIN batch[c]
    BY DEF ConflictInv, ConflictsGenuine
  <2>2. batch[c] \in Seq(Change) /\ conflicts[c] \subseteq Conflict
    BY DEF ConflictInv, TypeInv, TypeOK
  <2> QED
    BY <2>1, <2>2, LenProperties DEF Conflict
<1>2. Len(batch[c]) \in Nat
  BY LenProperties DEF ConflictInv, TypeInv, TypeOK
<1>3. ConflictsBefore(c, 1) = {}
  BY <1>1 DEF ConflictsBefore
<1>4. ConflictsBefore(c, Len(batch[c]) + 1) = conflicts[c]
  BY <1>1, <1>2 DEF ConflictsBefore
<1>5. IsFiniteSet(ConflictsBefore(c, pos[c]))
  <2>1. ConflictsBefore(c, pos[c]) \subseteq conflicts[c]
    BY DEF ConflictsBefore
  <2> QED
    BY <2>1, FS_Subset DEF Counted
<1>6. Cardinality(ConflictsBefore(c, pos[c])) \in Nat
  BY <1>5, FS_CardinalityType
<1>7. ASSUME \A k \in conflicts[c] : k.at # pos[c]
      PROVE  ConflictsBefore(c, pos[c] + 1) = ConflictsBefore(c, pos[c])
  BY <1>1, <1>7 DEF ConflictsBefore
<1>8. ASSUME NEW k \in conflicts[c], k.at = pos[c]
      PROVE  Cardinality(ConflictsBefore(c, pos[c] + 1)) =
                Cardinality(ConflictsBefore(c, pos[c])) + 1
  <2>1. \A l \in conflicts[c] : l.at < pos[c] + 1 <=> l.at < pos[c] \/ l = k
    BY <1>1, <1>8 DEF Counted
  <2>2. ConflictsBefore(c, pos[c] + 1) = ConflictsBefore(c, pos[c]) \cup {k}
    BY <1>8, <2>1 DEF ConflictsBefore
  <2>3. k \notin ConflictsBefore(c, pos[c])
    BY <1>8 DEF ConflictsBefore
  <2> QED
    BY <1>5, <2>2, <2>3, FS_AddElement
<1> QED
  BY <1>3, <1>4, <1>5, <1>6, <1>7, <1>8

\* A skipped change adds one to the conflicts passed, a logged one to the count.
LEMMA CountedNext ==
    ASSUME CountInv, [Next]_vars, NEW c \in Calls
    PROVE  Counted(c)'
<1>0. TypeInv /\ JudgedInOrder /\ ConflictInv /\ Counted(c)
  BY DEF CountInv, ConflictInv
<1>1. /\ batch[c] \in Seq(Change) /\ Len(batch[c]) \in Nat
      /\ DOMAIN batch[c] = 1 .. Len(batch[c])
      /\ pos[c] \in Nat /\ accepted[c] \in Nat
      /\ conflicts[c] \subseteq Conflict
  BY <1>0, LenProperties DEF TypeInv, TypeOK
<1>2. CASE Arrive(c) \/ \E o \in Calls : Retry(c, o)
  <2>1. /\ pc[c] = "idle"
        /\ pc'[c] = "resolve" \/ (pc'[c] = "respond" /\ batch'[c] = <<>>)
        /\ conflicts' = conflicts /\ accepted' = accepted
    BY <1>0, <1>2 DEF Arrive, Retry, MayStart, FirstStep, TypeInv, TypeOK
  <2>2. conflicts[c] = {} /\ accepted[c] = 0
    BY <1>0, <2>1 DEF JudgedInOrder, Counted
  <2>3. Len(<<>>) = 0 /\ Cardinality({}) = 0 /\ IsFiniteSet({})
    BY FS_EmptySet
  <2>4. conflicts'[c] = {} /\ accepted'[c] = 0
    BY <2>1, <2>2
  <2>5. pc'[c] = "respond" => Answered(c)'
    BY <2>1, <2>3, <2>4 DEF Answered
  <2> QED
    BY <2>1, <2>3, <2>4, <2>5 DEF Counted
<1>3. CASE Resolve(c) \/ ResolveBlind(c)
  <2>1. PICK latest : latest = LatestVersion(batch[c][pos[c]].etype, batch[c][pos[c]].eid)
    OBVIOUS
  <2>2. \/ conflicts'[c] = conflicts[c]
        \/ conflicts'[c] = conflicts[c] \cup {[at |-> pos[c], server |-> latest]}
    BY <1>0, <1>3, <2>1, JudgeSteps
  <2>3. IsFiniteSet(conflicts'[c])
    <3>1. IsFiniteSet(conflicts[c])
      BY <1>0 DEF Counted
    <3> QED
      BY <2>2, <3>1, FS_AddElement
  <2>4. \A k \in conflicts[c] : k.at < pos[c]
    BY <1>0, <1>3, ResolveSteps DEF JudgedInOrder
  <2>5. \A k, l \in conflicts'[c] : k.at = l.at => k = l
    <3>1. \A k \in conflicts[c] : k.at \in Nat
      BY <1>1 DEF Conflict
    <3> QED
      BY <1>0, <1>1, <2>2, <2>4, <3>1 DEF Counted
  <2>6. accepted'[c] = 0
    BY <1>0, <1>3, ResolveSteps DEF Counted
  <2>7. CASE pc'[c] = "resolve"
    BY <2>3, <2>5, <2>6, <2>7 DEF Counted
  <2>8. CASE pc'[c] = "apply" /\ pos'[c] = 1
    <3>1. ConflictsBefore(c, 1)' = {}
      <4>1. \A k \in conflicts'[c] : k.at \in Nat \ {0}
        BY <1>0, TypeInvNext DEF TypeInv, TypeOK, Conflict
      <4> QED
        BY <4>1 DEF ConflictsBefore
    <3>2. ConflictsBefore(c, pos[c])' = {}
      BY <2>8, <3>1 DEF ConflictsBefore
    <3> QED
      BY <2>3, <2>5, <2>6, <2>8, <3>2, FS_EmptySet DEF Counted
  <2> QED
    BY <1>0, <1>3, <2>7, <2>8, ResolveSteps
<1>4. ASSUME Skip(c) \/ Notify(c)
      PROVE  Counted(c)'
  <2>1. /\ conflicts' = conflicts /\ accepted' = accepted /\ batch' = batch
        /\ \/ pos[c] = Len(batch[c]) /\ pc'[c] = "respond"
           \/ pc'[c] = "apply" /\ pos'[c] = pos[c] + 1
    BY <1>0, <1>4 DEF Skip, Notify, NextInBatch, TypeInv, TypeOK
  <2>2. pos[c] \in DOMAIN batch[c]
    BY <1>0, <1>1, <1>4 DEF Skip, Notify, TypeInv, InBatch
  <2>3. ASSUME Distinct(c)
        PROVE  accepted[c] + Cardinality(ConflictsBefore(c, pos[c] + 1)) = pos[c]
    <3>1. CASE Skip(c)
      <4>1. PICK k \in conflicts[c] : batch[c][k.at].eid = batch[c][pos[c]].eid
        BY <3>1 DEF Skip, ShouldSkip
      <4>2. k.at \in DOMAIN batch[c]
        BY <1>0 DEF ConflictInv, ConflictsGenuine
      <4>3. k.at = pos[c]
        BY <2>2, <2>3, <4>1, <4>2 DEF Distinct
      <4>4. accepted[c] + Cardinality(ConflictsBefore(c, pos[c])) = pos[c] - 1
        BY <1>0, <2>3, <3>1 DEF Counted, Skip
      <4> QED
        BY <1>0, <1>1, <4>3, <4>4, ConflictsPassed, SMTT(20)
    <3>2. CASE Notify(c)
      <4>1. pc[c] = "notify" /\ ~ ShouldSkip(c)
        BY <1>0, <3>2 DEF Notify, JudgedInOrder
      <4>2. \A k \in conflicts[c] : k.at # pos[c]
        BY <4>1 DEF ShouldSkip
      <4>3. accepted[c] + Cardinality(ConflictsBefore(c, pos[c])) = pos[c]
        BY <1>0, <2>3, <4>1 DEF Counted
      <4> QED
        BY <1>0, <1>1, <4>2, <4>3, ConflictsPassed
    <3> QED
      BY <1>4, <3>1, <3>2
  <2>4. Distinct(c)' => Distinct(c)
    BY <2>1 DEF Distinct
  <2>5. CASE pos[c] = Len(batch[c]) /\ pc'[c] = "respond"
    <3>1. Distinct(c) => accepted[c] + Cardinality(conflicts[c]) = Len(batch[c])
      BY <1>0, <1>1, <2>3, <2>5, ConflictsPassed
    <3> QED
      BY <1>0, <2>1, <2>4, <2>5, <3>1 DEF Counted, Answered
  <2>6. CASE pc'[c] = "apply" /\ pos'[c] = pos[c] + 1
    <3>1. ConflictsBefore(c, pos[c])' = ConflictsBefore(c, pos[c] + 1)
      BY <2>1, <2>6 DEF ConflictsBefore
    <3>2. pos[c] = pos'[c] - 1
      BY <1>1, <2>6
    <3> QED
      BY <1>0, <2>1, <2>3, <2>4, <2>6, <3>1, <3>2 DEF Counted
  <2> QED
    BY <2>1, <2>5, <2>6
<1>5. CASE NextVersion(c) \/ NextVersionBlind(c)
  <2>1. /\ pc[c] = "apply" /\ pc'[c] = "append" /\ pos' = pos /\ batch' = batch
        /\ conflicts' = conflicts /\ accepted' = accepted
    BY <1>0, <1>5 DEF NextVersion, NextVersionBlind, TypeInv, TypeOK
  <2> QED
    BY <1>0, <2>1 DEF Counted, ConflictsBefore, Distinct
<1>6. CASE AppendChange(c)
  <2>1. /\ pc[c] = "append" /\ pc'[c] = "notify" /\ pos' = pos /\ batch' = batch
        /\ conflicts' = conflicts /\ accepted'[c] = accepted[c] + 1
    BY <1>0, <1>6, NewRowFields
  <2>2. Cardinality(ConflictsBefore(c, pos[c])) \in Nat
    BY <1>0, <1>1, ConflictsPassed
  <2>3. ConflictsBefore(c, pos[c])' = ConflictsBefore(c, pos[c])
    BY <2>1 DEF ConflictsBefore
  <2>4. Distinct(c)' => accepted'[c] + Cardinality(ConflictsBefore(c, pos[c])') = pos'[c]
    <3>1. Distinct(c)' => accepted[c] + Cardinality(ConflictsBefore(c, pos[c])) = pos[c] - 1
      BY <1>0, <2>1 DEF Counted, Distinct
    <3> QED
      BY <1>1, <2>1, <2>2, <2>3, <3>1, SMTT(20)
  <2> QED
    BY <1>0, <2>1, <2>4 DEF Counted
<1>7. CASE Respond(c) \/ RespondBlind(c)
  <2>1. /\ pc[c] = "respond" /\ pc'[c] = "done" /\ batch' = batch
        /\ conflicts' = conflicts /\ accepted' = accepted
    BY <1>0, <1>7 DEF Respond, RespondBlind, TypeInv, TypeOK
  <2> QED
    BY <1>0, <2>1 DEF Counted, Answered, Distinct
<1>8. CASE AppendFails(c)
  BY <1>0, <1>8 DEF AppendFails, Counted, TypeInv, TypeOK
<1>9. CASE /\ pc'[c] = pc[c] \/ pc'[c] = "failed"
           /\ pos'[c] = pos[c] /\ batch'[c] = batch[c]
           /\ conflicts'[c] = conflicts[c] /\ accepted'[c] = accepted[c]
  BY <1>0, <1>9 DEF Counted, ConflictsBefore, Answered, Distinct
<1>10. CASE Crash
  BY <1>0, <1>9, <1>10 DEF Crash, TypeInv, TypeOK
<1> QED
  BY <1>0, <1>2, <1>3, <1>4, <1>5, <1>6, <1>7, <1>8, <1>9, <1>10, Bystander DEF Step

\* A batch in which no entity_id occurs twice is answered in full, whatever fails
\* and whatever other pushes do.
THEOREM DistinctBatchesAreAnswered == Spec => []DistinctBatchesAnswered
<1>1. Init => CountInv
  <2> SUFFICES ASSUME Init PROVE CountInv
    OBVIOUS
  <2>1. ConflictInv
    BY ConflictInvInit
  <2>2. \A c \in Calls : pc[c] = "idle" /\ conflicts[c] = {} /\ accepted[c] = 0
    BY DEF Init
  <2> QED
    BY <2>1, <2>2, FS_EmptySet DEF CountInv, Counted
<1>2. CountInv /\ [Next]_vars => CountInv'
  <2> SUFFICES ASSUME CountInv, [Next]_vars PROVE CountInv'
    OBVIOUS
  <2>1. ConflictInv'
    BY ConflictInvNext DEF CountInv
  <2> QED
    BY <2>1, CountedNext DEF CountInv
<1>3. CountInv => DistinctBatchesAnswered
  BY DEF CountInv, Counted, DistinctBatchesAnswered, Distinct
<1> QED
  BY <1>1, <1>2, <1>3, PTL DEF Spec

-----------------------------------------------------------------------------
(* The steps of the composed server. *)

\* Every step of the server is a step of the sync service, or leaves what it has.
LEMMA ServerStep == [ServerNext]_serverVars => [Next]_vars
<1> SUFFICES ASSUME [ServerNext]_serverVars
             PROVE  [Next]_vars
  OBVIOUS
<1>1. ASSUME NEW c \in Calls, Arrive(c) \/ PlainStep(c) \/ FinishNotify(c)
      PROVE  Next
  BY <1>1 DEF PlainStep, FinishNotify, Next, Step
<1>2. ASSUME NEW c \in Calls, StartNotify(c) \/ OfferOne(c)
      PROVE  UNCHANGED vars
  BY <1>2 DEF StartNotify, OfferOne
<1>3. ASSUME NEW c \in Calls, NEW o \in Calls, Retry(c, o)
      PROVE  Next
  BY <1>3 DEF Next
<1>4. ASSUME (\E d \in Devices : Pull(d)) \/ \E v \in Versions : Ack(v)
      PROVE  Next
  BY <1>4 DEF Next
<1>5. ASSUME ServerCrash
      PROVE  Next
  BY <1>5 DEF ServerCrash, Next
<1>6. ASSUME UNCHANGED serverVars
      PROVE  UNCHANGED vars
  BY <1>6 DEF serverVars
<1> QED
  BY <1>1, <1>2, <1>3, <1>4, <1>5, <1>6, Zenon DEF ServerNext, CallStep

-----------------------------------------------------------------------------
(* What devices are told of. *)

\* The notifications of changes that are in the table.
Pullable ==
    {m \in Notification : \E i \in DOMAIN log : /\ log[i].version = m.version
                                                /\ log[i].etype = m.etype
                                                /\ log[i].action = m.action}

\* Whatever a push sends, a channel holds or a client was sent is in the table; and
\* so is the change a push is about to notify of.
ServerInv ==
    /\ SkipInv
    /\ \A c \in Calls : pc[c] = "notify" => NotificationOf(c) \in Pullable
    /\ message \in [Calls -> Pullable \cup {None}]
    /\ \A c \in holding : c \in Calls /\ message[c] \in Pullable
    /\ channel \in [Streams -> Streams]
    /\ subscribers \in [Devices -> Streams \cup {None}]
    /\ device \in [Streams -> Devices]
    /\ buffer \in [Streams -> Seq(Pullable)]
    /\ got \in [Streams -> Seq(Pullable)]

\* Rows are never changed or taken out.
LEMMA PullableKept ==
    ASSUME TypeInv, [Next]_vars
    PROVE  Pullable \subseteq Pullable'
BY TableSteps DEF Pullable

\* The row of a change is in the table when its push begins to notify of it.
LEMMA NotifiedIsLogged ==
    ASSUME TypeInv, [Next]_vars, NEW c \in Calls, pc'[c] = "notify",
           pc[c] = "notify" => NotificationOf(c) \in Pullable
    PROVE  NotificationOf(c)' \in Pullable'
<1>1. CASE AppendChange(c)
  <2>1. /\ pc[c] = "append" /\ batch' = batch /\ pos' = pos /\ ver' = ver
        /\ log' = Append(log, NewRow(c))
    BY <1>1 DEF AppendChange
  <2>2. NewRow(c) \in Row /\ log \in Seq(Row) /\ Len(log) \in Nat
    BY <1>1, <2>1, NewRowTypes DEF TypeInv, TypeOK
  <2>3. Len(log) + 1 \in DOMAIN log' /\ log'[Len(log) + 1] = NewRow(c)
    BY <2>1, <2>2
  <2>4. /\ NotificationOf(c)' = NotificationOf(c)
        /\ NotificationOf(c).etype = NewRow(c).etype
        /\ NotificationOf(c).action = NewRow(c).action
        /\ NotificationOf(c).version = NewRow(c).version
    BY <2>1 DEF NotificationOf, NewRow
  <2>5. NotificationOf(c) \in Notification
    BY <2>2 DEF NotificationOf, NewRow, Row, Notification
  <2> QED
    BY <2>3, <2>4, <2>5 DEF Pullable
<1>2. CASE ~ AppendChange(c)
  <2>1. pc[c] = "notify" /\ batch'[c] = batch[c] /\ pos'[c] = pos[c] /\ ver'[c] = ver[c]
    <3>1. ~ Arrive(c) /\ ~ (\E o \in Calls : Retry(c, o))
      BY DEF Arrive, Retry, FirstStep, TypeInv, TypeOK
    <3>2. ~ Step(c)
      BY <1>2
      DEF Step, Resolve, ResolveBlind, Skip, NextVersion, NextVersionBlind, AppendFails, Notify,
          Respond, RespondBlind, NextInBatch, TypeInv, TypeOK
    <3>3. CASE Crash
      BY <3>3 DEF Crash, Running
    <3> QED
      BY <3>1, <3>2, <3>3, Bystander
  <2>2. NotificationOf(c)' = NotificationOf(c)
    BY <2>1 DEF NotificationOf
  <2> QED
    BY <2>1, <2>2, PullableKept
<1> QED
  BY <1>1, <1>2

\* Streams and the notifier pass on what they were given.
LEMMA ServerInvNext == ServerInv /\ [ServerNext]_serverVars => ServerInv'
<1> SUFFICES ASSUME ServerInv, [ServerNext]_serverVars
             PROVE  ServerInv'
  OBVIOUS
<1>0. /\ SkipInv /\ TypeInv /\ [Next]_vars
      /\ \A c \in Calls : pc[c] = "notify" => NotificationOf(c) \in Pullable
      /\ message \in [Calls -> Pullable \cup {None}]
      /\ \A c \in holding : c \in Calls /\ message[c] \in Pullable
      /\ channel \in [Streams -> Streams]
      /\ subscribers \in [Devices -> Streams \cup {None}]
      /\ device \in [Streams -> Devices]
      /\ buffer \in [Streams -> Seq(Pullable)]
      /\ got \in [Streams -> Seq(Pullable)]
  BY ServerStep DEF ServerInv, SkipInv, GapInv
<1>1. /\ SkipInv'
      /\ \A c \in Calls : pc'[c] = "notify" => NotificationOf(c)' \in Pullable'
  BY <1>0, SkipInvNext, NotifiedIsLogged
<1>2. Pullable \subseteq Pullable'
  BY <1>0, PullableKept
<1>3. Seq(Pullable) \subseteq Seq(Pullable')
  BY <1>2
<1> DEFINE Kept(P) ==
        /\ message' \in [Calls -> P \cup {None}]
        /\ \A c \in holding' : c \in Calls /\ message'[c] \in P
        /\ channel' \in [Streams -> Streams]
        /\ subscribers' \in [Devices -> Streams \cup {None}]
        /\ device' \in [Streams -> Devices]
        /\ buffer' \in [Streams -> Seq(P)]
        /\ got' \in [Streams -> Seq(P)]
<1>4. Kept(Pullable) => Kept(Pullable')
  BY <1>2, <1>3
<1>5. ASSUME UNCHANGED notifierVars
      PROVE  Kept(Pullable)
  BY <1>0, <1>5 DEF notifierVars
<1>6. ASSUME NEW c \in Calls, StartNotify(c)
      PROVE  Kept(Pullable)
  <2>1. NotificationOf(c) \in Pullable
    BY <1>0, <1>6 DEF StartNotify
  <2>2. /\ message' = [message EXCEPT ![c] = NotificationOf(c)] /\ holding' = holding \cup {c}
        /\ UNCHANGED <<subscribers, buffer, device, channel, got>>
    BY <1>6 DEF StartNotify, N!Begin, N!streamVars
  <2> QED
    BY <1>0, <2>1, <2>2
<1>7. ASSUME NEW c \in Calls, OfferOne(c)
      PROVE  Kept(Pullable)
  <2>1. /\ c \in holding /\ UNCHANGED <<subscribers, device, channel, got, message, holding>>
        /\ \E ch : buffer' = [buffer EXCEPT ![ch] =
                        IF Len(@) < BufferSize THEN Append(@, message[c]) ELSE @]
    BY <1>7 DEF OfferOne, N!Offer, N!streamVars
  <2>2. message[c] \in Pullable
    BY <1>0, <2>1
  <2>3. \A q \in Seq(Pullable) : Append(q, message[c]) \in Seq(Pullable)
    BY <2>2
  <2>4. buffer' \in [Streams -> Seq(Pullable)]
    <3>1. PICK ch : buffer' = [buffer EXCEPT ![ch] =
                        IF Len(@) < BufferSize THEN Append(@, message[c]) ELSE @]
      BY <2>1
    <3>2. ASSUME NEW t \in Streams
          PROVE  buffer'[t] = buffer[t] \/ buffer'[t] = Append(buffer[t], message[c])
      BY <1>0, <3>1
    <3>3. \A t \in Streams : buffer'[t] \in Seq(Pullable)
      BY <1>0, <2>3, <3>2
    <3>4. buffer' = [t \in Streams |-> buffer'[t]]
      BY <1>0, <3>1
    <3> QED
      BY <3>3, <3>4
  <2> QED
    BY <1>0, <2>1, <2>4
<1>8. ASSUME NEW c \in Calls, FinishNotify(c)
      PROVE  Kept(Pullable)
  <2>1. /\ message' = [message EXCEPT ![c] = None] /\ holding' = holding \ {c}
        /\ UNCHANGED <<subscribers, buffer, device, channel, got>>
    BY <1>8 DEF FinishNotify, N!End, N!streamVars
  <2> QED
    BY <1>0, <2>1
<1>9. ASSUME NEW s \in Streams, N!StreamStep(s)
      PROVE  Kept(Pullable)
  <2>1. UNCHANGED <<message, holding, device>>
    BY <1>9
    DEF N!StreamStep, N!Subscribe, N!Forward, N!SendFails, N!Cancel, N!Unsubscribe, N!notifyVars
  <2>2. ASSUME buffer[channel[s]] # <<>>
        PROVE  /\ Head(buffer[channel[s]]) \in Pullable
               /\ Tail(buffer[channel[s]]) \in Seq(Pullable)
    BY <1>0, <2>2
  <2>3. CASE N!Subscribe(s)
    BY <1>0, <2>1, <2>3 DEF N!Subscribe
  <2>4. CASE N!Forward(s)
    <3>1. /\ buffer' = [buffer EXCEPT ![channel[s]] = Tail(buffer[channel[s]])]
          /\ got' = [got EXCEPT ![s] = Append(got[s], Head(buffer[channel[s]]))]
          /\ UNCHANGED <<subscribers, channel>>
      BY <2>4 DEF N!Forward
    <3>2. buffer' \in [Streams -> Seq(Pullable)]
      BY <1>0, <2>2, <2>4, <3>1 DEF N!Forward
    <3>3. Append(got[s], Head(buffer[channel[s]])) \in Seq(Pullable)
      BY <1>0, <2>2, <2>4 DEF N!Forward
    <3>4. got' \in [Streams -> Seq(Pullable)]
      BY <1>0, <3>1, <3>3
    <3> QED
      BY <1>0, <2>1, <3>1, <3>2, <3>4
  <2>5. CASE N!SendFails(s)
    <3>1. /\ buffer' = [buffer EXCEPT ![channel[s]] = Tail(buffer[channel[s]])]
          /\ UNCHANGED <<subscribers, channel, got>>
      BY <2>5 DEF N!SendFails
    <3>2. buffer' \in [Streams -> Seq(Pullable)]
      BY <1>0, <2>2, <2>5, <3>1 DEF N!SendFails
    <3> QED
      BY <1>0, <2>1, <3>1, <3>2
  <2>6. CASE N!Cancel(s) \/ N!Unsubscribe(s)
    BY <1>0, <2>1, <2>6 DEF N!Cancel, N!Unsubscribe
  <2> QED
    BY <1>9, <2>3, <2>4, <2>5, <2>6 DEF N!StreamStep
<1>10. ASSUME ServerCrash
       PROVE  Kept(Pullable)
  BY <1>0, <1>10 DEF ServerCrash
<1>11. Kept(Pullable)
  <2> HIDE DEF Kept
  <2> QED
    BY <1>5, <1>6, <1>7, <1>8, <1>9, <1>10, Zenon
    DEF ServerNext, CallStep, PlainStep, serverVars
<1> QED
  BY <1>1, <1>4, <1>11 DEF ServerInv

\* What a device is told of can be pulled: the row is in the table before the
\* notification leaves, survives a crash that loses the notification, and is ahead of
\* the device's cursor unless the device was sent a change of its version.
THEOREM NotifiedChangesCanBePulled == ServerSpec => []NotifiedChangeIsPullable
<1>1. ServerInit => ServerInv
  <2> SUFFICES ASSUME ServerInit
               PROVE  ServerInv
    OBVIOUS
  <2>1. Init /\ N!Init
    BY DEF ServerInit
  <2>2. SkipInv /\ \A c \in Calls : pc[c] # "notify"
    BY <2>1, SkipInvInit DEF Init
  <2> QED
    BY <2>1, <2>2 DEF N!Init, ServerInv
<1>2. ServerInv /\ [ServerNext]_serverVars => ServerInv'
  BY ServerInvNext
<1>3. ServerInv => NotifiedChangeIsPullable
  <2> SUFFICES ASSUME ServerInv, NEW s \in Streams, NEW m \in Range(got[s]) \cup Range(buffer[s])
               PROVE  \E i \in DOMAIN log : /\ log[i].version = m.version
                                            /\ log[i].etype = m.etype
                                            /\ log[i].action = m.action
                                            /\ \/ cursor[device[s]] < m.version
                                               \/ \E j \in seen[device[s]] :
                                                    log[j].version = m.version
    BY DEF NotifiedChangeIsPullable
  <2>1. got[s] \in Seq(Pullable) /\ buffer[s] \in Seq(Pullable)
    BY DEF ServerInv
  <2>2. m \in Pullable
    BY <2>1 DEF Range
  <2>3. PICK i \in DOMAIN log : /\ log[i].version = m.version
                                /\ log[i].etype = m.etype
                                /\ log[i].action = m.action
    BY <2>2 DEF Pullable
  <2>4. /\ NoVersionSkipped /\ device[s] \in Devices
        /\ cursor[device[s]] \in Nat /\ m.version \in Nat \ {0}
    BY <2>3, RowTypes DEF ServerInv, SkipInv, GapInv, TypeInv, TypeOK
  <2>5. cursor[device[s]] < m.version \/ \E j \in seen[device[s]] : log[j].version = m.version
    BY <2>4 DEF NoVersionSkipped
  <2> QED
    BY <2>3, <2>5
<1> QED
  BY <1>1, <1>2, <1>3, PTL DEF ServerSpec

=============================================================================
