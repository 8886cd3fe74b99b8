---------------------------- MODULE ServerProofs ----------------------------
(***************************************************************************)
(* The properties of the user service, and of main, which ends every call: *)
(* Account for any calls, names, devices and faults, and ServerShutdown    *)
(* for any calls, streams and uploads.                                     *)
(***************************************************************************)
EXTENDS Account, ServerShutdown, TLAPS

-----------------------------------------------------------------------------
(* What a call has asked, and what of it is in the tables. *)

\* What a call asks, by where it is; it has no answer before it replies.
Asks ==
    \A c \in Calls :
        /\ pc[c] = "idle" => request[c] = None
        /\ pc[c] \in {"name", "user"} => request[c] \in SignIns /\ request[c].op = "Register"
        /\ pc[c] = "login" => request[c] \in SignIns /\ request[c].op = "Login"
        /\ pc[c] = "read" => request[c] \in SignIns
        /\ pc[c] \in {"device", "register"} =>
                request[c] \in DeviceCalls /\ request[c].op = "RegisterDevice"
        /\ pc[c] = "remove" => request[c] \in DeviceCalls /\ request[c].op = "RemoveDevice"
        /\ pc[c] = "reply" => request[c] \in DeviceCalls
        /\ pc[c] \notin {"reply", "done"} => answer[c] = None

\* A row is that of the call that inserted it.
RowsAsked ==
    /\ \A u \in users : u.id \in Asked("Register") /\ u = UserRow(u.id)
    /\ \A d \in devices : d.id \in Asked("RegisterDevice") /\ d = DeviceRow(d.id)

\* The unique columns.
Unique ==
    /\ \A u, v \in users : u.name = v.name => u = v
    /\ \A d, e \in devices : d.device = e.device => d = e

TypeInv == TypeOK /\ Asks /\ RowsAsked /\ Unique

\* Two Registers of a name in flight are not apart; one that has found its name free
\* finds it free still.
NameStaysFree ==
    apart =>
        /\ \A c, o \in Asked("Register") :
              pc[c] \in Running /\ pc[o] \in Running /\ request[c].name = request[o].name
                 => c = o
        /\ \A c \in Calls : pc[c] = "user" => NameFree(request[c].name)

\* Nothing is asked of empty tables at first.
LEMMA TypeInvInit == Init => TypeInv /\ NameStaysFree
<1> SUFFICES ASSUME Init
             PROVE  TypeInv /\ NameStaysFree
  OBVIOUS
<1>1. TypeOK
  BY MaxFaultsAssumption DEF Init, TypeOK
<1>2. Asks /\ RowsAsked /\ Unique
  BY DEF Init, Asks, RowsAsked, Unique
<1>3. NameStaysFree
  BY DEF Init, NameStaysFree, Asked, Running
<1> QED
  BY <1>1, <1>2, <1>3 DEF TypeInv

\* A call that begins, and goes to the step its request is for.
LEMMA BeginSteps ==
    ASSUME TypeInv, NEW c \in Calls, NEW what \in SignIns \cup DeviceCalls,
           NEW step \in {"name", "login", "device", "remove"}, Begin(c, what, step),
           apart' \in BOOLEAN,
           step = "name" => what \in SignIns /\ what.op = "Register",
           step = "login" => what \in SignIns /\ what.op = "Login",
           step = "device" => what \in DeviceCalls /\ what.op = "RegisterDevice",
           step = "remove" => what \in DeviceCalls /\ what.op = "RemoveDevice"
    PROVE  TypeInv'
<1>1. /\ pc[c] = "idle" /\ pc' = [pc EXCEPT ![c] = step]
      /\ request' = [request EXCEPT ![c] = what] /\ request[c] = None
      /\ UNCHANGED <<users, devices, answer, session, faults>>
  BY DEF Begin, Goto, tables, TypeInv, Asks
<1>2. TypeOK'
  BY <1>1 DEF TypeInv, TypeOK, Running
<1>3. Asks'
  BY <1>1 DEF TypeInv, TypeOK, Asks
<1>4. RowsAsked'
  BY <1>1 DEF TypeInv, TypeOK, RowsAsked, Asked, UserRow, DeviceRow
<1>5. Unique'
  BY <1>1 DEF TypeInv, Unique
<1> QED
  BY <1>2, <1>3, <1>4, <1>5 DEF TypeInv

\* A call that goes on, or answers, with the tables as they are.
LEMMA MoveSteps ==
    ASSUME TypeInv, NEW c \in Calls, pc[c] # "idle",
           NEW step, NEW code \in Codes \cup {None}, NEW s \in Calls \cup {None},
           pc' = [pc EXCEPT ![c] = step], answer' = [answer EXCEPT ![c] = code],
           session' = [session EXCEPT ![c] = s],
           \/ step = "done"
           \/ step = "user" /\ pc[c] = "name" /\ code = None
           \/ step = "read" /\ pc[c] = "login" /\ code = None
           \/ step = "register" /\ pc[c] = "device" /\ code = None,
           UNCHANGED <<users, devices, request, apart>>, faults' \in 0 .. MaxFaults
    PROVE  TypeInv'
<1>1. TypeOK'
  BY DEF TypeInv, TypeOK, Running
<1>2. Asks'
  BY DEF TypeInv, TypeOK, Asks
<1>3. RowsAsked' /\ Unique'
  BY DEF TypeInv, RowsAsked, Asked, UserRow, DeviceRow, Unique
<1> QED
  BY <1>1, <1>2, <1>3 DEF TypeInv

\* Every step keeps the types and the rows what they are: tables change by a row that
\* the unique columns let in, or lose rows.
LEMMA TypeInvNext == TypeInv /\ [Next]_vars => TypeInv'
<1> SUFFICES ASSUME TypeInv, [Next]_vars
             PROVE  TypeInv'
  OBVIOUS
<1>0. TypeOK /\ Asks /\ RowsAsked /\ Unique
  BY DEF TypeInv
<1>1. ASSUME NEW c \in Calls, NEW n \in Names, NEW p \in Passwords,
             Login(c, n, p) \/ \E form \in Forms : Register(c, n, p, form)
      PROVE  TypeInv'
  <2>1. CASE Login(c, n, p)
    <3> DEFINE what == [op |-> "Login", name |-> n, password |-> p, form |-> "valid"]
    <3>1. what \in SignIns /\ what.op = "Login"
      BY DEF SignIns, Forms
    <3>2. Begin(c, what, "login") /\ apart' \in BOOLEAN
      BY <1>0, <2>1 DEF Login, TypeOK
    <3> HIDE DEF what
    <3> QED
      BY <3>1, <3>2, BeginSteps
  <2>2. ASSUME NEW form \in Forms, Register(c, n, p, form)
        PROVE  TypeInv'
    <3> DEFINE what == [op |-> "Register", name |-> n, password |-> p, form |-> form]
    <3>1. what \in SignIns /\ what.op = "Register"
      BY DEF SignIns
    <3>2. Begin(c, what, "name") /\ apart' \in BOOLEAN
      BY <1>0, <2>2 DEF Register, TypeOK
    <3> HIDE DEF what
    <3> QED
      BY <3>1, <3>2, BeginSteps
  <2> QED
    BY <1>1, <2>1, <2>2
<1>2. ASSUME NEW c \in Calls, NEW s \in Calls, NEW d \in DeviceIds,
             RemoveDevice(c, s, d) \/ \E form \in {"valid", "long"} : RegisterDevice(c, s, d, form)
      PROVE  TypeInv'
  <2>1. CASE RemoveDevice(c, s, d)
    <3> DEFINE what ==
          [op |-> "RemoveDevice", user |-> session[s], device |-> d, form |-> "valid"]
    <3>1. session[s] \in Calls
      BY <1>0, <2>1 DEF RemoveDevice, Authentic, TypeOK
    <3>2. what \in DeviceCalls /\ what.op = "RemoveDevice"
      BY <3>1 DEF DeviceCalls, Forms
    <3>3. Begin(c, what, "remove") /\ apart' \in BOOLEAN
      BY <1>0, <2>1 DEF RemoveDevice, TypeOK
    <3> HIDE DEF what
    <3> QED
      BY <3>2, <3>3, BeginSteps
  <2>2. ASSUME NEW form \in {"valid", "long"}, RegisterDevice(c, s, d, form)
        PROVE  TypeInv'
    <3> DEFINE what ==
          [op |-> "RegisterDevice", user |-> session[s], device |-> d, form |-> form]
    <3>1. session[s] \in Calls
      BY <1>0, <2>2 DEF RegisterDevice, Authentic, TypeOK
    <3>2. what \in DeviceCalls /\ what.op = "RegisterDevice"
      BY <3>1 DEF DeviceCalls, Forms
    <3>3. Begin(c, what, "device") /\ apart' \in BOOLEAN
      BY <1>0, <2>2 DEF RegisterDevice, TypeOK
    <3> HIDE DEF what
    <3> QED
      BY <3>2, <3>3, BeginSteps
  <2> QED
    BY <1>2, <2>1, <2>2
<1>3. ASSUME NEW c \in Calls, TurnedAway(c)
      PROVE  TypeInv'
  <2>1. /\ pc[c] = "idle" /\ pc' = [pc EXCEPT ![c] = "done"]
        /\ answer' = [answer EXCEPT ![c] = "Unauthenticated"]
        /\ UNCHANGED <<users, devices, request, session, apart, faults>>
    BY <1>3 DEF TurnedAway, Reply, tables
  <2>2. TypeOK' /\ Asks'
    BY <1>0, <2>1 DEF TypeOK, Asks, Codes
  <2> QED
    BY <1>0, <2>1, <2>2 DEF TypeInv, RowsAsked, Asked, UserRow, DeviceRow, Unique
<1>4. ASSUME NEW c \in Calls, CreateUser(c)
      PROVE  TypeInv'
  <2>1. /\ pc[c] = "user" /\ pc' = [pc EXCEPT ![c] = "read"]
        /\ users' = users \cup {UserRow(c)} /\ NameFree(request[c].name)
        /\ session' = [session EXCEPT ![c] = c]
        /\ UNCHANGED <<devices, request, answer, apart, faults>>
    BY <1>4 DEF CreateUser, Goto
  <2>2. request[c] \in SignIns /\ request[c].op = "Register" /\ request[c] # None
    BY <1>0, <2>1, NoneAssumption DEF Asks
  <2>3. /\ request[c].name \in Names /\ request[c].password \in Passwords
        /\ c \in Asked("Register")
        /\ UserRow(c).id = c /\ UserRow(c).name = request[c].name
    BY <2>2 DEF SignIns, UserRow, Asked
  <2>4. UserRow(c) \in [id : Calls, name : Names, password : Passwords]
    BY <2>3 DEF UserRow
  <2>5. TypeOK'
    BY <1>0, <2>1, <2>4 DEF TypeOK, Running
  <2>6. Asks'
    BY <1>0, <2>1, <2>2 DEF TypeOK, Asks
  <2>7. RowsAsked'
    BY <1>0, <2>1, <2>3 DEF RowsAsked, Asked, UserRow, DeviceRow
  <2>8. Unique'
    BY <1>0, <2>1, <2>3 DEF Unique, NameFree
  <2> QED
    BY <2>5, <2>6, <2>7, <2>8 DEF TypeInv
<1>5. ASSUME NEW c \in Calls, CreateDevice(c)
      PROVE  TypeInv'
  <2>1. /\ pc[c] = "register" /\ pc' = [pc EXCEPT ![c] = "reply"]
        /\ answer' = [answer EXCEPT ![c] = "OK"]
        /\ devices' = devices \cup {DeviceRow(c)} /\ DeviceFree(c)
        /\ UNCHANGED <<users, request, session, apart, faults>>
    BY <1>5 DEF CreateDevice, Committed
  <2>2. request[c] \in DeviceCalls /\ request[c].op = "RegisterDevice" /\ request[c] # None
    BY <1>0, <2>1, NoneAssumption DEF Asks
  <2>3. /\ request[c].device \in DeviceIds /\ request[c].user \in Calls
        /\ c \in Asked("RegisterDevice")
        /\ DeviceRow(c).id = c /\ DeviceRow(c).device = request[c].device
    BY <2>2 DEF DeviceCalls, DeviceRow, Asked
  <2>4. DeviceRow(c) \in [id : Calls, device : DeviceIds, user : Calls]
    BY <2>3 DEF DeviceRow
  <2>5. TypeOK'
    BY <1>0, <2>1, <2>4 DEF TypeOK, Running, Codes
  <2>6. Asks'
    BY <1>0, <2>1, <2>2 DEF TypeOK, Asks
  <2>7. RowsAsked'
    BY <1>0, <2>1, <2>3 DEF RowsAsked, Asked, UserRow, DeviceRow
  <2>8. Unique'
    BY <1>0, <2>1, <2>3 DEF Unique, DeviceFree
  <2> QED
    BY <2>5, <2>6, <2>7, <2>8 DEF TypeInv
<1>6. ASSUME NEW c \in Calls, DeleteDevice(c)
      PROVE  TypeInv'
  <2>1. /\ pc[c] = "remove" /\ devices' \subseteq devices
        /\ UNCHANGED <<users, request, session, apart, faults>>
        /\ \/ pc' = [pc EXCEPT ![c] = "done"] /\ answer' = [answer EXCEPT ![c] = "NotFound"]
           \/ pc' = [pc EXCEPT ![c] = "reply"] /\ answer' = [answer EXCEPT ![c] = "OK"]
    BY <1>6 DEF DeleteDevice, Reply, Committed
  <2>2. TypeOK'
    BY <1>0, <2>1 DEF TypeOK, Running, Codes
  <2>3. Asks'
    BY <1>0, <2>1 DEF TypeOK, Asks
  <2>4. RowsAsked' /\ Unique'
    BY <1>0, <2>1 DEF RowsAsked, Asked, UserRow, DeviceRow, Unique
  <2> QED
    BY <2>2, <2>3, <2>4 DEF TypeInv
<1>7. ASSUME NEW c \in Calls, Return(c)
      PROVE  TypeInv'
  <2>1. /\ pc[c] = "reply" /\ pc' = [pc EXCEPT ![c] = "done"]
        /\ UNCHANGED <<users, devices, request, answer, session, apart, faults>>
    BY <1>7 DEF Return, Goto, tables
  <2>2. TypeOK' /\ Asks'
    BY <1>0, <2>1 DEF TypeOK, Asks
  <2> QED
    BY <1>0, <2>1, <2>2 DEF TypeInv, RowsAsked, Asked, UserRow, DeviceRow, Unique
<1>8. ASSUME Crash
      PROVE  TypeInv'
  <2>1. /\ pc' = [c \in Calls |-> IF pc[c] \in Running THEN "done" ELSE pc[c]]
        /\ answer' = [c \in Calls |-> IF pc[c] \in Running THEN None ELSE answer[c]]
        /\ session' = [c \in Calls |-> IF pc[c] \in Running THEN None ELSE session[c]]
        /\ faults' \in 0 .. MaxFaults
        /\ UNCHANGED <<users, devices, request, apart>>
    BY <1>0, <1>8, MaxFaultsAssumption DEF Crash, Fault, tables, TypeOK
  <2>2. TypeOK'
    BY <1>0, <2>1 DEF TypeOK
  <2>3. Asks'
    BY <1>0, <2>1 DEF TypeOK, Asks, Running
  <2> QED
    BY <1>0, <2>1, <2>2, <2>3 DEF TypeInv, RowsAsked, Asked, UserRow, DeviceRow, Unique
<1>9. ASSUME UNCHANGED vars
      PROVE  TypeInv'
  BY <1>0, <1>9
  DEF vars, tables, TypeInv, TypeOK, Asks, RowsAsked, Asked, UserRow, DeviceRow, Unique
\* The steps that leave the tables alone.
<1>10. ASSUME NEW c \in Calls, NEW step, NEW code \in Codes \cup {None},
              NEW s \in Calls \cup {None},
              pc[c] # "idle",
              pc' = [pc EXCEPT ![c] = step], answer' = [answer EXCEPT ![c] = code],
              session' = [session EXCEPT ![c] = s],
              \/ step = "done"
              \/ step = "user" /\ pc[c] = "name" /\ code = None
              \/ step = "read" /\ pc[c] = "login" /\ code = None
              \/ step = "register" /\ pc[c] = "device" /\ code = None,
              UNCHANGED <<users, devices, request, apart>>, faults' \in 0 .. MaxFaults
       PROVE  TypeInv'
  BY <1>10, MoveSteps
<1>11. ASSUME NEW c \in Calls, CheckName(c) \/ CheckDevice(c) \/ CheckDeviceBlind(c)
       PROVE  TypeInv'
  <2>1. /\ UNCHANGED <<users, devices, request, session, apart>>
        /\ pc[c] # "idle" /\ faults' \in 0 .. MaxFaults
    BY <1>0, <1>11, MaxFaultsAssumption
    DEF CheckName, CheckDevice, CheckDeviceBlind, Fault, tables, TypeOK
  <2>2. \/ \E code \in Codes :
              pc' = [pc EXCEPT ![c] = "done"] /\ answer' = [answer EXCEPT ![c] = code]
        \/ pc' = [pc EXCEPT ![c] = "user"] /\ pc[c] = "name" /\ answer' = answer
        \/ pc' = [pc EXCEPT ![c] = "register"] /\ pc[c] = "device" /\ answer' = answer
    BY <1>11
    DEF CheckName, CheckDevice, CheckDeviceBlind, Goto, Reply, TakenReply, Codes
  <2>3. pc[c] \in {"name", "device"} => answer[c] = None
    BY <1>0 DEF Asks
  <2>4. session' = [session EXCEPT ![c] = session[c]] /\ session[c] \in Calls \cup {None}
    BY <1>0, <2>1 DEF TypeOK
  <2>5. answer' = answer => answer' = [answer EXCEPT ![c] = answer[c]]
    BY <1>0 DEF TypeOK
  <2> QED
    BY <1>10, <2>1, <2>2, <2>3, <2>4, <2>5
<1>12. ASSUME NEW c \in Calls,
              \/ CreateUserRejected(c) \/ RegisterFails(c) \/ LoginFails(c)
              \/ CreateDeviceRejected(c) \/ DeleteDeviceFails(c)
       PROVE  TypeInv'
  <2>1. /\ UNCHANGED <<users, devices, request, session, apart>>
        /\ pc[c] # "idle"
    BY <1>12
    DEF CreateUserRejected, RegisterFails, LoginFails, CreateDeviceRejected,
        DeleteDeviceFails, tables
  <2>2. faults' \in 0 .. MaxFaults
    BY <1>0, <1>12, MaxFaultsAssumption
    DEF CreateUserRejected, RegisterFails, LoginFails, CreateDeviceRejected,
        DeleteDeviceFails, Fault, TypeOK
  <2>3. \E code \in Codes :
          pc' = [pc EXCEPT ![c] = "done"] /\ answer' = [answer EXCEPT ![c] = code]
    BY <1>12
    DEF CreateUserRejected, RegisterFails, LoginFails, CreateDeviceRejected,
        DeleteDeviceFails, Reply, Codes
  <2>4. session' = [session EXCEPT ![c] = session[c]] /\ session[c] \in Calls \cup {None}
    BY <1>0, <2>1 DEF TypeOK
  <2> QED
    BY <1>10, <2>1, <2>2, <2>3, <2>4
<1>13. ASSUME NEW c \in Calls, QueryUser(c) \/ ReadUser(c) \/ ReadUserFails(c)
       PROVE  TypeInv'
  <2>1. /\ UNCHANGED <<users, devices, request, apart>>
        /\ pc[c] # "idle" /\ faults' \in 0 .. MaxFaults
    BY <1>0, <1>13, MaxFaultsAssumption
    DEF QueryUser, ReadUser, ReadUserFails, Fault, tables, TypeOK
  <2>2. session[c] \in Calls \cup {None} /\ answer[c] \in Codes \cup {None}
        /\ session = [session EXCEPT ![c] = session[c]]
        /\ answer = [answer EXCEPT ![c] = answer[c]]
    BY <1>0 DEF TypeOK
  <2>3. pc[c] = "login" => answer[c] = None
    BY <1>0 DEF Asks
  <2>4. CASE QueryUser(c)
    <3>1. \/ /\ \E u \in users : session' = [session EXCEPT ![c] = u.id]
             /\ pc' = [pc EXCEPT ![c] = "read"] /\ pc[c] = "login" /\ answer' = answer
          \/ /\ session' = session /\ pc' = [pc EXCEPT ![c] = "done"]
             /\ answer' = [answer EXCEPT ![c] = "Unauthenticated"]
      BY <2>4 DEF QueryUser, Goto, Reply
    <3>2. \A u \in users : u.id \in Calls
      BY <1>0 DEF TypeOK
    <3>3. CASE session' = session /\ pc' = [pc EXCEPT ![c] = "done"]
               /\ answer' = [answer EXCEPT ![c] = "Unauthenticated"]
      BY <1>10, <2>1, <2>2, <3>3 DEF Codes
    <3>4. ASSUME NEW u \in users, session' = [session EXCEPT ![c] = u.id],
                 pc' = [pc EXCEPT ![c] = "read"], pc[c] = "login", answer' = answer
          PROVE  TypeInv'
      BY <1>10, <2>1, <2>2, <2>3, <3>2, <3>4
    <3> QED
      BY <3>1, <3>3, <3>4
  <2>5. CASE ReadUser(c) \/ ReadUserFails(c)
    <3>1. \E code \in Codes :
            pc' = [pc EXCEPT ![c] = "done"] /\ answer' = [answer EXCEPT ![c] = code]
      BY <2>5 DEF ReadUser, ReadUserFails, Reply, Codes
    <3>2. \E t \in Calls \cup {None} : session' = [session EXCEPT ![c] = t]
      BY <2>2, <2>5 DEF ReadUser, ReadUserFails
    <3> QED
      BY <1>10, <2>1, <3>1, <3>2
  <2> QED
    BY <1>13, <2>4, <2>5
<1>14. ASSUME NEW c \in Calls, Step(c)
       PROVE  TypeInv'
  BY <1>4, <1>5, <1>6, <1>7, <1>11, <1>12, <1>13, <1>14 DEF Step
<1> QED
  BY <1>1, <1>2, <1>3, <1>8, <1>9, <1>14 DEF Next

\* Every reachable state is well typed.
THEOREM TypeCorrect == Spec => []TypeOK
<1>1. TypeInv => TypeOK
  BY DEF TypeInv
<1> QED
  BY <1>1, TypeInvInit, TypeInvNext, PTL DEF Spec

-----------------------------------------------------------------------------
(* What a step does. *)

\* A step of c: it begins, or does the next thing.
Moves(c) ==
    \/ \E n \in Names, p \in Passwords :
          Login(c, n, p) \/ \E form \in Forms : Register(c, n, p, form)
    \/ \E s \in Calls, d \in DeviceIds :
          RemoveDevice(c, s, d) \/ \E form \in {"valid", "long"} : RegisterDevice(c, s, d, form)
    \/ TurnedAway(c)
    \/ Step(c)

\* Every step is one of a call, or the process dies, or nothing happens.
LEMMA Steps ==
    ASSUME [Next]_vars
    PROVE  (\E c \in Calls : Moves(c)) \/ Crash \/ UNCHANGED vars
BY DEF Next, Moves

\* A step of a call is its own: the rest of the calls stay where they are, what was
\* asked stays asked, and faults stay.
LEMMA OwnSteps ==
    ASSUME TypeInv, NEW c \in Calls, Moves(c)
    PROVE  /\ \A o \in Calls : o # c => /\ pc'[o] = pc[o] /\ request'[o] = request[o]
                                        /\ answer'[o] = answer[o] /\ session'[o] = session[o]
           /\ pc[c] # "idle" => request' = request /\ apart' = apart
           /\ pc[c] # "done"
           /\ faults' = 0 => faults = 0
           /\ apart' => apart
<1>0. /\ pc \in [Calls -> {"idle", "done"} \cup Running] /\ faults \in Nat
      /\ request \in [Calls -> SignIns \cup DeviceCalls \cup {None}]
      /\ answer \in [Calls -> Codes \cup {None}] /\ session \in [Calls -> Calls \cup {None}]
  BY MaxFaultsAssumption DEF TypeInv, TypeOK
<1>1. CASE \E n \in Names, p \in Passwords :
              Login(c, n, p) \/ \E form \in Forms : Register(c, n, p, form)
  <2>1. \E what \in SignIns, step \in {"name", "login"} : Begin(c, what, step)
    BY <1>1 DEF Login, Register, SignIns, Forms
  <2>2. apart' => apart
    BY <1>1 DEF Login, Register
  <2> QED
    BY <1>0, <2>1, <2>2 DEF Begin, Goto
<1>2. CASE \E s \in Calls, d \in DeviceIds :
              \/ RemoveDevice(c, s, d)
              \/ \E form \in {"valid", "long"} : RegisterDevice(c, s, d, form)
  BY <1>0, <1>2 DEF RemoveDevice, RegisterDevice, Begin, Goto
<1>3. CASE TurnedAway(c)
  BY <1>0, <1>3 DEF TurnedAway, Reply
<1>4. CASE CheckName(c) \/ CreateUser(c) \/ CreateUserRejected(c) \/ RegisterFails(c)
  BY <1>0, <1>4 DEF CheckName, CreateUser, CreateUserRejected, RegisterFails, Goto, Reply, Fault
<1>5. CASE QueryUser(c) \/ LoginFails(c) \/ ReadUser(c) \/ ReadUserFails(c)
  BY <1>0, <1>5 DEF QueryUser, LoginFails, ReadUser, ReadUserFails, Goto, Reply, Fault
<1>6. CASE \/ CheckDevice(c) \/ CheckDeviceBlind(c) \/ CreateDevice(c)
           \/ CreateDeviceRejected(c)
  BY <1>0, <1>6
  DEF CheckDevice, CheckDeviceBlind, CreateDevice, CreateDeviceRejected, Goto, Reply, Committed,
      Fault
<1>7. CASE DeleteDevice(c) \/ DeleteDeviceFails(c) \/ Return(c)
  BY <1>0, <1>7 DEF DeleteDevice, DeleteDeviceFails, Return, Goto, Reply, Committed, Fault
<1> QED
  BY <1>1, <1>2, <1>3, <1>4, <1>5, <1>6, <1>7 DEF Moves, Step

\* The tables change by the step that inserts a row, and by the one that deletes some.
LEMMA TableSteps ==
    ASSUME NEW c \in Calls, Moves(c)
    PROVE  /\ users' = users \/ CreateUser(c)
           /\ devices' = devices \/ CreateDevice(c) \/ DeleteDevice(c)
BY DEF Moves, Step, Login, Register, Begin, RemoveDevice, RegisterDevice, TurnedAway, CheckName,
       CreateUser, CreateUserRejected, RegisterFails, QueryUser, LoginFails, ReadUser,
       ReadUserFails, CheckDevice, CheckDeviceBlind, CreateDevice, CreateDeviceRejected,
       DeleteDevice, DeleteDeviceFails, Return, tables

\* A name and a password open the account they registered: the query of Login finds
\* the account, which is the only one of its name, whoever registers with it.
THEOREM AccountsOpen == Spec => PasswordOpens
<1> DEFINE Given(c) == {u \in users' : /\ u.name = request[c].name
                                       /\ u.password = request[c].password}
           Opens(c) ==
              /\ (pc[c] = "login" /\ answer'[c] = "Unauthenticated")
                      => Given(c) = {} \/ faults' # faults
              /\ session'[c] # session[c] /\ session'[c] # None
                      => \E u \in Given(c) : u.id = session'[c]
<1>1. ASSUME TypeInv, NEW c \in Calls, Moves(c)
      PROVE  Opens(c)
  <2>0. /\ pc \in [Calls -> {"idle", "done"} \cup Running]
        /\ answer \in [Calls -> Codes \cup {None}] /\ session \in [Calls -> Calls \cup {None}]
        /\ faults \in Nat
        /\ pc[c] = "login" => answer[c] = None
        /\ None \notin Codes
    BY <1>1, MaxFaultsAssumption, NoneAssumption DEF TypeInv, TypeOK, Asks
  <2>1. CASE QueryUser(c)
    <3>1. /\ UNCHANGED <<users, faults>> /\ pc[c] = "login"
          /\ \/ /\ \E u \in users : /\ SignsIn(u, request[c])
                                    /\ session' = [session EXCEPT ![c] = u.id]
                /\ answer' = answer
             \/ /\ \A u \in users : u.name = request[c].name =>
                      {v \in users : v.name = request[c].name} # {u} \/ ~ SignsIn(u, request[c])
                /\ session' = session
      BY <2>1 DEF QueryUser, Goto, Reply, tables
    <3>2. CASE answer' = answer /\ \E u \in users : /\ SignsIn(u, request[c])
                                    /\ session' = [session EXCEPT ![c] = u.id]
      <4>1. answer'[c] # "Unauthenticated"
        BY <2>0, <3>1, <3>2 DEF Codes
      <4>2. \E u \in Given(c) : u.id = session'[c]
        BY <2>0, <3>1, <3>2 DEF SignsIn
      <4> QED
        BY <4>1, <4>2
    <3>3. CASE /\ session' = session
               /\ \A u \in users : u.name = request[c].name =>
                    {v \in users : v.name = request[c].name} # {u} \/ ~ SignsIn(u, request[c])
      <4>1. ASSUME NEW u \in users, SignsIn(u, request[c])
            PROVE  FALSE
        <5>1. u.name = request[c].name
          BY <4>1 DEF SignsIn
        <5>2. {v \in users : v.name = request[c].name} = {u}
          BY <1>1, <5>1 DEF TypeInv, Unique
        <5> QED
          BY <3>3, <4>1, <5>1, <5>2
      <4> QED
        BY <3>1, <3>3, <4>1 DEF SignsIn
    <3> QED
      BY <3>1, <3>2, <3>3
  <2>2. CASE CreateUser(c)
    <3>1. /\ pc[c] = "user" /\ UserRow(c) \in users' /\ session'[c] = c
      BY <2>0, <2>2 DEF CreateUser
    <3> QED
      BY <3>1 DEF UserRow
  <2>3. CASE LoginFails(c)
    BY <2>0, <2>3 DEF LoginFails, Fault
  <2>4. CASE ReadUserFails(c)
    BY <2>0, <2>4 DEF ReadUserFails
  <2>5. CASE ~ (QueryUser(c) \/ CreateUser(c) \/ LoginFails(c) \/ ReadUserFails(c))
    <3>1. session' = session /\ pc[c] # "login"
      BY <1>1, <2>5
      DEF Moves, Step, Login, Register, Begin, RemoveDevice, RegisterDevice, TurnedAway,
          CheckName, CreateUserRejected, RegisterFails, ReadUser, CheckDevice, CheckDeviceBlind,
          CreateDevice, CreateDeviceRejected, DeleteDevice, DeleteDeviceFails, Return
    <3> QED
      BY <3>1
  <2> QED
    BY <2>1, <2>2, <2>3, <2>4, <2>5
<1>2. ASSUME TypeInv, [Next]_vars, NEW c \in Calls
      PROVE  Opens(c) \/ UNCHANGED vars
  <2>0. /\ pc[c] = "login" => answer[c] = None
        /\ None \notin Codes /\ c \in Calls
    BY <1>2, NoneAssumption DEF TypeInv, Asks
  <2>1. ASSUME NEW o \in Calls, o # c, Moves(o)
        PROVE  Opens(c)
    <3>1. answer'[c] = answer[c] /\ session'[c] = session[c]
      BY <1>2, <2>1, OwnSteps
    <3> QED
      BY <2>0, <3>1 DEF Codes
  <2>2. ASSUME Crash
        PROVE  Opens(c)
    <3>1. /\ pc[c] = "login" => answer'[c] = None
          /\ session'[c] = session[c] \/ session'[c] = None
      BY <2>2 DEF Crash, Running
    <3> QED
      BY <2>0, <3>1 DEF Codes
  <2> HIDE DEF Opens
  <2> QED
    BY <1>1, <1>2, <2>1, <2>2, Steps
<1>3. TypeInv /\ [Next]_vars => [\A c \in Calls : Opens(c)]_vars
  <2> HIDE DEF Opens
  <2> QED
    BY <1>2
<1> QED
  BY <1>3, TypeInvInit, TypeInvNext, PTL DEF Spec, PasswordOpens

\* What was asked stays asked.
LEMMA RequestsStay ==
    ASSUME TypeInv, [Next]_vars, NEW c \in Calls, request[c] # None
    PROVE  request'[c] = request[c]
<1>1. pc[c] # "idle"
  BY DEF TypeInv, Asks
<1>2. ASSUME NEW o \in Calls, Moves(o)
      PROVE  request'[c] = request[c]
  BY <1>1, <1>2, OwnSteps
<1>3. Crash \/ UNCHANGED vars => request' = request
  BY DEF Crash, vars
<1> QED
  BY <1>2, <1>3, Steps

\* Accounts are never lost.
LEMMA UsersStay ==
    ASSUME [Next]_vars
    PROVE  users \subseteq users'
<1>1. ASSUME NEW c \in Calls, Moves(c)
      PROVE  users \subseteq users'
  BY <1>1, TableSteps DEF CreateUser
<1>2. Crash \/ UNCHANGED vars => users' = users
  BY DEF Crash, vars, tables
<1> QED
  BY <1>1, <1>2, Steps

\* A device that goes is one that its user asked to remove.
LEMMA DevicesStay ==
    ASSUME TypeInv, [Next]_vars, NEW d \in devices, d \notin devices'
    PROVE  \E o \in Asked("RemoveDevice") :
              request[o].user = d.user /\ request[o].device = d.device
<1>1. PICK o \in Calls : DeleteDevice(o)
  <2>1. \A c \in Calls : ~ CreateDevice(c)
    BY DEF CreateDevice
  <2>2. ~ Crash /\ ~ UNCHANGED vars
    BY DEF Crash, vars, tables
  <2> QED
    BY <2>1, <2>2, Steps, TableSteps
<1>2. d \in Own(request[o]) /\ o \in Asked("RemoveDevice")
  BY <1>1, NoneAssumption DEF DeleteDevice, TypeInv, Asks, Asked
<1> QED
  BY <1>2 DEF Own

-----------------------------------------------------------------------------
(* Devices. *)

\* A device that was registered is there, or its user has asked to remove it.
RegisteredStays ==
    \A c \in Told("RegisterDevice", "OK") :
        \/ \E d \in devices : d.id = c /\ d.user = request[c].user
        \/ \E o \in Asked("RemoveDevice") :
            /\ request[o].user = request[c].user
            /\ request[o].device = request[c].device

\* Only a removal that its user asked for takes it away.
LEMMA RegisteredStaysNext ==
    ASSUME TypeInv, RegisteredStays, [Next]_vars
    PROVE  RegisteredStays'
<1> SUFFICES ASSUME NEW c \in Calls, request'[c] # None, request'[c].op = "RegisterDevice",
                    answer'[c] = "OK"
             PROVE  \/ \E d \in devices' : d.id = c /\ d.user = request'[c].user
                    \/ \E o \in Asked("RemoveDevice")' :
                        /\ request'[o].user = request'[c].user
                        /\ request'[o].device = request'[c].device
  BY DEF RegisteredStays, Told, Asked
<1>0. TypeInv' /\ "OK" # None
  BY TypeInvNext, NoneAssumption DEF Codes
<1>1. CASE CreateDevice(c)
  <2>1. DeviceRow(c) \in devices' /\ request' = request
    BY <1>1 DEF CreateDevice
  <2> QED
    BY <2>1 DEF DeviceRow
<1>2. CASE ~ CreateDevice(c)
  <2>1. request'[c] = request[c] /\ answer[c] = "OK"
    <3>1. ASSUME NEW o \in Calls, o # c, Moves(o)
          PROVE  request'[c] = request[c] /\ answer[c] = "OK"
      BY <3>1, OwnSteps
    <3>2. ASSUME Moves(c)
          PROVE  request'[c] = request[c] /\ answer[c] = "OK"
      <4>1. pc[c] # "idle"
        <5>1. pc'[c] \in {"reply", "done"}
          BY <1>0 DEF TypeInv, Asks
        <5>2. ASSUME pc[c] = "idle"
              PROVE  FALSE
          <6>1. TurnedAway(c) \/ pc'[c] \in {"name", "login", "device", "remove"}
            BY <3>2, <5>2
            DEF Moves, Step, Login, Register, RemoveDevice, RegisterDevice, Begin, Goto,
                CheckName, CreateUser, CreateUserRejected, RegisterFails, QueryUser, LoginFails,
                ReadUser, ReadUserFails, CheckDevice, CheckDeviceBlind, CreateDevice,
                CreateDeviceRejected, DeleteDevice, DeleteDeviceFails, Return, TypeInv, TypeOK
          <6>2. TurnedAway(c) => answer'[c] = "Unauthenticated"
            BY DEF TurnedAway, Reply, TypeInv, TypeOK
          <6> QED
            BY <5>1, <6>1, <6>2
        <5> QED
          BY <5>2
      <4>2. request' = request
        BY <3>2, <4>1, OwnSteps
      <4>3. pc[c] \notin {"read", "remove"}
        BY <4>2 DEF TypeInv, Asks, SignIns
      <4>4. Step(c)
        BY <3>2, <4>1 DEF Moves, Login, Register, RemoveDevice, RegisterDevice, Begin, TurnedAway
      <4>5. answer'[c] # "OK" \/ answer' = answer
        BY <1>2, <4>3, <4>4
        DEF Step, Goto, Reply, TakenReply, CheckName, CreateUser, CreateUserRejected,
            RegisterFails, QueryUser, LoginFails, ReadUser, ReadUserFails, CheckDevice,
            CheckDeviceBlind, CreateDeviceRejected, DeleteDevice, DeleteDeviceFails, Return,
            TypeInv, TypeOK
      <4> QED
        BY <4>2, <4>5
    <3>3. ASSUME Crash
          PROVE  request'[c] = request[c] /\ answer[c] = "OK"
      <4>1. request' = request /\ answer'[c] \in {answer[c], None}
        BY <3>3 DEF Crash
      <4> QED
        BY <1>0, <4>1
    <3>4. UNCHANGED vars => request' = request /\ answer' = answer
      BY DEF vars
    <3> QED
      BY <3>1, <3>2, <3>3, <3>4, Steps
  <2>2. c \in Told("RegisterDevice", "OK")
    BY <2>1 DEF Told, Asked
  <2>3. \A o \in Asked("RemoveDevice") : o \in Asked("RemoveDevice")' /\ request'[o] = request[o]
    BY RequestsStay DEF Asked
  <2>4. CASE \E o \in Asked("RemoveDevice") :
                request[o].user = request[c].user /\ request[o].device = request[c].device
    BY <2>1, <2>3, <2>4
  <2>5. ASSUME NEW d \in devices, d.id = c, d.user = request[c].user
        PROVE  \/ \E e \in devices' : e.id = c /\ e.user = request'[c].user
               \/ \E o \in Asked("RemoveDevice")' :
                    /\ request'[o].user = request'[c].user
                    /\ request'[o].device = request'[c].device
    <3>1. CASE d \in devices'
      BY <2>1, <2>5, <3>1
    <3>2. CASE d \notin devices'
      <4>1. PICK o \in Asked("RemoveDevice") :
                    request[o].user = d.user /\ request[o].device = d.device
        BY <3>2, DevicesStay
      <4>2. d.device = request[c].device
        BY <2>5 DEF TypeInv, RowsAsked, DeviceRow
      <4> QED
        BY <2>1, <2>3, <2>5, <4>1, <4>2
    <3> QED
      BY <3>1, <3>2
  <2> QED
    BY <2>2, <2>4, <2>5 DEF RegisteredStays
<1> QED
  BY <1>1, <1>2

\* A device has one user, and is that user's until it is removed.
THEOREM DevicesAreKept == Spec => []DeviceKept
<1>1. Init => RegisteredStays
  BY DEF Init, RegisteredStays, Told, Asked
<1>2. TypeInv /\ RegisteredStays => DeviceKept
  BY DEF TypeInv, Unique, RegisteredStays, DeviceKept
<1> QED
  BY <1>1, <1>2, TypeInvInit, TypeInvNext, RegisteredStaysNext, PTL DEF Spec

-----------------------------------------------------------------------------
(* Refusals. *)

\* A Register that looks for its name while no other of that name is in flight is the
\* only one that may insert it.
LEMMA NameStaysFreeNext ==
    ASSUME TypeInv, NameStaysFree, [Next]_vars
    PROVE  NameStaysFree'
<1>0. /\ pc \in [Calls -> {"idle", "done"} \cup Running]
      /\ \A c \in Calls : request[c] = None => pc[c] \in {"idle", "done"}
      /\ \A c \in Calls : pc[c] = "idle" => request[c] = None
  BY NoneAssumption DEF TypeInv, TypeOK, Asks, Running
<1> SUFFICES ASSUME apart'
             PROVE  /\ \A c, o \in Asked("Register")' :
                          pc'[c] \in Running /\ pc'[o] \in Running
                             /\ request'[c].name = request'[o].name
                            => c = o
                    /\ \A c \in Calls : pc'[c] = "user" => NameFree(request[c].name)'
  BY DEF NameStaysFree
<1>1. apart
  BY OwnSteps, Steps DEF Crash, vars
\* A Register that is in flight after the step was before, or has just begun.
<1>2. ASSUME NEW c \in Asked("Register")', pc'[c] \in Running
      PROVE  \/ /\ c \in Asked("Register") /\ pc[c] \in Running
                /\ request'[c] = request[c]
             \/ \E n \in Names, p \in Passwords, form \in Forms : Register(c, n, p, form)
  <2>1. c \in Calls /\ request'[c] # None /\ request'[c].op = "Register"
    BY <1>2 DEF Asked
  <2>2. ASSUME NEW o \in Calls, o # c, Moves(o)
        PROVE  pc'[c] = pc[c] /\ request'[c] = request[c]
    BY <2>1, <2>2, OwnSteps
  <2>3. ASSUME Moves(c), pc[c] # "idle"
        PROVE  pc[c] \in Running /\ request'[c] = request[c]
    BY <1>0, <2>1, <2>3, OwnSteps
  <2>4. ASSUME Moves(c), pc[c] = "idle"
        PROVE  \E n \in Names, p \in Passwords, form \in Forms : Register(c, n, p, form)
    <3>1. ~ TurnedAway(c)
      BY <1>0, <1>2, <2>1 DEF TurnedAway, Reply, Running
    <3>2. ~ Step(c)
      BY <2>4
      DEF Step, CheckName, CreateUser, CreateUserRejected, RegisterFails, QueryUser, LoginFails,
          ReadUser, ReadUserFails, CheckDevice, CheckDeviceBlind, CreateDevice,
          CreateDeviceRejected, DeleteDevice, DeleteDeviceFails, Return
    <3>6. ASSUME NEW what, NEW step, Begin(c, what, step)
          PROVE  request'[c] = what
      <4>1. request' = [request EXCEPT ![c] = what] /\ DOMAIN request = Calls
        BY <3>6 DEF Begin, TypeInv, TypeOK
      <4> QED
        BY <2>1, <4>1
    <3>3. ASSUME NEW n \in Names, NEW p \in Passwords, Login(c, n, p)
          PROVE  FALSE
      <4>1. request'[c] = [op |-> "Login", name |-> n, password |-> p, form |-> "valid"]
        BY <3>3, <3>6 DEF Login
      <4> QED
        BY <2>1, <4>1
    <3>4. ASSUME NEW s \in Calls, NEW d \in DeviceIds, RemoveDevice(c, s, d)
          PROVE  FALSE
      <4>1. request'[c] =
              [op |-> "RemoveDevice", user |-> session[s], device |-> d, form |-> "valid"]
        BY <3>4, <3>6 DEF RemoveDevice
      <4> QED
        BY <2>1, <4>1
    <3>5. ASSUME NEW s \in Calls, NEW d \in DeviceIds, NEW form \in {"valid", "long"},
                 RegisterDevice(c, s, d, form)
          PROVE  FALSE
      <4>1. request'[c] =
              [op |-> "RegisterDevice", user |-> session[s], device |-> d, form |-> form]
        BY <3>5, <3>6 DEF RegisterDevice
      <4> QED
        BY <2>1, <4>1
    <3> QED
      BY <2>4, <3>1, <3>2, <3>3, <3>4, <3>5 DEF Moves
  <2>5. ~ Crash
    BY <1>2, <2>1 DEF Crash, Running
  <2>6. UNCHANGED vars => pc' = pc /\ request' = request
    BY DEF vars
  <2>7. \/ pc[c] \in Running /\ request'[c] = request[c]
        \/ \E n \in Names, p \in Passwords, form \in Forms : Register(c, n, p, form)
    BY <1>2, <2>1, <2>2, <2>3, <2>4, <2>5, <2>6, Steps
  <2> QED
    BY <2>1, <2>7 DEF Asked
<1>3. ASSUME NEW c \in Asked("Register")', NEW o \in Asked("Register")', c # o,
             pc'[c] \in Running, pc'[o] \in Running, request'[c].name = request'[o].name,
             NEW n \in Names, NEW p \in Passwords, NEW form \in Forms, Register(c, n, p, form)
      PROVE  FALSE
  <2>1. c \in Calls /\ o \in Calls /\ request'[c].name = n
    BY <1>3 DEF Asked, Register, Begin, TypeInv, TypeOK
  <2>2. pc'[o] = pc[o] /\ request'[o] = request[o]
    BY <1>3, <2>1, OwnSteps DEF Moves
  <2>3. o \in Asked("Register") /\ pc[o] \in Running /\ request[o].name = n
    BY <1>3, <2>1, <2>2 DEF Asked
  <2> QED
    BY <1>3, <2>3 DEF Register
<1>4. \A c, o \in Asked("Register")' :
          pc'[c] \in Running /\ pc'[o] \in Running /\ request'[c].name = request'[o].name
            => c = o
  <2> SUFFICES ASSUME NEW c \in Asked("Register")', NEW o \in Asked("Register")',
                      pc'[c] \in Running, pc'[o] \in Running,
                      request'[c].name = request'[o].name
               PROVE  c = o
    OBVIOUS
  <2> QED
    BY <1>1, <1>2, <1>3 DEF NameStaysFree
<1>5. ASSUME NEW c \in Calls, pc'[c] = "user"
      PROVE  NameFree(request[c].name)'
  <2>1. pc'[c] \in Running
    BY <1>5 DEF Running
  <2>2. c \in Asked("Register")'
    BY <1>5, TypeInvNext, NoneAssumption DEF TypeInv, Asks, Asked
  <2>3. ~ \E n \in Names, p \in Passwords, form \in Forms : Register(c, n, p, form)
    BY <1>0, <1>5 DEF Register, Begin, Goto
  <2>4. c \in Asked("Register") /\ pc[c] \in Running /\ request'[c] = request[c]
    BY <1>2, <2>1, <2>2, <2>3
  <2>5. ASSUME NEW o \in Calls, CreateUser(o)
        PROVE  NameFree(request[c].name)'
    <3>1. /\ pc[o] = "user" /\ pc'[o] = "read" /\ o \in Asked("Register")
          /\ users' = users \cup {UserRow(o)} /\ pc' = [pc EXCEPT ![o] = "read"]
      BY <1>0, <2>5, NoneAssumption DEF CreateUser, Goto, TypeInv, Asks, Asked
    <3>2. c # o /\ pc[c] = "user"
      BY <1>0, <1>5, <3>1
    <3>3. request[c].name # request[o].name
      BY <1>1, <2>4, <3>1, <3>2 DEF NameStaysFree, Running
    <3>4. NameFree(request[c].name)
      BY <1>1, <3>2 DEF NameStaysFree
    <3> QED
      BY <2>4, <3>1, <3>3, <3>4 DEF NameFree, UserRow
  <2>6. ASSUME users' = users
        PROVE  NameFree(request[c].name)'
    <3>1. CASE pc[c] = "user"
      BY <1>1, <2>4, <2>6, <3>1 DEF NameStaysFree, NameFree
    <3>2. CASE pc[c] # "user"
      <4>1. Moves(c)
        <5>1. ASSUME NEW o \in Calls, o # c, Moves(o)
              PROVE  FALSE
          BY <1>5, <3>2, <5>1, OwnSteps
        <5>2. ~ Crash /\ ~ UNCHANGED vars
          BY <1>0, <1>5, <2>1, <3>2 DEF Crash, vars
        <5> QED
          BY <5>1, <5>2, Steps
      <4>2. CheckName(c)
        BY <1>0, <1>5, <2>3, <3>2, <4>1
        DEF Moves, Step, Login, Begin, RemoveDevice, RegisterDevice, TurnedAway, CreateUser,
            CreateUserRejected, RegisterFails, QueryUser, LoginFails, ReadUser, ReadUserFails,
            CheckDevice, CheckDeviceBlind, CreateDevice, CreateDeviceRejected, DeleteDevice,
            DeleteDeviceFails, Return, Goto, Reply, Committed
      <4>3. ~ \E u \in users : u.name = request[c].name
        BY <1>0, <1>5, <4>2 DEF CheckName, Reply
      <4> QED
        BY <2>4, <2>6, <4>3 DEF NameFree
    <3> QED
      BY <3>1, <3>2
  <2>7. users' = users \/ \E o \in Calls : CreateUser(o)
    BY Steps, TableSteps DEF Crash, vars, tables
  <2> QED
    BY <2>5, <2>6, <2>7
<1> QED
  BY <1>4, <1>5

\* An answer that is there after the step was there before, or the call has just given
\* it.
LEMMA AnswerSteps ==
    ASSUME TypeInv, [Next]_vars, NEW c \in Calls, request'[c] # None, answer'[c] # None
    PROVE  \/ request'[c] = request[c] /\ answer'[c] = answer[c] /\ request[c] # None
           \/ Step(c) /\ pc[c] # "idle" /\ request' = request
<1>1. ASSUME NEW o \in Calls, o # c, Moves(o)
      PROVE  request'[c] = request[c] /\ answer'[c] = answer[c]
  BY <1>1, OwnSteps
<1>2. ASSUME Moves(c)
      PROVE  Step(c) /\ pc[c] # "idle" /\ request' = request
  <2>1. ASSUME pc[c] = "idle"
        PROVE  FALSE
    <3>1. request[c] = None /\ answer[c] = None
      BY <2>1 DEF TypeInv, Asks
    <3>2. ~ TurnedAway(c)
      BY <3>1 DEF TurnedAway
    <3>3. ~ Step(c)
      BY <2>1
      DEF Step, CheckName, CreateUser, CreateUserRejected, RegisterFails, QueryUser, LoginFails,
          ReadUser, ReadUserFails, CheckDevice, CheckDeviceBlind, CreateDevice,
          CreateDeviceRejected, DeleteDevice, DeleteDeviceFails, Return
    <3>4. answer' = answer
      BY <1>2, <3>2, <3>3 DEF Moves, Login, Register, RemoveDevice, RegisterDevice, Begin, Goto
    <3> QED
      BY <3>1, <3>4
  <2>2. Step(c)
    BY <1>2, <2>1 DEF Moves, Login, Register, RemoveDevice, RegisterDevice, Begin, TurnedAway
  <2> QED
    BY <1>2, <2>1, <2>2, OwnSteps
<1>3. Crash => request'[c] = request[c] /\ answer'[c] = answer[c]
  BY DEF Crash
<1>4. UNCHANGED vars => request'[c] = request[c] /\ answer'[c] = answer[c]
  BY DEF vars
<1> QED
  BY <1>1, <1>2, <1>3, <1>4, Steps

\* Faults do not go away, and neither does a race.
LEMMA HistoryStays ==
    ASSUME TypeInv, [Next]_vars
    PROVE  /\ faults' = 0 => faults = 0 /\ ~ Crash
           /\ apart' => apart
<1>1. faults \in Nat
  BY MaxFaultsAssumption DEF TypeInv, TypeOK
<1>2. ASSUME NEW c \in Calls, Moves(c)
      PROVE  (faults' = 0 => faults = 0) /\ (apart' => apart)
  BY <1>2, OwnSteps
<1>3. Crash => faults' # 0 /\ apart' = apart
  BY <1>1 DEF Crash, Fault
<1>4. UNCHANGED vars => faults' = faults /\ apart' = apart
  BY DEF vars
<1> QED
  BY <1>2, <1>3, <1>4, Steps

\* Which step answers a Register that the database did not fail.
LEMMA RegisterAnswers ==
    ASSUME TypeInv, NEW c \in Calls, Step(c), faults' = 0,
           request[c] # None, request[c].op = "Register",
           answer'[c] \in {"AlreadyExists", "InvalidArgument"}
    PROVE  \/ CheckName(c)
           \/ CreateUserRejected(c) /\ answer'[c] = "InvalidArgument"
<1>0. /\ answer \in [Calls -> Codes \cup {None}] /\ faults \in Nat
      /\ None \notin Codes
      /\ pc[c] \notin {"login", "device", "register", "remove", "reply"}
      /\ pc[c] \notin {"reply", "done"} => answer[c] = None
  BY MaxFaultsAssumption, NoneAssumption DEF TypeInv, TypeOK, Asks, DeviceCalls
<1>1. ~ RegisterFails(c) /\ ~ ReadUserFails(c)
  BY <1>0 DEF RegisterFails, ReadUserFails, Fault
<1>2. ~ CreateUser(c)
  BY <1>0 DEF CreateUser, Goto, Codes
<1>3. ~ ReadUser(c)
  BY <1>0 DEF ReadUser, Reply
<1>4. CreateUserRejected(c) => answer'[c] = "InvalidArgument"
  BY <1>0 DEF CreateUserRejected, Reply
<1>5. CheckName(c) \/ CreateUserRejected(c)
  BY <1>0, <1>1, <1>2, <1>3
  DEF Step, QueryUser, LoginFails, CheckDevice, CheckDeviceBlind, CreateDevice,
      CreateDeviceRejected, DeleteDevice, DeleteDeviceFails, Return
<1> QED
  BY <1>4, <1>5

\* Which step refuses a device when the database does not fail.
LEMMA DeviceAnswers ==
    ASSUME TypeInv, NEW c \in Calls, Step(c), faults' = 0,
           request[c] # None, request[c].op = "RegisterDevice", answer[c] # "AlreadyExists",
           answer'[c] = "AlreadyExists"
    PROVE  CheckDevice(c) \/ CreateDeviceRejected(c)
<1>0. /\ answer \in [Calls -> Codes \cup {None}] /\ faults \in Nat
      /\ pc[c] \notin {"name", "user", "login", "read", "remove"}
  BY MaxFaultsAssumption DEF TypeInv, TypeOK, Asks, SignIns
<1>1. ~ CheckDeviceBlind(c)
  BY <1>0 DEF CheckDeviceBlind, Fault
<1>2. ~ CreateDevice(c)
  BY <1>0 DEF CreateDevice, Committed
<1>3. ~ Return(c)
  BY DEF Return, Goto
<1> QED
  BY <1>0, <1>1, <1>2, <1>3
  DEF Step, CheckName, CreateUser, CreateUserRejected, RegisterFails, QueryUser, LoginFails,
      ReadUser, ReadUserFails, DeleteDevice, DeleteDeviceFails

\* A refusal stays true: accounts stay, and a device goes by a removal.  A new one is
\* true when it is given.
LEMMA RefusalsAreTrueNext ==
    ASSUME TypeInv, NameStaysFree, RefusalsAreTrue, [Next]_vars
    PROVE  RefusalsAreTrue'
<1> SUFFICES ASSUME faults' = 0
             PROVE  /\ \A c \in Told("Register", "AlreadyExists")' :
                          \E u \in users' : u.name = request'[c].name
                    /\ \A c \in Told("Register", "InvalidArgument")' :
                          request'[c].form = "valid" => ~ apart'
                    /\ \A c \in Told("RegisterDevice", "AlreadyExists")' :
                          \/ request'[c].form # "valid"
                          \/ \E d \in devices' : d.device = request'[c].device
                          \/ \E o \in Asked("RemoveDevice")' :
                                request'[o].device = request'[c].device
  BY DEF RefusalsAreTrue
<1>0. /\ faults = 0 /\ (apart' => apart) /\ None \notin Codes
      /\ answer \in [Calls -> Codes \cup {None}] /\ faults \in Nat
  BY HistoryStays, NoneAssumption DEF TypeInv, TypeOK
<1>1. ASSUME NEW c \in Told("Register", "AlreadyExists")'
      PROVE  \E u \in users' : u.name = request'[c].name
  <2>1. /\ c \in Calls /\ request'[c] # None /\ request'[c].op = "Register"
        /\ answer'[c] = "AlreadyExists" /\ answer'[c] # None
    BY <1>0, <1>1 DEF Told, Asked, Codes
  <2>2. CASE request'[c] = request[c] /\ answer'[c] = answer[c] /\ request[c] # None
    <3>1. c \in Told("Register", "AlreadyExists")
      BY <2>1, <2>2 DEF Told, Asked
    <3> QED
      BY <1>0, <2>2, <3>1, UsersStay DEF RefusalsAreTrue
  <2>3. CASE Step(c) /\ pc[c] # "idle" /\ request' = request
    <3>1. CheckName(c)
      BY <2>1, <2>3, RegisterAnswers
    <3>2. \E u \in users : u.name = request[c].name
      <4>1. answer[c] = None
        BY <2>1, <3>1 DEF CheckName, TypeInv, Asks
      <4> QED
        BY <1>0, <2>1, <3>1, <4>1 DEF CheckName, Reply, Goto
    <3> QED
      BY <2>3, <3>2, UsersStay
  <2> QED
    BY <2>1, <2>2, <2>3, AnswerSteps
<1>2. ASSUME NEW c \in Told("Register", "InvalidArgument")', request'[c].form = "valid"
      PROVE  ~ apart'
  <2>1. /\ c \in Calls /\ request'[c] # None /\ request'[c].op = "Register"
        /\ answer'[c] = "InvalidArgument" /\ answer'[c] # None
    BY <1>0, <1>2 DEF Told, Asked, Codes
  <2>2. CASE request'[c] = request[c] /\ answer'[c] = answer[c] /\ request[c] # None
    <3>1. c \in Told("Register", "InvalidArgument")
      BY <2>1, <2>2 DEF Told, Asked
    <3> QED
      BY <1>0, <1>2, <2>2, <3>1 DEF RefusalsAreTrue
  <2>3. CASE Step(c) /\ pc[c] # "idle" /\ request' = request
    <3>1. ~ CheckName(c)
      <4>1. CheckName(c) => answer[c] = None
        BY <2>1 DEF CheckName, TypeInv, Asks
      <4> QED
        BY <1>0, <1>2, <2>1, <2>3, <4>1 DEF CheckName, Reply, Goto, TakenReply
    <3>2. CreateUserRejected(c)
      BY <2>1, <2>3, <3>1, RegisterAnswers
    <3>3. pc[c] = "user" /\ ~ NameFree(request[c].name)
      BY <1>2, <2>3, <3>2 DEF CreateUserRejected, UserFits
    <3> QED
      BY <1>0, <2>1, <3>3 DEF NameStaysFree
  <2> QED
    BY <2>1, <2>2, <2>3, AnswerSteps
<1>3. ASSUME NEW c \in Told("RegisterDevice", "AlreadyExists")', request'[c].form = "valid"
      PROVE  \/ \E d \in devices' : d.device = request'[c].device
             \/ \E o \in Asked("RemoveDevice")' : request'[o].device = request'[c].device
  <2>1. /\ c \in Calls /\ request'[c] # None /\ request'[c].op = "RegisterDevice"
        /\ answer'[c] = "AlreadyExists" /\ answer'[c] # None
    BY <1>0, <1>3 DEF Told, Asked, Codes
  <2>2. \A o \in Asked("RemoveDevice") : o \in Asked("RemoveDevice")' /\ request'[o] = request[o]
    BY RequestsStay DEF Asked
  <2>3. CASE request'[c] = request[c] /\ answer'[c] = answer[c] /\ request[c] # None
    <3>1. c \in Told("RegisterDevice", "AlreadyExists")
      BY <2>1, <2>3 DEF Told, Asked
    <3>2. \/ \E d \in devices : d.device = request[c].device
          \/ \E o \in Asked("RemoveDevice") : request[o].device = request[c].device
      BY <1>0, <1>3, <2>3, <3>1 DEF RefusalsAreTrue
    <3>3. ASSUME NEW d \in devices, d.device = request[c].device, d \notin devices'
          PROVE  \E o \in Asked("RemoveDevice") : request[o].device = request[c].device
      BY <3>3, DevicesStay
    <3> QED
      BY <2>2, <2>3, <3>2, <3>3
  <2>4. CASE /\ Step(c) /\ pc[c] # "idle" /\ request' = request
             /\ answer[c] # "AlreadyExists"
    <3>1. CheckDevice(c) \/ CreateDeviceRejected(c)
      BY <2>1, <2>4, DeviceAnswers
    <3>2. devices' = devices
      BY <3>1 DEF CheckDevice, CreateDeviceRejected, tables
    <3>3. \E d \in devices : d.device = request[c].device
      <4>1. CASE CheckDevice(c)
        BY <1>0, <2>1, <2>4, <4>1 DEF CheckDevice, Goto
      <4>2. CASE CreateDeviceRejected(c)
        BY <1>0, <1>3, <2>4, <4>2 DEF CreateDeviceRejected, DeviceFits, DeviceFree, Fault
      <4> QED
        BY <3>1, <4>1, <4>2
    <3> QED
      BY <2>4, <3>2, <3>3
  <2> QED
    BY <2>1, <2>3, <2>4, AnswerSteps
<1> QED
  BY <1>1, <1>2, <1>3

\* What a refusal says is so, and a Register is refused as invalid only when it raced
\* another of its name.
THEOREM RefusalsAreSo == Spec => []RefusalsAreTrue
<1>1. Init => RefusalsAreTrue
  BY DEF Init, RefusalsAreTrue, Told, Asked
<1> QED
  BY <1>1, TypeInvInit, TypeInvNext, NameStaysFreeNext, RefusalsAreTrueNext, PTL DEF Spec

-----------------------------------------------------------------------------
(* The process ends when no call needs it.                                 *)
(*                                                                         *)
(* main leaves Serve only when the gRPC server has stopped, also when it   *)
(* was stopped before it served, and a gRPC server that does not serve has *)
(* no call in flight, nor starts one.  So when the process ends there is   *)
(* no call to end with it.                                                 *)

\* A gRPC server that neither serves nor is being stopped runs no handler.
StoppedIsIdle ==
    grpc \notin {"serving", "stopping"} => \A r \in Handlers : requests[r] # "running"

\* main serves from Serve on, and is past it only after the gRPC server has stopped,
\* or has ended before; and no call was killed: unless a server has failed.
MainWaited ==
    "failed" \notin {grpc, rest} =>
        /\ main \in Starting => grpc \in {"down", "listening", "stopped"}
        /\ main \in {"deferred", "closed"} => grpc = "stopped"
        /\ main = "exited" => grpc \notin {"serving", "stopping"}
        /\ \A r \in Handlers : requests[r] # "killed"

\* The gRPC server listens before main handles signals, and only the goroutine of the
\* signal stops it.
StopperStops ==
    /\ stopper = "none" => /\ main \in Setup \cup {"signals", "exited"}
                           /\ grpc \in {"down", "listening"}
    /\ stopper = "waiting" => grpc \in {"listening", "serving", "failed"}
    /\ main \in {"storage", "signals", "rest", "serve"} => grpc # "down"
    /\ main \in Setup \cup {"signals"} => stopper = "none"
    /\ main = "serving" => grpc # "listening"

\* os.Exit and log.Fatalf end the process with the server that failed.
FailedIsOver == "failed" \in {grpc, rest} => main = "exited"

IInv == LifeTypeOK /\ StoppedIsIdle /\ MainWaited /\ StopperStops /\ FailedIsOver

\* IInv holds when main begins.
LEMMA IInvInit == LifeInit => IInv
BY DEF LifeInit, IInv, LifeTypeOK, StoppedIsIdle, MainWaited, StopperStops, FailedIsOver, Requests,
   Handlers, Starting, Setup

\* Every step of the goroutines and of the clients keeps IInv.
LEMMA IInvNext == IInv /\ [LifeNext]_lifeVars => IInv'
<1> SUFFICES ASSUME IInv, [LifeNext]_lifeVars
             PROVE  IInv'
    OBVIOUS
<1> USE DEF IInv, LifeTypeOK, StoppedIsIdle, MainWaited, StopperStops, FailedIsOver, Requests,
           Handlers, Alive, Starting, Setup
<1>1. ASSUME NEW r \in Requests, StartCall(r)
      PROVE  IInv'
    BY <1>1 DEF StartCall
<1>2. ASSUME NEW r \in Requests, StartUpload(r)
      PROVE  IInv'
    BY <1>2, KindsAssumption DEF StartUpload
<1>3. ASSUME NEW r \in Requests, EndRequest(r)
      PROVE  IInv'
    BY <1>3 DEF EndRequest
<1>4. ASSUME NEW r \in Requests, EndStream(r)
      PROVE  IInv'
    BY <1>4 DEF EndStream
<1>5. CASE Signal
    BY <1>5 DEF Signal
<1>6. CASE RestFails
    BY <1>6 DEF RestFails, Kill
<1>7. CASE GracefulStop
    BY <1>7 DEF GracefulStop
<1>8. CASE Stopped
  <2>1. \A r \in Handlers : requests[r] # "running"
      BY <1>8 DEF Stopped, InFlight
  <2>. QED  BY <1>8, <2>1 DEF Stopped
<1>9. CASE Shutdown
    BY <1>9 DEF Shutdown
<1>10. CASE ShutdownReturns
    BY <1>10 DEF ShutdownReturns
<1>11. CASE ServeReturns
    BY <1>11 DEF ServeReturns
<1>12. CASE CloseDatabase
    BY <1>12 DEF CloseDatabase
<1>13. CASE Exit
    BY <1>13 DEF Exit, Kill
<1>14. CASE UNCHANGED lifeVars
    BY <1>14 DEF lifeVars
<1>15. CASE Start
    BY <1>15 DEF Start, SetupDB, CreateSchema, SetupGRPC, SetupREST, SetupFails,
                 HandleSignals, StartREST, Serve
<1>16. CASE ListenREST
    BY <1>16 DEF ListenREST
<1>17. CASE SignalKills
    BY <1>17 DEF SignalKills
<1>18. CASE ServeFails
    BY <1>18 DEF ServeFails, Kill
<1>. QED
    BY <1>1, <1>2, <1>3, <1>4, <1>5, <1>6, <1>7, <1>8, <1>9, <1>10, <1>11,
       <1>12, <1>13, <1>14, <1>15, <1>16, <1>17, <1>18 DEF LifeNext

\* IInv is an invariant of the shutdown.
THEOREM Invariant == LifeSpec => []IInv
BY IInvInit, IInvNext, PTL DEF LifeSpec

\* However the goroutines and the clients interleave, no gRPC call loses its
\* database or its process before it has returned, unless Serve or the REST server
\* fails.
THEOREM CallsAreFinished == LifeSpec => []CallsFinish
<1>1. IInv => CallsFinish
    BY DEF IInv, LifeTypeOK, StoppedIsIdle, MainWaited, CallsFinish
<1>. QED  BY Invariant, <1>1, PTL
=============================================================================
