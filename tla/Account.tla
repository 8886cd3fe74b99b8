------------------------------ MODULE Account ------------------------------
(***************************************************************************)
(* Accounts, sessions and devices of EchoVault: src/internal/service/user, *)
(* the answers of src/internal/grpc/handler_user.go, and the interceptor   *)
(* that lets a call in (src/internal/grpc/auth_interceptor.go).            *)
(*                                                                         *)
(* Register asks whether the name is taken, hashes the password, inserts   *)
(* the account and reads it back; Login queries the name, compares the     *)
(* password and reads the account; RegisterDevice asks for the device id   *)
(* and inserts; RemoveDevice is one statement.  The columns username and   *)
(* device_id are unique, and every call runs in a goroutine of its own.    *)
(*                                                                         *)
(* A token is the account it was signed for: no handler reads the device   *)
(* in it.  The id of a row is the call that inserted it.                   *)
(***************************************************************************)
EXTENDS Naturals, TLC

CONSTANTS
    Calls,
    Names,       \* usernames
    Passwords,   \* passwords Register accepts
    DeviceIds,
    Faults,      \* what may go wrong: "read", "write", "crash"
    MaxFaults,   \* bound: faults in one behaviour
    None         \* no request, no answer, no token

ASSUME FaultsAssumption == Faults \subseteq {"read", "write", "crash"}
ASSUME MaxFaultsAssumption == MaxFaults \in Nat

VARIABLES
    users,    \* the users table
    devices,  \* the devices table
    pc,       \* where each call is
    request,  \* what it asks
    answer,   \* the code the handler returns
    session,  \* the account of the token a Register or Login was given
    apart,    \* history: no two Registers of a name were in flight together
    faults    \* faults so far

tables == <<users, devices>>
vars == <<tables, pc, request, answer, session, apart, faults>>

Running == {"name", "user", "read", "login", "device", "register", "remove", "reply"}
Codes == {"OK", "AlreadyExists", "InvalidArgument", "Internal", "NotFound", "Unauthenticated"}

\* A request is valid, or has a weak password, or a text too long for its column.
Forms == {"valid", "weak", "long"}
SignIns == [op : {"Register", "Login"}, name : Names, password : Passwords, form : Forms]
DeviceCalls ==
    [op : {"RegisterDevice", "RemoveDevice"}, user : Calls, device : DeviceIds, form : Forms]

ASSUME NoneAssumption == None \notin Calls \cup Codes \cup SignIns \cup DeviceCalls

TypeOK ==
    /\ users \subseteq [id : Calls, name : Names, password : Passwords]
    /\ devices \subseteq [id : Calls, device : DeviceIds, user : Calls]
    /\ pc \in [Calls -> {"idle", "done"} \cup Running]
    /\ request \in [Calls -> SignIns \cup DeviceCalls \cup {None}]
    /\ answer \in [Calls -> Codes \cup {None}]
    /\ session \in [Calls -> Calls \cup {None}]
    /\ apart \in BOOLEAN
    /\ faults \in 0..MaxFaults

Init ==
    /\ users = {}
    /\ devices = {}
    /\ pc = [c \in Calls |-> "idle"]
    /\ request = [c \in Calls |-> None]
    /\ answer = [c \in Calls |-> None]
    /\ session = [c \in Calls |-> None]
    /\ apart = TRUE
    /\ faults = 0

Asked(op) == {c \in Calls : request[c] # None /\ request[c].op = op}

Fault(kind) == kind \in Faults /\ faults < MaxFaults /\ faults' = faults + 1

Goto(c, step) == pc' = [pc EXCEPT ![c] = step] /\ UNCHANGED answer

Reply(c, code) ==
    /\ pc' = [pc EXCEPT ![c] = "done"]
    /\ answer' = [answer EXCEPT ![c] = code]

\* The answer to a statement that changed a table is on its way, and may be lost.
Committed(c) ==
    /\ pc' = [pc EXCEPT ![c] = "reply"]
    /\ answer' = [answer EXCEPT ![c] = "OK"]

Begin(c, what, step) ==
    /\ pc[c] = "idle"
    /\ request' = [request EXCEPT ![c] = what]
    /\ Goto(c, step)
    /\ UNCHANGED <<tables, session, faults>>

-----------------------------------------------------------------------------
(* Register and Login, which the interceptor lets in without a token. *)

Register(c, n, p, form) ==
    /\ Begin(c, [op |-> "Register", name |-> n, password |-> p, form |-> form], "name")
    /\ apart' = (apart /\ \A o \in Asked("Register") :
                                pc[o] \in Running => request[o].name # n)

\* Mutant: the text the handler knows is not that of the error.
TakenReplyUnknown == "InvalidArgument"

\* The service returns ErrUsernameExists, which the handler knows by its text.
TakenReply == "AlreadyExists"

\* ValidatePassword comes before the query; bcrypt, which refuses what is longer than
\* 72 bytes, comes after it.
CheckName(c) ==
    /\ pc[c] = "name"
    /\ \/ request[c].form = "weak" /\ Reply(c, "InvalidArgument")
       \/ /\ request[c].form # "weak"
          /\ IF \E u \in users : u.name = request[c].name
               THEN Reply(c, TakenReply) ELSE Goto(c, "user")
    /\ UNCHANGED <<tables, request, session, apart, faults>>

\* check of the builder: username and display name are not too long.
UserFits(c) == request[c].form # "long"

UserRow(c) == [id |-> c, name |-> request[c].name, password |-> request[c].password]

\* Mutant: the column is not unique.
NameFreeAlways(n) == TRUE

\* The unique column username lets the row in.
NameFree(n) == \A u \in users : u.name # n

CreateUser(c) ==
    /\ pc[c] = "user"
    /\ UserFits(c)
    /\ NameFree(request[c].name)
    /\ users' = users \cup {UserRow(c)}
    /\ session' = [session EXCEPT ![c] = c]
    /\ Goto(c, "read")
    /\ UNCHANGED <<devices, request, apart, faults>>

\* A validator of the builder, or the unique column.  Every error but the taken name
\* is an invalid argument to the handler.
CreateUserRejected(c) ==
    /\ pc[c] = "user"
    /\ ~ UserFits(c) \/ ~ NameFree(request[c].name)
    /\ Reply(c, "InvalidArgument")
    /\ UNCHANGED <<tables, request, session, apart, faults>>

RegisterFails(c) ==
    /\ \/ pc[c] = "name" /\ Fault("read")
       \/ pc[c] = "user" /\ Fault("write")
    /\ Reply(c, "InvalidArgument")
    /\ UNCHANGED <<tables, request, session, apart>>

Login(c, n, p) ==
    /\ Begin(c, [op |-> "Login", name |-> n, password |-> p, form |-> "valid"], "login")
    /\ UNCHANGED apart

\* Mutant: any account of that name.
SignsInUnchecked(u, r) == u.name = r.name

\* CompareHashAndPassword accepts the password of the account.
SignsIn(u, r) == u.name = r.name /\ u.password = r.password

\* Only: the query fails for no row and for two.
QueryUser(c) ==
    LET rows == {u \in users : u.name = request[c].name}
    IN  /\ pc[c] = "login"
        /\ \/ \E u \in rows :
                /\ rows = {u} /\ SignsIn(u, request[c])
                /\ session' = [session EXCEPT ![c] = u.id]
                /\ Goto(c, "read")
           \/ /\ \A u \in rows : rows # {u} \/ ~ SignsIn(u, request[c])
              /\ Reply(c, "Unauthenticated")
              /\ UNCHANGED session
        /\ UNCHANGED <<tables, request, apart, faults>>

LoginFails(c) ==
    /\ pc[c] = "login"
    /\ Fault("read")
    /\ Reply(c, "Unauthenticated")
    /\ UNCHANGED <<tables, request, session, apart>>

\* Both handlers read the account by its id for their answer.
ReadUser(c) ==
    /\ pc[c] = "read"
    /\ Reply(c, IF \E u \in users : u.id = session[c] THEN "OK" ELSE "Internal")
    /\ UNCHANGED <<tables, request, session, apart, faults>>

\* The account is there, but the client gets no token.
ReadUserFails(c) ==
    /\ pc[c] = "read"
    /\ Fault("read")
    /\ Reply(c, "Internal")
    /\ session' = [session EXCEPT ![c] = None]
    /\ UNCHANGED <<tables, request, apart>>

-----------------------------------------------------------------------------
(* Device calls, which carry a token. *)

\* AuthInterceptor: a token the server signed, and that has not expired yet.
Authentic(s) == pc[s] = "done" /\ session[s] # None

RegisterDevice(c, s, d, form) ==
    /\ Authentic(s)
    /\ Begin(c, [op |-> "RegisterDevice", user |-> session[s], device |-> d, form |-> form],
             "device")
    /\ UNCHANGED apart

RemoveDevice(c, s, d) ==
    /\ Authentic(s)
    /\ Begin(c, [op |-> "RemoveDevice", user |-> session[s], device |-> d, form |-> "valid"],
             "remove")
    /\ UNCHANGED apart

\* Without a token, or with one that is older than tokenExpiry, the handler is not called.
TurnedAway(c) ==
    /\ pc[c] = "idle"
    /\ Reply(c, "Unauthenticated")
    /\ UNCHANGED <<tables, request, session, apart, faults>>

CheckDevice(c) ==
    /\ pc[c] = "device"
    /\ IF \E r \in devices : r.device = request[c].device
         THEN Reply(c, "AlreadyExists") ELSE Goto(c, "register")
    /\ UNCHANGED <<tables, request, session, apart, faults>>

\* The error of Exist is ignored: a query that fails answers false.
CheckDeviceBlind(c) ==
    /\ pc[c] = "device"
    /\ Fault("read")
    /\ Goto(c, "register")
    /\ UNCHANGED <<tables, request, session, apart>>

\* check of the builder: the device name is not too long.
DeviceFits(c) == request[c].form # "long"

DeviceRow(c) == [id |-> c, device |-> request[c].device, user |-> request[c].user]

\* Mutant: device ids are unique among the devices of a user.
DeviceFreeOfUser(c) ==
    \A r \in devices : r.device = request[c].device => r.user # request[c].user

\* The unique column device_id lets the row in.
DeviceFree(c) == \A r \in devices : r.device # request[c].device

CreateDevice(c) ==
    /\ pc[c] = "register"
    /\ DeviceFits(c)
    /\ DeviceFree(c)
    /\ devices' = devices \cup {DeviceRow(c)}
    /\ Committed(c)
    /\ UNCHANGED <<users, request, session, apart, faults>>

\* The handler takes every error for a device that is registered already.
CreateDeviceRejected(c) ==
    /\ pc[c] = "register"
    /\ \/ (~ DeviceFits(c) \/ ~ DeviceFree(c)) /\ UNCHANGED faults
       \/ Fault("write")
    /\ Reply(c, "AlreadyExists")
    /\ UNCHANGED <<tables, request, session, apart>>

\* Mutant: the statement names the device only.
OwnOfAnyone(r) == {d \in devices : d.device = r.device}

\* What DELETE ... WHERE device_id = ? AND user_id = ? deletes.
Own(r) == {d \in devices : d.device = r.device /\ d.user = r.user}

DeleteDevice(c) ==
    /\ pc[c] = "remove"
    /\ devices' = devices \ Own(request[c])
    /\ IF Own(request[c]) = {} THEN Reply(c, "NotFound") ELSE Committed(c)
    /\ UNCHANGED <<users, request, session, apart, faults>>

\* The handler takes every error for a device that is not found.
DeleteDeviceFails(c) ==
    /\ pc[c] = "remove"
    /\ Fault("write")
    /\ Reply(c, "NotFound")
    /\ UNCHANGED <<tables, request, session, apart>>

-----------------------------------------------------------------------------

\* The client has the answer.
Return(c) ==
    /\ pc[c] = "reply"
    /\ Goto(c, "done")
    /\ UNCHANGED <<tables, request, session, apart, faults>>

\* The calls in flight end without an answer; the tables stay.
Crash ==
    LET lost == {c \in Calls : pc[c] \in Running}
    IN  /\ Fault("crash") /\ lost # {}
        /\ pc' = [c \in Calls |-> IF c \in lost THEN "done" ELSE pc[c]]
        /\ answer' = [c \in Calls |-> IF c \in lost THEN None ELSE answer[c]]
        /\ session' = [c \in Calls |-> IF c \in lost THEN None ELSE session[c]]
        /\ UNCHANGED <<tables, request, apart>>

Step(c) ==
    \/ CheckName(c) \/ CreateUser(c) \/ CreateUserRejected(c) \/ RegisterFails(c)
    \/ QueryUser(c) \/ LoginFails(c) \/ ReadUser(c) \/ ReadUserFails(c)
    \/ CheckDevice(c) \/ CheckDeviceBlind(c)
    \/ CreateDevice(c) \/ CreateDeviceRejected(c)
    \/ DeleteDevice(c) \/ DeleteDeviceFails(c)
    \/ Return(c)

Next ==
    \/ \E c \in Calls, n \in Names, p \in Passwords :
        Login(c, n, p) \/ \E form \in Forms : Register(c, n, p, form)
    \/ \E c, s \in Calls, d \in DeviceIds :
        RemoveDevice(c, s, d) \/ \E form \in {"valid", "long"} : RegisterDevice(c, s, d, form)
    \/ \E c \in Calls : TurnedAway(c) \/ Step(c)
    \/ Crash

Spec == Init /\ [][Next]_vars

-----------------------------------------------------------------------------
(* Properties. *)

Told(op, code) == {c \in Asked(op) : answer[c] = code}

\* The name and password of an account open it, and nothing else does: a Login is
\* refused only when no account has them or the query failed, and a token is that of
\* the account registered with what the client gave.  Register looks for the name and
\* inserts in two statements (user/service.go:84-108), and the query of Login fails
\* when two accounts have one name (user/service.go:120-127).
PasswordOpens ==
    [][\A c \in Calls :
        LET given == {u \in users' : /\ u.name = request[c].name
                                     /\ u.password = request[c].password}
        IN  /\ (pc[c] = "login" /\ answer'[c] = "Unauthenticated")
                    => given = {} \/ faults' # faults
            /\ session'[c] # session[c] /\ session'[c] # None
                    => \E u \in given : u.id = session'[c]]_vars

\* What a refusal says is so, as long as the request is valid and the database answers.
\* A name or a device that is said to be taken is: no one else could have let go of it
\* but by a removal.  And a Register is refused as invalid only when it raced another
\* (user/service.go:84-108, user/device.go:21-37, handler_user.go:29-35, 92-95).
RefusalsAreTrue ==
    faults = 0 =>
        /\ \A c \in Told("Register", "AlreadyExists") :
            \E u \in users : u.name = request[c].name
        /\ \A c \in Told("Register", "InvalidArgument") :
            request[c].form = "valid" => ~ apart
        /\ \A c \in Told("RegisterDevice", "AlreadyExists") :
            \/ request[c].form # "valid"
            \/ \E d \in devices : d.device = request[c].device
            \/ \E o \in Asked("RemoveDevice") : request[o].device = request[c].device

\* A device has one user, and one that was registered is that user's until that user
\* removes it (user/device.go:20-39, 50-63).
DeviceKept ==
    /\ \A d1, d2 \in devices : d1.device = d2.device => d1 = d2
    /\ \A c \in Told("RegisterDevice", "OK") :
        \/ \E d \in devices : d.id = c /\ d.user = request[c].user
        \/ \E o \in Asked("RemoveDevice") :
            /\ request[o].user = request[c].user
            /\ request[o].device = request[c].device
=============================================================================
