--------------------------- MODULE CredentialBroker ---------------------------
(***************************************************************************)
(* The just-in-time credential broker of pkg/credentials: IssueLease,      *)
(* RevokeLease, RenewLease and Shutdown, the background timers that call   *)
(* RevokeLease, and the drivers (generic token, PostgreSQL, Redis).        *)
(*                                                                         *)
(* Every broker call holds b.mu in two short critical sections and calls   *)
(* the driver between them without it.  A call is therefore a sequence of  *)
(* steps of one goroutine, and any other goroutine may run between two     *)
(* steps.  A goroutine is a caller of the broker or the goroutine that     *)
(* time.AfterFunc starts for a timer.                                      *)
(*                                                                         *)
(* A Lease value is shared by pointer: RevokeLease sets Revoked on the     *)
(* object it found in the map, while RenewLease may replace the map entry  *)
(* by a clone.  object[l][v] is version v of lease l in memory, leases[l]  *)
(* the version that the map b.leases holds.                                *)
(***************************************************************************)
EXTENDS Integers, FiniteSets

CONSTANTS
    Lease,           \* lease identifiers (GenerateLeaseID never repeats one)
    Caller,          \* goroutines that call the broker
    Target,          \* target names that the driver registry may hold
    RequestTarget,   \* the targets that callers ask for
    InitialDrivers,  \* the registry when the broker starts to serve
    Registrations,   \* <<target, driver>> pairs that RegisterDriver may add later
    FailingDrivers,  \* drivers whose backend may refuse a command
    RequestTTL,      \* TTLs callers ask for
    MinTTL, MaxTTL, DefaultTTL,
    MaxRenewals,     \* bound: RenewLease calls per lease
    MaxTime,         \* bound: the clock runs on beyond it only for armed timers
    None

\* Name() of the three drivers.
Driver == {"generic_token", "postgres", "redis"}

\* Version 1 is the lease IssueLease records, version r + 1 what the r-th
\* RenewLease call makes; a timer is named by the call that arms it.
Version == 1..MaxRenewals + 1
Timer == Lease \X Version
Goroutine == Caller \cup Timer

ASSUME BrokerAssumption ==
    /\ Driver \subseteq Target
    /\ RequestTarget \subseteq Target
    /\ InitialDrivers \in [Target -> Driver \cup {None}]
    /\ InitialDrivers["generic_token"] # None
    /\ None \notin Driver
    /\ Registrations \subseteq Target \X Driver
    /\ FailingDrivers \subseteq Driver \ {"generic_token"}
    /\ RequestTTL \subseteq Int
    /\ MinTTL \in Nat /\ MaxTTL \in Nat /\ DefaultTTL \in Nat
    /\ MaxRenewals \in Nat
    /\ MaxTime \in Nat
    /\ None \notin Lease
    /\ Caller \cap Timer = {}

VARIABLES
    now,         \* the clock
    closed,      \* b.closed
    drivers,     \* b.drivers
    leases,      \* b.leases: the version in the map, 0 when there is no entry
    object,      \* the Lease objects in memory
    timers,      \* b.timers: the timer in the map, 0 when there is no entry
    deadline,    \* when a timer is due
    op,          \* what each goroutine is doing
    renewals,    \* RenewLease calls made for each lease
    credential,  \* the backend: who minted the secret and whether it works
    revokeFailed,\* history: leases for which some driver.Revoke returned an error
    late         \* history: leases recorded or renewed after Shutdown closed the broker

vars == <<now, closed, drivers, leases, object, timers, deadline, op, renewals,
          credential, revokeFailed, late>>

-------------------------------------------------------------------------------

Object == [target: Target, ttl: Int, expiresAt: Int, revoked: BOOLEAN]

NoObject == [target |-> "generic_token", ttl |-> 0, expiresAt |-> 0, revoked |-> FALSE]

Credential == [driver: Driver, state: {"none", "live", "dropped"}]

\* Program points.  A timer is idle, armed, stopped, fired (its goroutine is
\* about to call RevokeLease) or done; the others are points of a broker call.
Point == {"idle", "armed", "stopped", "fired", "done",
          "generate", "record",
          "drop", "mark",
          "extend", "clone", "rearm",
          "shutdown"}

\* lease, version: the lease of the call and the object it read from the map;
\* fresh: the timer (and version) a renewal makes; object: the request, then
\* the object that the driver returned; todo: what Shutdown has yet to revoke.
Operation == [pc: Point, lease: Lease \cup {None}, version: 0..MaxRenewals + 1,
              fresh: Version, driver: Driver, object: Object, todo: SUBSET Lease]

Idle == [pc |-> "idle", lease |-> None, version |-> 0, fresh |-> 1,
         driver |-> "generic_token", object |-> NoObject, todo |-> {}]

DriverFor(t) == IF drivers[t] # None THEN drivers[t] ELSE drivers["generic_token"]

Granted(ttl) == IF ttl <= 0 THEN DefaultTTL ELSE ttl

Recorded(l) == leases[l] # 0

Current(l) == object[l][leases[l]]

Unrevoked(l) == Recorded(l) /\ ~Current(l).revoked

\* What ActiveLeases returns.
ActiveLeases == {l \in Lease : Unrevoked(l) /\ now <= Current(l).expiresAt}

\* timer.Stop: a timer that has fired is past stopping.
Stop(o, T) == [g \in Goroutine |->
                 IF g \in T /\ o[g].pc = "armed" THEN [o[g] EXCEPT !.pc = "stopped"] ELSE o[g]]

\* The timer that b.timers holds for l, as a set.
Registered(l) == {<<l, v>> : v \in {timers[l]} \cap Version}

\* The goroutine returns from the broker call it made for op[g].lease.
Return(g) ==
    IF g \in Timer THEN [Idle EXCEPT !.pc = "done"]
    ELSE IF op[g].todo = {} THEN Idle
    ELSE [Idle EXCEPT !.pc = "shutdown", !.todo = op[g].todo \ {op[g].lease}]

-------------------------------------------------------------------------------
Init ==
    /\ now = 0
    /\ closed = FALSE
    /\ drivers = InitialDrivers
    /\ leases = [l \in Lease |-> 0]
    /\ object = [l \in Lease |-> [v \in Version |-> NoObject]]
    /\ timers = [l \in Lease |-> 0]
    /\ deadline = [t \in Timer |-> 0]
    /\ op = [g \in Goroutine |-> Idle]
    /\ renewals = [l \in Lease |-> 0]
    /\ credential = [l \in Lease |-> [driver |-> "generic_token", state |-> "none"]]
    /\ revokeFailed = {}
    /\ late = {}

RegisterDriver(t, d) ==
    /\ <<t, d>> \in Registrations
    /\ drivers' = [drivers EXCEPT ![t] = d]
    /\ UNCHANGED <<now, closed, leases, object, timers, deadline, op, renewals,
                   credential, revokeFailed, late>>

\* IssueLease up to its first Unlock.  A refused request changes nothing.
IssueLease(g, t, ttl) ==
    /\ op[g].pc = "idle"
    /\ ~closed
    /\ MinTTL <= Granted(ttl) /\ Granted(ttl) <= MaxTTL
    /\ op' = [op EXCEPT ![g].pc = "generate",
                        ![g].driver = DriverFor(t),
                        ![g].object = [NoObject EXCEPT !.target = t, !.ttl = Granted(ttl)]]
    /\ UNCHANGED <<now, closed, drivers, leases, object, timers, deadline, renewals,
                   credential, revokeFailed, late>>

\* driver.Generate mints the secret.  The generic driver keeps the requested
\* target in the lease, the other two write their own name.  It may fail; when
\* the bounded supply of lease identifiers is used up, it does.
Generate(g) ==
    /\ op[g].pc = "generate"
    /\ \/ \E l \in Lease :
            /\ credential[l].state = "none"
            /\ credential' = [credential EXCEPT ![l] = [driver |-> op[g].driver, state |-> "live"]]
            /\ op' = [op EXCEPT ![g].pc = "record",
                                ![g].lease = l,
                                ![g].object.target = IF op[g].driver = "generic_token"
                                                     THEN @ ELSE op[g].driver,
                                ![g].object.expiresAt = now + op[g].object.ttl]
       \/ /\ op[g].driver \in FailingDrivers \/ \A l \in Lease : credential[l].state # "none"
          /\ op' = [op EXCEPT ![g] = Idle]
          /\ UNCHANGED credential
    /\ UNCHANGED <<now, closed, drivers, leases, object, timers, deadline, renewals,
                   revokeFailed, late>>

\* The second critical section of IssueLease; b.closed is not read again.
RecordLease(g) ==
    LET l == op[g].lease IN
    /\ op[g].pc = "record"
    /\ leases' = [leases EXCEPT ![l] = 1]
    /\ object' = [object EXCEPT ![l][1] = op[g].object]
    /\ timers' = [timers EXCEPT ![l] = 1]
    /\ deadline' = [deadline EXCEPT ![<<l, 1>>] = now + op[g].object.ttl]
    /\ op' = [op EXCEPT ![<<l, 1>>].pc = "armed", ![g] = Idle]
    /\ late' = IF closed THEN late \cup {l} ELSE late
    /\ UNCHANGED <<now, closed, drivers, renewals, credential, revokeFailed>>

-------------------------------------------------------------------------------
\* The goroutine g is about to run RevokeLease(l): a caller, the goroutine of a
\* timer of l that fired, or Shutdown for a lease it collected.
CallsRevoke(g, l) ==
    \/ g \in Caller /\ op[g].pc = "idle"
    \/ g \in Timer /\ op[g].pc = "fired" /\ g[1] = l
    \/ op[g].pc = "shutdown" /\ l \in op[g].todo

\* Mutant: the lease is marked before its driver is called.
RevokeLeaseMarkingFirst(g, l) ==
    /\ CallsRevoke(g, l)
    /\ Unrevoked(l)
    /\ timers' = [timers EXCEPT ![l] = 0]
    /\ object' = [object EXCEPT ![l][leases[l]].revoked = TRUE]
    /\ op' = [Stop(op, Registered(l)) EXCEPT
                 ![g] = [op[g] EXCEPT !.pc = "drop", !.lease = l, !.version = leases[l],
                                      !.driver = DriverFor(Current(l).target)]]
    /\ UNCHANGED <<now, closed, drivers, leases, deadline, renewals,
                   credential, revokeFailed, late>>

\* Mutant: the driver is not looked up by the target of the lease.
RevokeLeaseByGeneric(g, l) ==
    /\ CallsRevoke(g, l)
    /\ Unrevoked(l)
    /\ timers' = [timers EXCEPT ![l] = 0]
    /\ op' = [Stop(op, Registered(l)) EXCEPT
                 ![g] = [op[g] EXCEPT !.pc = "drop", !.lease = l, !.version = leases[l],
                                      !.driver = "generic_token"]]
    /\ UNCHANGED <<now, closed, drivers, leases, object, deadline, renewals,
                   credential, revokeFailed, late>>

\* RevokeLease up to its Unlock: the timer is stopped and forgotten, the driver
\* is looked up by the target in the lease.
RevokeLease(g, l) ==
    /\ CallsRevoke(g, l)
    /\ Unrevoked(l)
    /\ timers' = [timers EXCEPT ![l] = 0]
    /\ op' = [Stop(op, Registered(l)) EXCEPT
                 ![g] = [op[g] EXCEPT !.pc = "drop", !.lease = l, !.version = leases[l],
                                      !.driver = DriverFor(Current(l).target)]]
    /\ UNCHANGED <<now, closed, drivers, leases, object, deadline, renewals,
                   credential, revokeFailed, late>>

\* RevokeLease of an unknown or already revoked lease returns at once.
RevokeNothing(g, l) ==
    /\ CallsRevoke(g, l)
    /\ ~Unrevoked(l)
    /\ op' = [op EXCEPT ![g] = IF g \in Timer THEN [Idle EXCEPT !.pc = "done"]
                               ELSE [op[g] EXCEPT !.todo = @ \ {l}]]
    /\ UNCHANGED <<now, closed, drivers, leases, object, timers, deadline, renewals,
                   credential, revokeFailed, late>>

\* driver.Revoke.  Only the driver that minted a secret can destroy it; the
\* others find nothing to delete and report success.
DropCredential(g) ==
    LET l == op[g].lease IN
    /\ op[g].pc = "drop"
    /\ \/ /\ credential' = [credential EXCEPT ![l].state =
                               IF op[g].driver = credential[l].driver THEN "dropped" ELSE @]
          /\ UNCHANGED revokeFailed
       \/ /\ op[g].driver \in FailingDrivers
          /\ revokeFailed' = revokeFailed \cup {l}
          /\ UNCHANGED credential
    /\ op' = [op EXCEPT ![g].pc = "mark"]
    /\ UNCHANGED <<now, closed, drivers, leases, object, timers, deadline, renewals, late>>

\* RevokeLease marks the object it read, whatever driver.Revoke returned.
MarkRevoked(g) ==
    /\ op[g].pc = "mark"
    /\ object' = [object EXCEPT ![op[g].lease][op[g].version].revoked = TRUE]
    /\ op' = [op EXCEPT ![g] = Return(g)]
    /\ UNCHANGED <<now, closed, drivers, leases, timers, deadline, renewals,
                   credential, revokeFailed, late>>

-------------------------------------------------------------------------------
\* RenewLease up to its first Unlock; neither the TTL bounds nor b.closed matter.
RenewLease(g, l, ttl) ==
    /\ op[g].pc = "idle"
    /\ Unrevoked(l)
    /\ renewals[l] < MaxRenewals
    /\ renewals' = [renewals EXCEPT ![l] = @ + 1]
    /\ op' = [op EXCEPT ![g] = [Idle EXCEPT
                 !.pc = "extend", !.lease = l, !.version = leases[l],
                 !.fresh = renewals[l] + 2, !.driver = DriverFor(Current(l).target),
                 !.object.ttl = Granted(ttl)]]
    /\ UNCHANGED <<now, closed, drivers, leases, object, timers, deadline,
                   credential, revokeFailed, late>>

\* The generic driver extends the shared object in place while it knows the token.
ExtendInPlace(g) ==
    LET l == op[g].lease IN
    /\ op[g].driver = "generic_token"
    /\ credential[l] = [driver |-> "generic_token", state |-> "live"]
    /\ object' = [object EXCEPT ![l][op[g].version].expiresAt = now + op[g].object.ttl,
                                ![l][op[g].version].ttl = op[g].object.ttl]
    /\ op' = [op EXCEPT ![g].pc = "rearm"]

\* PostgreSQL alters the role, which must exist, and clones the lease afterwards.
ExtendRole(g) ==
    LET l == op[g].lease IN
    /\ op[g].driver = "postgres"
    /\ credential[l] = [driver |-> "postgres", state |-> "live"]
    /\ op' = [op EXCEPT ![g].pc = "clone", ![g].object.expiresAt = now + op[g].object.ttl]
    /\ UNCHANGED object

\* Redis clones the lease of any backend user without asking the backend.
ExtendUser(g) ==
    LET l == op[g].lease IN
    /\ op[g].driver = "redis"
    /\ credential[l].driver # "generic_token"
    /\ op' = [op EXCEPT ![g].pc = "rearm",
                        ![g].object = [object[l][op[g].version] EXCEPT
                                          !.ttl = op[g].object.ttl,
                                          !.expiresAt = now + op[g].object.ttl]]
    /\ UNCHANGED object

\* driver.Renew returned an error: RenewLease returns it and changes nothing.
RefuseRenewal(g) ==
    LET c == credential[op[g].lease] IN
    /\ \/ op[g].driver \in {"generic_token", "postgres"}
            /\ c # [driver |-> op[g].driver, state |-> "live"]
       \/ op[g].driver = "postgres" /\ "postgres" \in FailingDrivers
       \/ op[g].driver = "redis" /\ c.driver = "generic_token"
    /\ op' = [op EXCEPT ![g] = Idle]
    /\ UNCHANGED object

ExtendCredential(g) ==
    /\ op[g].pc = "extend"
    /\ ExtendInPlace(g) \/ ExtendRole(g) \/ ExtendUser(g) \/ RefuseRenewal(g)
    /\ UNCHANGED <<now, closed, drivers, leases, timers, deadline, renewals,
                   credential, revokeFailed, late>>

\* lease.Clone() in PostgresDriver.Renew.
CloneLease(g) ==
    /\ op[g].pc = "clone"
    /\ op' = [op EXCEPT ![g].pc = "rearm",
                        ![g].object = [object[op[g].lease][op[g].version] EXCEPT
                                          !.ttl = op[g].object.ttl,
                                          !.expiresAt = op[g].object.expiresAt]]
    /\ UNCHANGED <<now, closed, drivers, leases, object, timers, deadline, renewals,
                   credential, revokeFailed, late>>

\* Mutant: the new timer runs, but b.timers keeps the old one.
RearmUnregistered(g) ==
    LET l == op[g].lease
        v == IF op[g].driver = "generic_token" THEN op[g].version ELSE op[g].fresh
    IN
    /\ op[g].pc = "rearm"
    /\ leases' = [leases EXCEPT ![l] = v]
    /\ object' = IF op[g].driver = "generic_token" THEN object
                 ELSE [object EXCEPT ![l][v] = op[g].object]
    /\ deadline' = [deadline EXCEPT ![<<l, op[g].fresh>>] = object'[l][v].expiresAt]
    /\ op' = [Stop(op, Registered(l)) EXCEPT ![<<l, op[g].fresh>>].pc = "armed", ![g] = Idle]
    /\ late' = IF closed THEN late \cup {l} ELSE late
    /\ UNCHANGED <<now, closed, drivers, timers, renewals, credential, revokeFailed>>

\* Mutant: the old timer is stopped and no new one is started.
RearmOnlyStops(g) ==
    LET l == op[g].lease
        v == IF op[g].driver = "generic_token" THEN op[g].version ELSE op[g].fresh
    IN
    /\ op[g].pc = "rearm"
    /\ leases' = [leases EXCEPT ![l] = v]
    /\ object' = IF op[g].driver = "generic_token" THEN object
                 ELSE [object EXCEPT ![l][v] = op[g].object]
    /\ timers' = [timers EXCEPT ![l] = op[g].fresh]
    /\ op' = [Stop(op, Registered(l)) EXCEPT ![g] = Idle]
    /\ late' = IF closed THEN late \cup {l} ELSE late
    /\ UNCHANGED <<now, closed, drivers, deadline, renewals, credential, revokeFailed>>

\* The second critical section of RenewLease: a new timer, and the object that
\* the driver returned becomes the entry of the map.
Rearm(g) ==
    LET l == op[g].lease
        v == IF op[g].driver = "generic_token" THEN op[g].version ELSE op[g].fresh
    IN
    /\ op[g].pc = "rearm"
    /\ leases' = [leases EXCEPT ![l] = v]
    /\ object' = IF op[g].driver = "generic_token" THEN object
                 ELSE [object EXCEPT ![l][v] = op[g].object]
    /\ timers' = [timers EXCEPT ![l] = op[g].fresh]
    /\ deadline' = [deadline EXCEPT ![<<l, op[g].fresh>>] = object'[l][v].expiresAt]
    /\ op' = [Stop(op, Registered(l)) EXCEPT ![<<l, op[g].fresh>>].pc = "armed", ![g] = Idle]
    /\ late' = IF closed THEN late \cup {l} ELSE late
    /\ UNCHANGED <<now, closed, drivers, renewals, credential, revokeFailed>>

-------------------------------------------------------------------------------
\* Mutant: the leases are collected after the timers were forgotten.
ShutdownAfterClearing(g) ==
    /\ op[g].pc = "idle"
    /\ closed' = TRUE
    /\ timers' = [l \in Lease |-> 0]
    /\ op' = [Stop(op, UNION {Registered(l) : l \in Lease}) EXCEPT
                 ![g] = [Idle EXCEPT !.pc = "shutdown",
                                     !.todo = {l \in Lease : timers'[l] # 0}]]
    /\ UNCHANGED <<now, drivers, leases, object, deadline, renewals,
                   credential, revokeFailed, late>>

\* Shutdown under b.mu: it stops every registered timer and collects their leases.
Shutdown(g) ==
    /\ op[g].pc = "idle"
    /\ closed' = TRUE
    /\ timers' = [l \in Lease |-> 0]
    /\ op' = [Stop(op, UNION {Registered(l) : l \in Lease}) EXCEPT
                 ![g] = [Idle EXCEPT !.pc = "shutdown",
                                     !.todo = {l \in Lease : timers[l] # 0}]]
    /\ UNCHANGED <<now, drivers, leases, object, deadline, renewals,
                   credential, revokeFailed, late>>

ShutdownReturns(g) ==
    /\ op[g].pc = "shutdown"
    /\ op[g].todo = {}
    /\ op' = [op EXCEPT ![g] = Idle]
    /\ UNCHANGED <<now, closed, drivers, leases, object, timers, deadline, renewals,
                   credential, revokeFailed, late>>

\* The runtime starts the goroutine of a timer that is due.
Fire(t) ==
    /\ op[t].pc = "armed"
    /\ deadline[t] <= now
    /\ op' = [op EXCEPT ![t].pc = "fired"]
    /\ UNCHANGED <<now, closed, drivers, leases, object, timers, deadline, renewals,
                   credential, revokeFailed, late>>

Tick ==
    /\ now < MaxTime \/ \E t \in Timer : op[t].pc = "armed" /\ now < deadline[t]
    /\ now' = now + 1
    /\ UNCHANGED <<closed, drivers, leases, object, timers, deadline, op, renewals,
                   credential, revokeFailed, late>>

-------------------------------------------------------------------------------
\* A new call by a caller.
Call(g) ==
    \/ \E t \in RequestTarget, ttl \in RequestTTL : IssueLease(g, t, ttl)
    \/ \E l \in Lease : RevokeLease(g, l) /\ op[g].pc = "idle"
    \/ \E l \in Lease, ttl \in RequestTTL : RenewLease(g, l, ttl)
    \/ Shutdown(g)

\* The next step of a call that is under way.
Step(g) ==
    \/ Generate(g) \/ RecordLease(g)
    \/ op[g].pc # "idle" /\ \E l \in Lease : RevokeLease(g, l) \/ RevokeNothing(g, l)
    \/ DropCredential(g) \/ MarkRevoked(g)
    \/ ExtendCredential(g) \/ CloneLease(g) \/ Rearm(g)
    \/ ShutdownReturns(g)

Next ==
    \/ \E g \in Caller : Call(g)
    \/ \E g \in Goroutine : Step(g)
    \/ \E t \in Timer : Fire(t)
    \/ \E t \in Target, d \in Driver : RegisterDriver(t, d)
    \/ Tick

Spec == Init /\ [][Next]_vars

\* The Go scheduler runs every runnable goroutine, the runtime fires due timers
\* and drivers return; callers need not call.
Fairness ==
    /\ \A g \in Goroutine : WF_vars(Step(g))
    /\ \A t \in Timer : WF_vars(Fire(t))
    /\ WF_vars(Tick)

FairSpec == Spec /\ Fairness

-------------------------------------------------------------------------------
\* The types of the variables, as the methods of Broker leave them.
TypeOK ==
    /\ now \in Int
    /\ closed \in BOOLEAN
    /\ drivers \in [Target -> Driver \cup {None}]
    /\ leases \in [Lease -> 0..MaxRenewals + 1]
    /\ object \in [Lease -> [Version -> Object]]
    /\ timers \in [Lease -> 0..MaxRenewals + 1]
    /\ deadline \in [Timer -> Int]
    /\ op \in [Goroutine -> Operation]
    /\ renewals \in [Lease -> 0..MaxRenewals]
    /\ credential \in [Lease -> Credential]
    /\ revokeFailed \subseteq Lease
    /\ late \subseteq Lease

\* A goroutine with record r sees to it that l gets revoked: it has read the
\* object in the map and will mark it, or it is Shutdown with l on its list.
Watches(r, l) ==
    \/ r.pc \in {"drop", "mark"} /\ r.lease = l /\ r.version = leases[l]
    \/ r.pc \in {"drop", "mark"} /\ r.lease # l /\ l \in r.todo
    \/ r.pc = "shutdown" /\ l \in r.todo

BeingRevoked(l) == \E g \in Goroutine : Watches(op[g], l)

TimerPending(l) == timers[l] # 0 /\ op[<<l, timers[l]>>].pc \in {"armed", "fired"}

\* No lease is forgotten: whatever the interleaving of callers, timers and
\* Shutdown, an unrevoked lease of the map has a registered timer that is still
\* to run, or is being revoked (IssueLease, RevokeLease, RenewLease, Shutdown).
NoLeaseUnattended ==
    \A l \in Lease : Unrevoked(l) => TimerPending(l) \/ BeingRevoked(l)

\* Once Shutdown has closed the broker, a lease that was recorded or renewed
\* before has no registered timer and is revoked or being revoked: the calls
\* that overlap Shutdown are the only ones that escape it.
ShutdownCoversSettledLeases ==
    closed => \A l \in Lease \ late :
                  timers[l] = 0 /\ (Unrevoked(l) => BeingRevoked(l))

\* The driver that a target name stands for when the broker starts to serve.
Resolve(t) ==
    IF InitialDrivers[t] # None THEN InitialDrivers[t] ELSE InitialDrivers["generic_token"]

\* RegisterDriver gives no name another meaning, and a driver that writes its
\* own name into a lease is registered under it: RevokeLease looks the driver
\* up again, by the target in the lease.
StableNames ==
    /\ \A r \in Registrations : r[2] = Resolve(r[1])
    /\ \A t \in Target : Resolve(t) # "generic_token" => Resolve(Resolve(t)) = Resolve(t)

\* A lease is shown as revoked only after the driver that minted its secret was
\* told to destroy it, and the secret is gone unless the backend refused.  This
\* includes the clones RenewLease puts in the map.
RevokedMeansDropped ==
    \A l \in Lease, v \in Version :
        object[l][v].revoked => credential[l].state = "dropped" \/ l \in revokeFailed

\* What the broker is to those who hold leases.
Listed(l) == IF ~Recorded(l) THEN "none" ELSE IF Current(l).revoked THEN "revoked" ELSE "listed"

Service == INSTANCE LeaseService WITH
    secret  <- [l \in Lease |-> credential[l].state],
    listed  <- [l \in Lease |-> Listed(l)],
    refused <- revokeFailed

\* The broker is a lease service: however its calls interleave, a secret is
\* destroyed only after its lease was listed, and a lease turns to revoked only
\* after its backend has answered (IssueLease to Shutdown).
ImplementsLeaseService == Service!Spec

\* Every lease that enters the map is revoked in the end and stays so: there is
\* no run in which renewals, revocations and timers that cross leave one behind.
LeasesEndRevoked == \A l \in Lease : <>[]~Unrevoked(l)

\* A secret that works stops working, unless its backend refused a revocation.
CredentialsEndDropped ==
    \A l \in Lease : credential[l].state = "live"
                        ~> credential[l].state = "dropped" \/ l \in revokeFailed

-------------------------------------------------------------------------------
\* What a comment says, and the code does not do.

\* broker.go:220: ActiveLeases returns "currently valid, non-revoked leases": a
\* lease whose secret was destroyed and whose revocation is over is not one.
ActiveLeasesAreValid ==
    \A l \in ActiveLeases : credential[l].state = "dropped" => BeingRevoked(l)

===============================================================================
