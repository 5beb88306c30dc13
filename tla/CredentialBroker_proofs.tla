------------------------ MODULE CredentialBroker_proofs ------------------------
(***************************************************************************)
(* Theorems about CredentialBroker and their proofs.                       *)
(***************************************************************************)
EXTENDS CredentialBroker, TLAPS

\* What goroutine g can be doing: a call past its first critical section knows
\* its lease and the object it read, and a timer's goroutine only ever revokes.
RecordOK(g, r) ==
    /\ r.pc \in {"record", "drop", "mark", "extend", "clone", "rearm"} => r.lease \in Lease
    /\ r.pc \in {"drop", "mark", "extend", "clone", "rearm"} => r.version \in Version
    /\ g \in Timer =>
          /\ r.pc \in {"idle", "armed", "stopped", "fired", "done", "drop", "mark"}
          /\ r.todo = {}
          /\ r.pc \in {"drop", "mark"} => r.lease = g[1]

OperationsOK(o) ==
    /\ o \in [Goroutine -> Operation]
    /\ \A g \in Goroutine : RecordOK(g, o[g])

WellFormed ==
    /\ TypeOK
    /\ drivers["generic_token"] # None
    /\ OperationsOK(op)

\* The inductive invariant behind the safety properties.
BrokerInv == WellFormed /\ NoLeaseUnattended /\ ShutdownCoversSettledLeases

-------------------------------------------------------------------------------

LEMMA IdleType == Idle \in Operation /\ NoObject \in Object
  BY BrokerAssumption DEF Idle, Operation, NoObject, Object, Point, Driver, Version

LEMMA StopSpec ==
  ASSUME NEW o \in [Goroutine -> Operation], NEW T
  PROVE  /\ Stop(o, T) \in [Goroutine -> Operation]
         /\ \A g \in Goroutine :
              /\ Stop(o, T)[g].pc \in {o[g].pc, "stopped"}
              /\ o[g].pc # "armed" => Stop(o, T)[g] = o[g]
              /\ g \notin T => Stop(o, T)[g] = o[g]
              /\ Stop(o, T)[g].todo = o[g].todo
              /\ Stop(o, T)[g].lease = o[g].lease
              /\ Stop(o, T)[g].version = o[g].version
              /\ Stop(o, T)[g].pc = "stopped" => o[g].pc \in {"armed", "stopped"}
  BY DEF Stop, Operation, Point

LEMMA DriverForType ==
  ASSUME TypeOK, drivers["generic_token"] # None, NEW t \in Target
  PROVE  DriverFor(t) \in Driver
  BY BrokerAssumption DEF DriverFor, TypeOK, Driver

LEMMA CurrentType ==
  ASSUME TypeOK, NEW l \in Lease, Recorded(l)
  PROVE  leases[l] \in Version /\ Current(l) \in Object
  BY BrokerAssumption DEF TypeOK, Recorded, Current, Version

\* One goroutine moves to an admissible record.
LEMMA UpdateOK ==
  ASSUME NEW o, OperationsOK(o), NEW g, NEW r,
         g \in Goroutine => r \in Operation /\ RecordOK(g, r)
  PROVE  OperationsOK([o EXCEPT ![g] = r])
  BY DEF OperationsOK

LEMMA StopOK ==
  ASSUME NEW o, OperationsOK(o), NEW T
  PROVE  OperationsOK(Stop(o, T))
<1>1. o \in [Goroutine -> Operation] /\ \A g \in Goroutine : RecordOK(g, o[g])
  BY DEF OperationsOK
<1>2. ASSUME NEW g \in Goroutine PROVE RecordOK(g, Stop(o, T)[g])
  BY <1>1, StopSpec DEF RecordOK
<1> QED BY <1>1, <1>2, StopSpec DEF OperationsOK

\* A timer is armed, started or stopped.
LEMMA ArmOK ==
  ASSUME NEW o, OperationsOK(o), NEW t \in Timer, NEW p \in {"armed", "fired"}
  PROVE  OperationsOK([o EXCEPT ![t].pc = p])
<1>1. t \in Goroutine /\ o[t] \in Operation /\ RecordOK(t, o[t])
  BY DEF OperationsOK, Goroutine
<1> DEFINE r == [o[t] EXCEPT !.pc = p]
<1>2. r \in Operation /\ r.pc = p /\ r.todo = o[t].todo
  BY <1>1 DEF Operation, Point
<1>3. RecordOK(t, r)
  BY <1>1, <1>2 DEF RecordOK
<1>4. [o EXCEPT ![t].pc = p] = [o EXCEPT ![t] = r]
  OBVIOUS
<1> HIDE DEF r
<1> QED BY <1>2, <1>3, <1>4, UpdateOK

LEMMA CallersAreNotTimers ==
  Caller \subseteq Goroutine /\ Timer \subseteq Goroutine /\ \A g \in Caller : g \notin Timer
  BY BrokerAssumption DEF Goroutine

\* What the goroutine is left with when RevokeLease returns.
LEMMA ReturnType ==
  ASSUME WellFormed, NEW g \in Goroutine
  PROVE  Return(g) \in Operation /\ RecordOK(g, Return(g))
<1>1. op[g] \in Operation /\ RecordOK(g, op[g])
  BY DEF WellFormed, OperationsOK
<1>2. op[g].todo \in SUBSET Lease
  BY <1>1 DEF Operation
<1>3. CASE g \in Timer
  <2> DEFINE r == [Idle EXCEPT !.pc = "done"]
  <2>1. r \in Operation /\ r.pc = "done" /\ r.todo = {}
    BY IdleType DEF Operation, Point, Idle
  <2>2. Return(g) = r
    BY <1>3 DEF Return
  <2> HIDE DEF r
  <2> QED BY <2>1, <2>2 DEF RecordOK
<1>4. CASE g \notin Timer /\ op[g].todo = {}
  <2>1. Return(g) = Idle /\ Idle.pc = "idle"
    BY <1>4 DEF Return, Idle
  <2> QED BY <1>4, <2>1, IdleType DEF RecordOK
<1>5. CASE g \notin Timer /\ op[g].todo # {}
  <2> DEFINE r == [Idle EXCEPT !.pc = "shutdown", !.todo = op[g].todo \ {op[g].lease}]
  <2>1. r \in Operation /\ r.pc = "shutdown"
    BY <1>2, IdleType DEF Operation, Point, Idle
  <2>2. Return(g) = r
    BY <1>5 DEF Return
  <2> HIDE DEF r
  <2> QED BY <1>5, <2>1, <2>2 DEF RecordOK
<1> QED BY <1>3, <1>4, <1>5

-------------------------------------------------------------------------------

LEMMA InitWellFormed == Init => WellFormed
<1> SUFFICES ASSUME Init PROVE WellFormed
  OBVIOUS
<1>1. op = [g \in Goroutine |-> Idle] /\ op \in [Goroutine -> Operation]
  BY IdleType DEF Init
<1>2. 0 \in 0..MaxRenewals + 1 /\ 0 \in 0..MaxRenewals
  BY BrokerAssumption
<1>3. credential \in [Lease -> Credential]
  BY DEF Init, Credential, Driver
<1>4. TypeOK
  <2>1. object \in [Lease -> [Version -> Object]]
    BY IdleType DEF Init
  <2>2. now \in Int /\ deadline \in [Timer -> Int]
    BY DEF Init
  <2>3. /\ leases \in [Lease -> 0..MaxRenewals + 1]
        /\ timers \in [Lease -> 0..MaxRenewals + 1]
        /\ renewals \in [Lease -> 0..MaxRenewals]
    BY <1>2 DEF Init
  <2>4. closed \in BOOLEAN /\ revokeFailed \subseteq Lease /\ late \subseteq Lease
    BY DEF Init
  <2>5. drivers \in [Target -> Driver \cup {None}]
    BY BrokerAssumption DEF Init
  <2> QED BY <1>1, <1>3, <2>1, <2>2, <2>3, <2>4, <2>5 DEF TypeOK
<1>5. \A g \in Goroutine : RecordOK(g, op[g])
  BY <1>1 DEF RecordOK, Idle
<1> QED BY <1>1, <1>4, <1>5, BrokerAssumption DEF WellFormed, OperationsOK, Init


\* One lemma per action: the types and the well-formedness of operations are
\* preserved.  The variables that an action does not mention are trivial.

LEMMA IssueLeaseWellFormed ==
  ASSUME WellFormed, NEW g \in Caller, NEW t \in RequestTarget, NEW ttl \in RequestTTL,
         IssueLease(g, t, ttl)
  PROVE  WellFormed'
<1> DEFINE q == [NoObject EXCEPT !.target = t, !.ttl = Granted(ttl)]
           r == [op[g] EXCEPT !.pc = "generate", !.driver = DriverFor(t), !.object = q]
<1>1. TypeOK /\ drivers["generic_token"] # None /\ OperationsOK(op)
  BY DEF WellFormed
<1>2. DriverFor(t) \in Driver /\ Granted(ttl) \in Int /\ t \in Target
  BY <1>1, DriverForType, BrokerAssumption DEF Granted
<1>3. q \in Object
  BY <1>2, IdleType DEF Object
<1>4. g \in Goroutine /\ op[g] \in Operation /\ g \notin Timer
  BY <1>1, CallersAreNotTimers DEF OperationsOK
<1>5. r \in Operation /\ r.pc = "generate"
  BY <1>2, <1>3, <1>4 DEF Operation, Point
<1>6. op' = [op EXCEPT ![g] = r]
  BY DEF IssueLease
<1> HIDE DEF r
<1>7. OperationsOK(op')
  BY <1>1, <1>4, <1>5, <1>6, UpdateOK DEF RecordOK
<1> QED BY <1>1, <1>7 DEF IssueLease, WellFormed, TypeOK, OperationsOK

LEMMA GenerateWellFormed ==
  ASSUME WellFormed, NEW g \in Goroutine, Generate(g)
  PROVE  WellFormed'
<1>1. TypeOK /\ drivers["generic_token"] # None /\ OperationsOK(op)
  BY DEF WellFormed
<1>2. op[g] \in Operation /\ RecordOK(g, op[g]) /\ g \notin Timer
  BY <1>1 DEF OperationsOK, RecordOK, Generate
<1>3. CASE op' = [op EXCEPT ![g] = Idle] /\ UNCHANGED credential
  <2>1. OperationsOK(op')
    BY <1>1, <1>2, <1>3, IdleType, UpdateOK DEF RecordOK, Idle
  <2> QED BY <1>1, <1>3, <2>1 DEF Generate, WellFormed, TypeOK, OperationsOK
<1>4. ASSUME NEW l \in Lease,
             credential' = [credential EXCEPT ![l] = [driver |-> op[g].driver, state |-> "live"]],
             op' = [op EXCEPT ![g].pc = "record",
                              ![g].lease = l,
                              ![g].object.target = IF op[g].driver = "generic_token"
                                                   THEN @ ELSE op[g].driver,
                              ![g].object.expiresAt = now + op[g].object.ttl]
      PROVE  WellFormed'
  <2> DEFINE n == IF op[g].driver = "generic_token" THEN op[g].object.target ELSE op[g].driver
             q == [op[g].object EXCEPT !.target = n, !.expiresAt = now + op[g].object.ttl]
             r == [op[g] EXCEPT !.pc = "record", !.lease = l, !.object = q]
  <2>1. op[g].driver \in Driver /\ op[g].object \in Object /\ now \in Int
    BY <1>1, <1>2 DEF Operation, TypeOK
  <2>2. n \in Target /\ now + op[g].object.ttl \in Int
    BY <2>1, BrokerAssumption DEF Object
  <2> HIDE DEF n
  <2>3. q \in Object
    BY <2>1, <2>2 DEF Object
  <2>4. r \in Operation /\ r.pc = "record" /\ r.lease = l
    BY <1>2, <2>3 DEF Operation, Point
  <2>5. op' = [op EXCEPT ![g] = r]
    BY <1>4, ZenonT(30) DEF n
  <2> HIDE DEF r
  <2>6. OperationsOK(op')
    BY <1>1, <1>2, <2>4, <2>5, UpdateOK DEF RecordOK
  <2>7. credential' \in [Lease -> Credential]
    BY <1>1, <1>4, <2>1 DEF TypeOK, Credential
  <2> QED BY <1>1, <2>6, <2>7 DEF Generate, WellFormed, TypeOK, OperationsOK
<1> QED BY <1>3, <1>4 DEF Generate

LEMMA RecordLeaseWellFormed ==
  ASSUME WellFormed, NEW g \in Goroutine, RecordLease(g)
  PROVE  WellFormed'
<1> DEFINE l == op[g].lease
<1>1. TypeOK /\ drivers["generic_token"] # None /\ OperationsOK(op)
  BY DEF WellFormed
<1>2. op[g] \in Operation /\ RecordOK(g, op[g]) /\ g \notin Timer /\ l \in Lease
  BY <1>1 DEF OperationsOK, RecordOK, RecordLease
<1>3. op[g].object \in Object /\ now + op[g].object.ttl \in Int
  BY <1>1, <1>2 DEF Operation, Object, TypeOK
<1>4. 1 \in Version /\ 1 \in 0..MaxRenewals + 1
  BY BrokerAssumption DEF Version
<1>5. <<l, 1>> \in Timer
  BY <1>2, <1>4 DEF Timer
<1> DEFINE o == [op EXCEPT ![<<l, 1>>].pc = "armed"]
<1>6. OperationsOK(o)
  BY <1>1, <1>5, ArmOK
<1>7. op' = [o EXCEPT ![g] = Idle]
  BY DEF RecordLease
<1> HIDE DEF o
<1>8. OperationsOK(op')
  BY <1>2, <1>6, <1>7, IdleType, UpdateOK DEF RecordOK, Idle
<1>9. /\ leases' \in [Lease -> 0..MaxRenewals + 1]
      /\ timers' \in [Lease -> 0..MaxRenewals + 1]
  BY <1>1, <1>4 DEF RecordLease, TypeOK
<1>10. object' \in [Lease -> [Version -> Object]]
  BY <1>1, <1>2, <1>3, <1>4 DEF RecordLease, TypeOK
<1>11. deadline' \in [Timer -> Int]
  BY <1>1, <1>3, <1>5 DEF RecordLease, TypeOK
<1>12. late' \subseteq Lease
  BY <1>1, <1>2 DEF RecordLease, TypeOK
<1> QED BY <1>1, <1>8, <1>9, <1>10, <1>11, <1>12
        DEF RecordLease, WellFormed, TypeOK, OperationsOK

LEMMA RevokeLeaseWellFormed ==
  ASSUME WellFormed, NEW g \in Goroutine, NEW l \in Lease, RevokeLease(g, l)
  PROVE  WellFormed'
<1> DEFINE r == [op[g] EXCEPT !.pc = "drop", !.lease = l, !.version = leases[l],
                              !.driver = DriverFor(Current(l).target)]
           o == Stop(op, Registered(l))
<1>1. TypeOK /\ drivers["generic_token"] # None /\ OperationsOK(op)
  BY DEF WellFormed
<1>2. op[g] \in Operation /\ RecordOK(g, op[g])
  BY <1>1 DEF OperationsOK
<1>3. leases[l] \in Version /\ leases[l] \in 0..MaxRenewals + 1 /\ Current(l).target \in Target
  BY <1>1, CurrentType DEF RevokeLease, Unrevoked, Object, TypeOK
<1>4. DriverFor(Current(l).target) \in Driver
  BY <1>1, <1>3, DriverForType
<1>5. /\ r \in Operation
      /\ r.pc = "drop" /\ r.lease = l /\ r.version = leases[l] /\ r.todo = op[g].todo
  BY <1>2, <1>3, <1>4 DEF Operation, Point
<1>6. op' = [o EXCEPT ![g] = r]
  BY DEF RevokeLease
<1>7. OperationsOK(o)
  BY <1>1, StopOK
<1> HIDE DEF r, o
<1>8. RecordOK(g, r)
  <2>1. g \in Timer => g[1] = l
    BY <1>2, CallersAreNotTimers DEF RevokeLease, CallsRevoke, RecordOK
  <2> QED BY <1>2, <1>3, <1>5, <2>1 DEF RecordOK
<1>9. OperationsOK(op')
  BY <1>5, <1>6, <1>7, <1>8, UpdateOK
<1>10. timers' \in [Lease -> 0..MaxRenewals + 1]
  BY <1>1, BrokerAssumption DEF RevokeLease, TypeOK
<1> QED BY <1>1, <1>9, <1>10 DEF RevokeLease, WellFormed, TypeOK, OperationsOK

LEMMA RevokeNothingWellFormed ==
  ASSUME WellFormed, NEW g \in Goroutine, NEW l \in Lease, op[g].pc # "idle",
         RevokeNothing(g, l)
  PROVE  WellFormed'
<1> DEFINE r == IF g \in Timer THEN [Idle EXCEPT !.pc = "done"]
                ELSE [op[g] EXCEPT !.todo = @ \ {l}]
<1>1. TypeOK /\ drivers["generic_token"] # None /\ OperationsOK(op)
  BY DEF WellFormed
<1>2. op[g] \in Operation /\ RecordOK(g, op[g])
  BY <1>1 DEF OperationsOK
<1>3. op' = [op EXCEPT ![g] = r]
  BY DEF RevokeNothing
<1>4. CASE g \in Timer
  <2>1. r = [Idle EXCEPT !.pc = "done"]
    BY <1>4
  <2> HIDE DEF r
  <2>2. r \in Operation /\ r.pc = "done" /\ r.todo = {}
    BY <2>1, IdleType DEF Operation, Point, Idle
  <2>3. RecordOK(g, r)
    BY <2>2 DEF RecordOK
  <2>4. OperationsOK(op')
    BY <1>1, <1>3, <2>2, <2>3, UpdateOK
  <2> QED BY <1>1, <2>4 DEF RevokeNothing, WellFormed, TypeOK, OperationsOK
<1>5. CASE g \notin Timer
  <2>1. r = [op[g] EXCEPT !.todo = op[g].todo \ {l}]
    BY <1>5
  <2> HIDE DEF r
  <2>2. r \in Operation /\ r.pc = op[g].pc /\ r.lease = op[g].lease /\ r.version = op[g].version
    BY <1>2, <2>1 DEF Operation
  <2>3. RecordOK(g, r)
    BY <1>2, <1>5, <2>2 DEF RecordOK
  <2>4. OperationsOK(op')
    BY <1>1, <1>3, <2>2, <2>3, UpdateOK
  <2> QED BY <1>1, <2>4 DEF RevokeNothing, WellFormed, TypeOK, OperationsOK
<1> QED BY <1>4, <1>5

LEMMA DropCredentialWellFormed ==
  ASSUME WellFormed, NEW g \in Goroutine, DropCredential(g)
  PROVE  WellFormed'
<1> DEFINE r == [op[g] EXCEPT !.pc = "mark"]
           l == op[g].lease
<1>1. TypeOK /\ drivers["generic_token"] # None /\ OperationsOK(op)
  BY DEF WellFormed
<1>2. op[g] \in Operation /\ RecordOK(g, op[g]) /\ l \in Lease
  BY <1>1 DEF OperationsOK, RecordOK, DropCredential
<1>3. /\ r \in Operation /\ r.pc = "mark"
      /\ r.lease = l /\ r.version = op[g].version /\ r.todo = op[g].todo
  BY <1>2 DEF Operation, Point
<1>4. RecordOK(g, r)
  BY <1>2, <1>3 DEF RecordOK, DropCredential
<1>5. OperationsOK(op')
  BY <1>1, <1>3, <1>4, UpdateOK DEF DropCredential
<1>6. credential' \in [Lease -> Credential]
  <2>1. credential \in [Lease -> Credential]
    BY <1>1 DEF TypeOK
  <2>2. ASSUME NEW s \in {"dropped", credential[l].state}
        PROVE  [credential EXCEPT ![l].state = s] \in [Lease -> Credential]
    BY <1>2, <2>1 DEF Credential
  <2>3. \/ credential' = credential
        \/ \E s \in {"dropped", credential[l].state} :
              credential' = [credential EXCEPT ![l].state = s]
    BY DEF DropCredential
  <2> QED BY <2>1, <2>2, <2>3
<1>7. revokeFailed' \subseteq Lease
  BY <1>1, <1>2 DEF DropCredential, TypeOK
<1> QED BY <1>1, <1>5, <1>6, <1>7 DEF DropCredential, WellFormed, TypeOK, OperationsOK

LEMMA MarkRevokedWellFormed ==
  ASSUME WellFormed, NEW g \in Goroutine, MarkRevoked(g)
  PROVE  WellFormed'
<1>1. TypeOK /\ drivers["generic_token"] # None /\ OperationsOK(op)
  BY DEF WellFormed
<1>2. op[g].lease \in Lease /\ op[g].version \in Version
  BY <1>1 DEF OperationsOK, RecordOK, MarkRevoked
<1>3. OperationsOK(op')
  BY <1>1, ReturnType, UpdateOK DEF MarkRevoked
<1>4. object' \in [Lease -> [Version -> Object]]
  <2>1. object \in [Lease -> [Version -> Object]] /\ object[op[g].lease][op[g].version] \in Object
    BY <1>1, <1>2 DEF TypeOK
  <2> DEFINE q == [object[op[g].lease][op[g].version] EXCEPT !.revoked = TRUE]
  <2>2. q \in Object
    BY <2>1 DEF Object
  <2>3. object' = [object EXCEPT ![op[g].lease][op[g].version] = q]
    BY DEF MarkRevoked
  <2> HIDE DEF q
  <2> QED BY <1>2, <2>1, <2>2, <2>3
<1> QED BY <1>1, <1>3, <1>4 DEF MarkRevoked, WellFormed, TypeOK, OperationsOK

LEMMA RenewLeaseWellFormed ==
  ASSUME WellFormed, NEW g \in Caller, NEW l \in Lease, NEW ttl \in RequestTTL,
         RenewLease(g, l, ttl)
  PROVE  WellFormed'
<1> DEFINE q == [NoObject EXCEPT !.ttl = Granted(ttl)]
           r == [Idle EXCEPT !.pc = "extend", !.lease = l, !.version = leases[l],
                             !.fresh = renewals[l] + 2,
                             !.driver = DriverFor(Current(l).target), !.object = q]
<1>1. TypeOK /\ drivers["generic_token"] # None /\ OperationsOK(op)
  BY DEF WellFormed
<1>2. leases[l] \in Version /\ leases[l] \in 0..MaxRenewals + 1 /\ Current(l).target \in Target
  BY <1>1, CurrentType DEF RenewLease, Unrevoked, Object, TypeOK
<1>3. DriverFor(Current(l).target) \in Driver
  BY <1>1, <1>2, DriverForType
<1>4. renewals[l] + 2 \in Version /\ renewals[l] + 1 \in 0..MaxRenewals
  BY <1>1, BrokerAssumption DEF RenewLease, TypeOK, Version
<1>5. q \in Object
  BY IdleType, BrokerAssumption DEF Object, Granted
<1>6. r \in Operation /\ r.pc = "extend" /\ r.lease = l /\ r.version = leases[l]
  BY <1>2, <1>3, <1>4, <1>5, IdleType DEF Operation, Point
<1>7. op' = [op EXCEPT ![g] = r]
  BY DEF RenewLease, Idle
<1> HIDE DEF r
<1>8. OperationsOK(op')
  BY <1>1, <1>2, <1>6, <1>7, CallersAreNotTimers, UpdateOK DEF RecordOK
<1>9. renewals' \in [Lease -> 0..MaxRenewals]
  BY <1>1, <1>4 DEF RenewLease, TypeOK
<1> QED BY <1>1, <1>8, <1>9 DEF RenewLease, WellFormed, TypeOK, OperationsOK

\* A renewal in progress moves on to point p, possibly with a new object.
LEMMA RenewalStepOK ==
  ASSUME WellFormed, NEW g \in Goroutine, op[g].pc \in {"extend", "clone"},
         NEW p \in {"clone", "rearm"}, NEW q \in Object
  PROVE  OperationsOK([op EXCEPT ![g] = [op[g] EXCEPT !.pc = p, !.object = q]])
<1> DEFINE r == [op[g] EXCEPT !.pc = p, !.object = q]
<1>1. OperationsOK(op) /\ op[g] \in Operation /\ RecordOK(g, op[g])
  BY DEF WellFormed, OperationsOK
<1>2. r \in Operation /\ r.pc = p /\ r.lease = op[g].lease /\ r.version = op[g].version
  BY <1>1 DEF Operation, Point
<1> HIDE DEF r
<1>3. RecordOK(g, r)
  BY <1>1, <1>2 DEF RecordOK
<1> QED BY <1>1, <1>2, <1>3, UpdateOK DEF r

LEMMA ExtendCredentialWellFormed ==
  ASSUME WellFormed, NEW g \in Goroutine, ExtendCredential(g)
  PROVE  WellFormed'
<1> DEFINE l == op[g].lease
           b == object[l][op[g].version]
           ttl == op[g].object.ttl
<1>1. TypeOK /\ drivers["generic_token"] # None /\ OperationsOK(op)
  BY DEF WellFormed
<1>2. /\ op[g] \in Operation /\ l \in Lease /\ op[g].version \in Version
      /\ g \notin Timer /\ op[g].pc = "extend"
  BY <1>1 DEF OperationsOK, RecordOK, ExtendCredential
<1>3. /\ object \in [Lease -> [Version -> Object]]
      /\ b \in Object /\ op[g].object \in Object /\ ttl \in Int /\ now + ttl \in Int
  BY <1>1, <1>2 DEF TypeOK, Operation, Object
<1>4. CASE ExtendInPlace(g)
  <2> DEFINE q == [b EXCEPT !.expiresAt = now + ttl, !.ttl = ttl]
  <2>1. q \in Object
    BY <1>3 DEF Object
  <2>2. object' = [object EXCEPT ![l][op[g].version] = q]
    BY <1>4 DEF ExtendInPlace
  <2> HIDE DEF q
  <2>3. object' \in [Lease -> [Version -> Object]]
    BY <1>2, <1>3, <2>1, <2>2
  <2>4. op' = [op EXCEPT ![g] = [op[g] EXCEPT !.pc = "rearm", !.object = op[g].object]]
    BY <1>2, <1>4 DEF ExtendInPlace, Operation
  <2>5. OperationsOK(op')
    BY <1>2, <1>3, <2>4, RenewalStepOK
  <2> QED BY <1>1, <2>3, <2>5 DEF ExtendCredential, WellFormed, TypeOK, OperationsOK
<1>5. CASE ExtendRole(g)
  <2> DEFINE q == [op[g].object EXCEPT !.expiresAt = now + ttl]
  <2>1. q \in Object
    BY <1>3 DEF Object
  <2>2. op' = [op EXCEPT ![g] = [op[g] EXCEPT !.pc = "clone", !.object = q]]
    BY <1>5 DEF ExtendRole
  <2> HIDE DEF q
  <2>3. OperationsOK(op')
    BY <1>2, <2>1, <2>2, RenewalStepOK
  <2> QED BY <1>1, <1>5, <2>3
          DEF ExtendCredential, ExtendRole, WellFormed, TypeOK, OperationsOK
<1>6. CASE ExtendUser(g)
  <2> DEFINE q == [b EXCEPT !.ttl = ttl, !.expiresAt = now + ttl]
  <2>1. q \in Object
    BY <1>3 DEF Object
  <2>2. op' = [op EXCEPT ![g] = [op[g] EXCEPT !.pc = "rearm", !.object = q]]
    BY <1>6 DEF ExtendUser
  <2> HIDE DEF q
  <2>3. OperationsOK(op')
    BY <1>2, <2>1, <2>2, RenewalStepOK
  <2> QED BY <1>1, <1>6, <2>3
          DEF ExtendCredential, ExtendUser, WellFormed, TypeOK, OperationsOK
<1>7. CASE RefuseRenewal(g)
  <2>1. op' = [op EXCEPT ![g] = Idle] /\ UNCHANGED object
    BY <1>7 DEF RefuseRenewal
  <2>2. OperationsOK(op')
    BY <1>1, <1>2, <2>1, IdleType, UpdateOK DEF RecordOK, Idle
  <2> QED BY <1>1, <2>1, <2>2 DEF ExtendCredential, WellFormed, TypeOK, OperationsOK
<1> QED BY <1>4, <1>5, <1>6, <1>7 DEF ExtendCredential

LEMMA CloneLeaseWellFormed ==
  ASSUME WellFormed, NEW g \in Goroutine, CloneLease(g)
  PROVE  WellFormed'
<1> DEFINE b == object[op[g].lease][op[g].version]
           q == [b EXCEPT !.ttl = op[g].object.ttl, !.expiresAt = op[g].object.expiresAt]
<1>1. TypeOK /\ drivers["generic_token"] # None /\ OperationsOK(op)
  BY DEF WellFormed
<1>2. /\ op[g] \in Operation /\ op[g].lease \in Lease /\ op[g].version \in Version
      /\ op[g].pc = "clone"
  BY <1>1 DEF OperationsOK, RecordOK, CloneLease
<1>3. b \in Object /\ op[g].object \in Object
  BY <1>1, <1>2 DEF TypeOK, Operation
<1>4. q \in Object
  BY <1>3 DEF Object
<1>5. op' = [op EXCEPT ![g] = [op[g] EXCEPT !.pc = "rearm", !.object = q]]
  BY DEF CloneLease
<1> HIDE DEF q
<1>6. OperationsOK(op')
  BY <1>2, <1>4, <1>5, RenewalStepOK
<1> QED BY <1>1, <1>6 DEF CloneLease, WellFormed, TypeOK, OperationsOK

LEMMA RearmWellFormed ==
  ASSUME WellFormed, NEW g \in Goroutine, Rearm(g)
  PROVE  WellFormed'
<1> DEFINE l == op[g].lease
           v == IF op[g].driver = "generic_token" THEN op[g].version ELSE op[g].fresh
           t == <<l, op[g].fresh>>
           o == Stop(op, Registered(l))
           a == [o EXCEPT ![t].pc = "armed"]
<1>1. TypeOK /\ drivers["generic_token"] # None /\ OperationsOK(op)
  BY DEF WellFormed
<1>2. /\ op[g] \in Operation /\ l \in Lease /\ op[g].version \in Version
      /\ g \notin Timer
  BY <1>1 DEF OperationsOK, RecordOK, Rearm
<1>3. op[g].fresh \in Version /\ v \in Version /\ op[g].object \in Object
  BY <1>2 DEF Operation
<1>4. v \in 0..MaxRenewals + 1 /\ op[g].fresh \in 0..MaxRenewals + 1 /\ t \in Timer
  BY <1>2, <1>3, BrokerAssumption DEF Version, Timer
<1>5. OperationsOK(a)
  <2>1. OperationsOK(o)
    BY <1>1, StopOK
  <2> HIDE DEF o
  <2> QED BY <2>1, <1>4, ArmOK
<1>6. op' = [a EXCEPT ![g] = Idle]
  BY DEF Rearm
<1> HIDE DEF a, v, o
<1>7. OperationsOK(op')
  BY <1>2, <1>5, <1>6, IdleType, UpdateOK DEF RecordOK, Idle
<1>8. /\ leases' \in [Lease -> 0..MaxRenewals + 1]
      /\ timers' \in [Lease -> 0..MaxRenewals + 1]
  BY <1>1, <1>4 DEF Rearm, TypeOK, v
<1>9. object' \in [Lease -> [Version -> Object]]
  BY <1>1, <1>2, <1>3 DEF Rearm, TypeOK, v
<1>10. deadline' \in [Timer -> Int]
  <2>1. object'[l][v].expiresAt \in Int
    BY <1>2, <1>3, <1>9 DEF Object
  <2>2. deadline' = [deadline EXCEPT ![t] = object'[l][v].expiresAt]
    BY DEF Rearm, v
  <2> QED BY <1>1, <2>1, <2>2 DEF TypeOK
<1>11. late' \subseteq Lease
  BY <1>1, <1>2 DEF Rearm, TypeOK
<1> QED BY <1>1, <1>7, <1>8, <1>9, <1>10, <1>11
        DEF Rearm, WellFormed, TypeOK, OperationsOK

LEMMA ShutdownWellFormed ==
  ASSUME WellFormed, NEW g \in Caller, Shutdown(g)
  PROVE  WellFormed'
<1> DEFINE T == {l \in Lease : timers[l] # 0}
           r == [Idle EXCEPT !.pc = "shutdown", !.todo = T]
           o == Stop(op, UNION {Registered(l) : l \in Lease})
<1>1. TypeOK /\ drivers["generic_token"] # None /\ OperationsOK(op)
  BY DEF WellFormed
<1>2. r \in Operation /\ r.pc = "shutdown"
  BY IdleType DEF Operation, Point
<1>3. op' = [o EXCEPT ![g] = r]
  BY DEF Shutdown
<1>4. OperationsOK(o)
  BY <1>1, StopOK
<1> HIDE DEF r, o
<1>5. OperationsOK(op')
  BY <1>2, <1>3, <1>4, CallersAreNotTimers, UpdateOK DEF RecordOK
<1>6. timers' \in [Lease -> 0..MaxRenewals + 1] /\ closed' \in BOOLEAN
  BY BrokerAssumption DEF Shutdown
<1> QED BY <1>1, <1>5, <1>6 DEF Shutdown, WellFormed, TypeOK, OperationsOK

LEMMA OtherWellFormed ==
  ASSUME WellFormed
  PROVE  /\ \A g \in Goroutine : ShutdownReturns(g) => WellFormed'
         /\ \A t \in Timer : Fire(t) => WellFormed'
         /\ \A t \in Target, d \in Driver : RegisterDriver(t, d) => WellFormed'
         /\ Tick => WellFormed'
         /\ UNCHANGED vars => WellFormed'
<1>1. TypeOK /\ drivers["generic_token"] # None /\ OperationsOK(op)
  BY DEF WellFormed
<1>2. ASSUME NEW g \in Goroutine, ShutdownReturns(g) PROVE WellFormed'
  <2>1. g \notin Timer
    BY <1>1, <1>2 DEF OperationsOK, RecordOK, ShutdownReturns
  <2>2. OperationsOK(op')
    BY <1>1, <1>2, <2>1, IdleType, UpdateOK DEF ShutdownReturns, RecordOK, Idle
  <2> QED BY <1>1, <1>2, <2>2 DEF ShutdownReturns, WellFormed, TypeOK, OperationsOK
<1>3. ASSUME NEW t \in Timer, Fire(t) PROVE WellFormed'
  <2>1. OperationsOK(op')
    BY <1>1, <1>3, ArmOK DEF Fire
  <2> QED BY <1>1, <1>3, <2>1 DEF Fire, WellFormed, TypeOK, OperationsOK
<1>4. ASSUME NEW t \in Target, NEW d \in Driver, RegisterDriver(t, d) PROVE WellFormed'
  <2>1. drivers' \in [Target -> Driver \cup {None}] /\ drivers'["generic_token"] # None
    BY <1>1, <1>4, BrokerAssumption DEF RegisterDriver, TypeOK, Driver
  <2> QED BY <1>1, <1>4, <2>1 DEF RegisterDriver, WellFormed, TypeOK
<1>5. ASSUME Tick PROVE WellFormed'
  BY <1>1, <1>5 DEF Tick, WellFormed, TypeOK
<1>6. ASSUME UNCHANGED vars PROVE WellFormed'
  BY <1>1, <1>6 DEF vars, WellFormed, TypeOK
<1> QED BY <1>2, <1>3, <1>4, <1>5, <1>6

LEMMA StepsWellFormed ==
  ASSUME WellFormed, [Next]_vars
  PROVE  WellFormed'
<1>1. ASSUME NEW g \in Caller, Call(g) PROVE WellFormed'
  BY <1>1, IssueLeaseWellFormed, RevokeLeaseWellFormed, RenewLeaseWellFormed,
     ShutdownWellFormed, CallersAreNotTimers DEF Call
<1>2. ASSUME NEW g \in Goroutine, Step(g) PROVE WellFormed'
  BY <1>2, GenerateWellFormed, RecordLeaseWellFormed, RevokeLeaseWellFormed,
     RevokeNothingWellFormed, DropCredentialWellFormed, MarkRevokedWellFormed,
     ExtendCredentialWellFormed, CloneLeaseWellFormed, RearmWellFormed, OtherWellFormed
  DEF Step
<1> QED BY <1>1, <1>2, OtherWellFormed DEF Next

\* The types are right in every reachable state.  TypeOK alone is not
\* inductive: a step at "mark" needs a lease and a version to mark, which is
\* what OperationsOK adds.
THEOREM TypeCorrect == Spec => [](WellFormed /\ TypeOK)
<1>1. WellFormed /\ [Next]_vars => WellFormed'
  BY StepsWellFormed
<1>2. WellFormed => TypeOK
  BY DEF WellFormed
<1> QED BY InitWellFormed, <1>1, <1>2, PTL DEF Spec

\* A caller that is in no call carries nothing over from the last one.
IdleCallers == \A g \in Caller : op[g].pc = "idle" => op[g] = Idle

\* The record that one goroutine moves to.
LEMMA IdleMoves ==
  ASSUME WellFormed, IdleCallers, NEW o, NEW g \in Goroutine, NEW r,
         \A k \in Caller : o[k] = op[k], DOMAIN o = Goroutine,
         g \in Caller => r.pc # "idle" \/ r = Idle,
         op' = [o EXCEPT ![g] = r]
  PROVE  IdleCallers'
<1>1. \A k \in Caller : k \in Goroutine
  BY CallersAreNotTimers
<1> QED BY <1>1 DEF IdleCallers

\* Timers that start or stop concern no caller.
LEMMA TimersAside ==
  ASSUME WellFormed
  PROVE  /\ DOMAIN op = Goroutine
         /\ \A T \in SUBSET Timer : /\ DOMAIN Stop(op, T) = Goroutine
                                   /\ \A k \in Caller : Stop(op, T)[k] = op[k]
         /\ \A o, t, p : /\ DOMAIN [o EXCEPT ![t].pc = p] = DOMAIN o
                         /\ t \in Timer => \A k \in Caller : [o EXCEPT ![t].pc = p][k] = o[k]
<1>1. op \in [Goroutine -> Operation] /\ \A k \in Caller : k \in Goroutine /\ k \notin Timer
  BY CallersAreNotTimers DEF WellFormed, TypeOK
<1>2. ASSUME NEW T \in SUBSET Timer
      PROVE  DOMAIN Stop(op, T) = Goroutine /\ \A k \in Caller : Stop(op, T)[k] = op[k]
  BY <1>1, StopSpec
<1> QED BY <1>1, <1>2

LEMMA InitIdle == Init => IdleCallers
  BY CallersAreNotTimers DEF Init, IdleCallers

LEMMA StepsIdle ==
  ASSUME WellFormed, IdleCallers, [Next]_vars
  PROVE  IdleCallers'
<1>1. /\ op \in [Goroutine -> Operation] /\ \A k \in Caller : k \in Goroutine /\ k \notin Timer
      /\ \A k \in Goroutine : op[k] \in Operation /\ RecordOK(k, op[k])
  BY CallersAreNotTimers DEF WellFormed, TypeOK, OperationsOK
<1>2. ASSUME NEW g \in Goroutine, NEW r, op' = [op EXCEPT ![g] = r],
             r.pc # "idle" \/ r = Idle \/ g \notin Caller
      PROVE  IdleCallers'
  BY <1>1, <1>2, IdleMoves
<1>3. ASSUME NEW g \in Goroutine, NEW r, NEW T \in SUBSET Timer, op' = [Stop(op, T) EXCEPT ![g] = r],
             r.pc # "idle" \/ r = Idle
      PROVE  IdleCallers'
  <2> DEFINE o == Stop(op, T)
  <2>1. DOMAIN o = Goroutine /\ \A k \in Caller : o[k] = op[k]
    BY TimersAside
  <2>2. op' = [o EXCEPT ![g] = r]
    BY <1>3
  <2> HIDE DEF o
  <2> QED BY <1>3, <2>1, <2>2, IdleMoves, ZenonT(30)
<1>4. \A l \in Lease : Registered(l) \in SUBSET Timer
  BY DEF Registered, Timer
<1>5. ASSUME NEW g \in Goroutine, NEW l \in Lease, RevokeLease(g, l) PROVE IdleCallers'
  <2> DEFINE r == [op[g] EXCEPT !.pc = "drop", !.lease = l, !.version = leases[l],
                                !.driver = DriverFor(Current(l).target)]
  <2>1. r.pc = "drop"
    BY <1>1 DEF Operation
  <2>2. op' = [Stop(op, Registered(l)) EXCEPT ![g] = r]
    BY <1>5 DEF RevokeLease
  <2> HIDE DEF r
  <2> QED BY <1>3, <1>4, <2>1, <2>2
<1>6. ASSUME NEW g \in Caller, Call(g) PROVE IdleCallers'
  <2>1. g \in Goroutine /\ op[g] \in Operation
    BY <1>1
  <2>2. ASSUME NEW t, NEW ttl, IssueLease(g, t, ttl) PROVE IdleCallers'
    <3> DEFINE r == [op[g] EXCEPT !.pc = "generate", !.driver = DriverFor(t),
                                  !.object = [NoObject EXCEPT !.target = t, !.ttl = Granted(ttl)]]
    <3>1. r.pc = "generate"
      BY <2>1 DEF Operation
    <3>2. op' = [op EXCEPT ![g] = r]
      BY <2>2 DEF IssueLease
    <3> HIDE DEF r
    <3> QED BY <1>2, <2>1, <3>1, <3>2
  <2>3. ASSUME NEW l \in Lease, NEW ttl, RenewLease(g, l, ttl) PROVE IdleCallers'
    <3> DEFINE r == [Idle EXCEPT !.pc = "extend", !.lease = l, !.version = leases[l],
                                 !.fresh = renewals[l] + 2,
                                 !.driver = DriverFor(Current(l).target),
                                 !.object = [NoObject EXCEPT !.ttl = Granted(ttl)]]
    <3>1. r.pc = "extend"
      BY DEF Idle
    <3>2. op' = [op EXCEPT ![g] = r]
      BY <2>3 DEF RenewLease, Idle
    <3> HIDE DEF r
    <3> QED BY <1>2, <2>1, <3>1, <3>2
  <2>4. ASSUME Shutdown(g) PROVE IdleCallers'
    <3> DEFINE r == [Idle EXCEPT !.pc = "shutdown", !.todo = {l \in Lease : timers[l] # 0}]
               T == UNION {Registered(l) : l \in Lease}
    <3>1. r.pc = "shutdown"
      BY DEF Idle
    <3>2. op' = [Stop(op, T) EXCEPT ![g] = r]
      BY <2>4 DEF Shutdown
    <3>3. T \in SUBSET Timer
      BY <1>4
    <3> HIDE DEF r, T
    <3> QED BY <1>3, <2>1, <3>1, <3>2, <3>3
  <2> QED BY <1>5, <1>6, <2>1, <2>2, <2>3, <2>4 DEF Call
<1>7. ASSUME NEW g \in Goroutine, Step(g) PROVE IdleCallers'
  <2>1. op[g] \in Operation /\ RecordOK(g, op[g])
    BY <1>1
  <2>2. CASE Generate(g)
    <3> DEFINE n == IF op[g].driver = "generic_token" THEN op[g].object.target ELSE op[g].driver
               e == now + op[g].object.ttl
    <3>1. \/ op' = [op EXCEPT ![g] = Idle]
          \/ \E l \in Lease : op' = [op EXCEPT ![g].pc = "record", ![g].lease = l,
                                         ![g].object.target = n, ![g].object.expiresAt = e]
      BY <2>2 DEF Generate
    <3> HIDE DEF n, e
    <3>2. ASSUME NEW l \in Lease,
                 op' = [op EXCEPT ![g].pc = "record", ![g].lease = l,
                                  ![g].object.target = n, ![g].object.expiresAt = e]
          PROVE  IdleCallers'
      <4> DEFINE q == [op[g].object EXCEPT !.target = n, !.expiresAt = e]
                 r == [op[g] EXCEPT !.pc = "record", !.lease = l, !.object = q]
      <4>1. r.pc = "record"
        BY <2>1 DEF Operation
      <4>2. op' = [op EXCEPT ![g] = r]
        BY <3>2
      <4> HIDE DEF r
      <4> QED BY <1>2, <4>1, <4>2
    <3> QED BY <1>2, <3>1, <3>2
  <2>3. CASE RecordLease(g)
    <3> DEFINE o == [op EXCEPT ![<<op[g].lease, 1>>].pc = "armed"]
    <3>1. op[g].lease \in Lease /\ 1 \in Version
      BY <2>1, <2>3, BrokerAssumption DEF RecordLease, RecordOK, Version
    <3>2. DOMAIN o = Goroutine /\ \A k \in Caller : o[k] = op[k]
      BY <3>1, TimersAside DEF Timer
    <3>3. op' = [o EXCEPT ![g] = Idle]
      BY <2>3 DEF RecordLease
    <3> HIDE DEF o
    <3> QED BY <3>2, <3>3, IdleMoves
  <2>4. ASSUME NEW l \in Lease, op[g].pc # "idle", RevokeNothing(g, l) PROVE IdleCallers'
    <3> DEFINE r == IF g \in Timer THEN [Idle EXCEPT !.pc = "done"]
                    ELSE [op[g] EXCEPT !.todo = op[g].todo \ {l}]
    <3>1. r.pc # "idle"
      BY <2>1, <2>4 DEF Operation, Idle
    <3>2. op' = [op EXCEPT ![g] = r]
      BY <2>4 DEF RevokeNothing
    <3> HIDE DEF r
    <3> QED BY <1>2, <3>1, <3>2
  <2>5. CASE DropCredential(g)
    <3> DEFINE r == [op[g] EXCEPT !.pc = "mark"]
    <3>1. r.pc = "mark"
      BY <2>1 DEF Operation
    <3>2. op' = [op EXCEPT ![g] = r]
      BY <2>5 DEF DropCredential
    <3> HIDE DEF r
    <3> QED BY <1>2, <3>1, <3>2
  <2>6. CASE MarkRevoked(g)
    <3>1. Return(g).pc # "idle" \/ Return(g) = Idle
      BY DEF Return, Idle
    <3> QED BY <1>2, <2>6, <3>1 DEF MarkRevoked
  <2>7. CASE ExtendCredential(g)
    <3>1. \/ op' = [op EXCEPT ![g] = Idle]
          \/ \E p \in {"rearm", "clone"} : \E q :
                op' = [op EXCEPT ![g] = [op[g] EXCEPT !.pc = p, !.object = q]]
      <4>1. CASE ExtendInPlace(g)
        <5>1. [op[g] EXCEPT !.pc = "rearm"] = [op[g] EXCEPT !.pc = "rearm", !.object = op[g].object]
          BY <2>1 DEF Operation
        <5> QED BY <4>1, <5>1 DEF ExtendInPlace
      <4>2. CASE ExtendRole(g)
        <5> DEFINE q == [op[g].object EXCEPT !.expiresAt = now + op[g].object.ttl]
        <5>1. op' = [op EXCEPT ![g] = [op[g] EXCEPT !.pc = "clone", !.object = q]]
          BY <4>2 DEF ExtendRole
        <5> HIDE DEF q
        <5> QED BY <5>1
      <4>3. CASE ExtendUser(g)
        BY <4>3 DEF ExtendUser
      <4>4. CASE RefuseRenewal(g)
        BY <4>4 DEF RefuseRenewal
      <4> QED BY <2>7, <4>1, <4>2, <4>3, <4>4 DEF ExtendCredential
    <3>2. ASSUME NEW p \in {"rearm", "clone"}, NEW q,
                 op' = [op EXCEPT ![g] = [op[g] EXCEPT !.pc = p, !.object = q]]
          PROVE  IdleCallers'
      <4> DEFINE r == [op[g] EXCEPT !.pc = p, !.object = q]
      <4>1. r.pc = p
        BY <2>1 DEF Operation
      <4>2. op' = [op EXCEPT ![g] = r]
        BY <3>2
      <4> HIDE DEF r
      <4> QED BY <1>2, <4>1, <4>2
    <3> QED BY <1>2, <3>1, <3>2
  <2>8. CASE CloneLease(g)
    <3> DEFINE q == [object[op[g].lease][op[g].version] EXCEPT
                        !.ttl = op[g].object.ttl, !.expiresAt = op[g].object.expiresAt]
               r == [op[g] EXCEPT !.pc = "rearm", !.object = q]
    <3>1. r.pc = "rearm"
      BY <2>1 DEF Operation
    <3>2. op' = [op EXCEPT ![g] = r]
      BY <2>8 DEF CloneLease
    <3> HIDE DEF r
    <3> QED BY <1>2, <3>1, <3>2
  <2>9. CASE Rearm(g)
    <3> DEFINE l == op[g].lease
               o == Stop(op, Registered(l))
               a == [o EXCEPT ![<<l, op[g].fresh>>].pc = "armed"]
    <3>1. l \in Lease /\ op[g].fresh \in Version
      BY <2>1, <2>9 DEF Rearm, RecordOK, Operation
    <3>2. DOMAIN o = Goroutine /\ \A k \in Caller : o[k] = op[k]
      BY <1>4, <3>1, TimersAside
    <3>3. DOMAIN a = Goroutine /\ \A k \in Caller : a[k] = op[k]
      <4> DEFINE t == <<l, op[g].fresh>>
      <4>1. t \in Timer
        BY <3>1 DEF Timer
      <4> HIDE DEF o, t
      <4>2. DOMAIN [o EXCEPT ![t].pc = "armed"] = DOMAIN o
            /\ \A k \in Caller : [o EXCEPT ![t].pc = "armed"][k] = o[k]
        BY <4>1, TimersAside
      <4>3. a = [o EXCEPT ![t].pc = "armed"]
        BY DEF t
      <4> QED BY <3>2, <4>2, <4>3
    <3>4. op' = [a EXCEPT ![g] = Idle]
      BY <2>9 DEF Rearm
    <3> HIDE DEF a
    <3> QED BY <3>3, <3>4, IdleMoves
  <2>10. CASE ShutdownReturns(g)
    BY <1>2, <2>10 DEF ShutdownReturns
  <2> QED BY <1>5, <1>7, <2>2, <2>3, <2>4, <2>5, <2>6, <2>7, <2>8, <2>9, <2>10 DEF Step
<1>8. ASSUME NEW t \in Timer, Fire(t) PROVE IdleCallers'
  <2>1. op' = [op EXCEPT ![t] = [op[t] EXCEPT !.pc = "fired"]] /\ t \in Goroutine /\ t \notin Caller
    BY <1>1, <1>8, CallersAreNotTimers DEF Fire
  <2> QED BY <1>2, <2>1
<1>9. ASSUME op' = op PROVE IdleCallers'
  BY <1>9 DEF IdleCallers
<1>10. ASSUME NEW t \in Target, NEW d \in Driver, RegisterDriver(t, d) PROVE IdleCallers'
  BY <1>9, <1>10 DEF RegisterDriver
<1>11. CASE Tick \/ UNCHANGED vars
  BY <1>9, <1>11 DEF Tick, vars
<1> QED BY <1>6, <1>7, <1>8, <1>10, <1>11 DEF Next

-------------------------------------------------------------------------------
\* No lease is left unattended.

TimerRuns(r) == r.pc \in {"armed", "fired"}

\* A step preserves the invariants when no lease becomes unrevoked, no
\* goroutine stops watching a lease and no pending timer is lost.
LEMMA Frame ==
  ASSUME BrokerInv,
         UNCHANGED <<closed, leases, timers, late>>,
         \A l \in Lease : Unrevoked(l)' => Unrevoked(l),
         \A g \in Goroutine, l \in Lease : Watches(op[g], l) => Watches(op[g], l)',
         \A t \in Timer : TimerRuns(op[t]) => TimerRuns(op'[t])
  PROVE  NoLeaseUnattended' /\ ShutdownCoversSettledLeases'
<1>1. TypeOK /\ NoLeaseUnattended /\ ShutdownCoversSettledLeases
  BY DEF BrokerInv, WellFormed
<1>2. ASSUME NEW l \in Lease, BeingRevoked(l) PROVE BeingRevoked(l)'
  BY <1>2 DEF BeingRevoked
<1>3. ASSUME NEW l \in Lease, TimerPending(l) PROVE TimerPending(l)'
  <2>1. timers[l] \in Version /\ <<l, timers[l]>> \in Timer
    BY <1>1, <1>3, BrokerAssumption DEF TimerPending, TypeOK, Version, Timer
  <2> QED BY <1>3, <2>1 DEF TimerPending, TimerRuns
<1>4. NoLeaseUnattended'
  BY <1>1, <1>2, <1>3 DEF NoLeaseUnattended
<1>5. ShutdownCoversSettledLeases'
  BY <1>1, <1>2 DEF ShutdownCoversSettledLeases
<1> QED BY <1>4, <1>5

\* The case of one goroutine g that moves on to a record r.
LEMMA OneGoroutineFrame ==
  ASSUME BrokerInv,
         UNCHANGED <<closed, leases, timers, late>>,
         \A l \in Lease : Unrevoked(l)' => Unrevoked(l),
         NEW g \in Goroutine, NEW r,
         op' = [op EXCEPT ![g] = r],
         \A l \in Lease : Watches(op[g], l) => Watches(r, l),
         TimerRuns(op[g]) => TimerRuns(r)
  PROVE  NoLeaseUnattended' /\ ShutdownCoversSettledLeases'
<1>1. op \in [Goroutine -> Operation]
  BY DEF BrokerInv, WellFormed, TypeOK
<1>2. ASSUME NEW h \in Goroutine, NEW l \in Lease, Watches(op[h], l)
      PROVE  Watches(op[h], l)'
  <2>1. Watches(op'[h], l)
    BY <1>1, <1>2
  <2> QED BY <2>1 DEF Watches
<1>3. \A t \in Timer : TimerRuns(op[t]) => TimerRuns(op'[t])
  BY <1>1 DEF Goroutine
<1> QED BY <1>2, <1>3, Frame

\* The first steps of calls, and the steps that only carry a call further.
LEMMA QuietSteps ==
  ASSUME BrokerInv, NEW g \in Goroutine,
         \/ g \in Caller /\ \E t \in RequestTarget, ttl \in RequestTTL : IssueLease(g, t, ttl)
         \/ g \in Caller /\ \E l \in Lease, ttl \in RequestTTL : RenewLease(g, l, ttl)
         \/ Generate(g)
         \/ CloneLease(g)
         \/ ShutdownReturns(g)
         \/ ExtendCredential(g)
  PROVE  NoLeaseUnattended' /\ ShutdownCoversSettledLeases'
<1>1. op \in [Goroutine -> Operation] /\ object \in [Lease -> [Version -> Object]] /\ TypeOK
  BY DEF BrokerInv, WellFormed, TypeOK
<1>2. op[g].pc \in {"idle", "generate", "clone", "extend"} \/ ShutdownReturns(g)
  BY DEF IssueLease, RenewLease, Generate, CloneLease, ExtendCredential
<1>3. UNCHANGED <<closed, leases, timers, late>>
  BY DEF IssueLease, RenewLease, Generate, CloneLease, ExtendCredential, ShutdownReturns
<1>4. PICK r : op' = [op EXCEPT ![g] = r]
  <2>1. CASE g \in Caller /\ \E t \in RequestTarget, ttl \in RequestTTL : IssueLease(g, t, ttl)
    BY <2>1 DEF IssueLease
  <2>2. CASE g \in Caller /\ \E l \in Lease, ttl \in RequestTTL : RenewLease(g, l, ttl)
    BY <2>2 DEF RenewLease
  <2>3. CASE Generate(g)
    BY <2>3 DEF Generate
  <2>4. CASE CloneLease(g)
    BY <2>4 DEF CloneLease
  <2>5. CASE ShutdownReturns(g)
    BY <2>5 DEF ShutdownReturns
  <2>6. CASE ExtendCredential(g)
    BY <2>6 DEF ExtendCredential, ExtendInPlace, ExtendRole, ExtendUser, RefuseRenewal
  <2> QED BY <2>1, <2>2, <2>3, <2>4, <2>5, <2>6
<1>5. \A l \in Lease : ~Watches(op[g], l)
  BY <1>2 DEF Watches, ShutdownReturns
<1>6. ~TimerRuns(op[g])
  BY <1>2 DEF TimerRuns, ShutdownReturns
<1>7. \A l \in Lease : Unrevoked(l)' => Unrevoked(l)
  <2>1. CASE UNCHANGED object
    BY <2>1, <1>3 DEF Unrevoked, Recorded, Current
  <2>2. CASE ExtendCredential(g) /\ ExtendInPlace(g)
    <3> DEFINE b == object[op[g].lease][op[g].version]
    <3>1. op[g].lease \in Lease /\ op[g].version \in Version
      BY <2>2 DEF BrokerInv, WellFormed, OperationsOK, RecordOK, ExtendCredential
    <3>2. b \in Object
      BY <1>1, <3>1
    <3> DEFINE e == [b EXCEPT !.expiresAt = now + op[g].object.ttl, !.ttl = op[g].object.ttl]
    <3>3. object' = [object EXCEPT ![op[g].lease][op[g].version] = e]
      BY <2>2 DEF ExtendInPlace
    <3>4. e.revoked = b.revoked
      BY <3>2 DEF Object
    <3> HIDE DEF e
    <3>5. \A l \in Lease, v \in Version : object'[l][v].revoked = object[l][v].revoked
      BY <1>1, <3>1, <3>3, <3>4
    <3>6. \A l \in Lease : leases[l] # 0 => leases[l] \in Version
      BY <1>1, BrokerAssumption DEF TypeOK, Version
    <3> QED BY <1>3, <3>5, <3>6 DEF Unrevoked, Recorded, Current
  <2> QED BY <2>1, <2>2 DEF IssueLease, RenewLease, Generate, CloneLease, ShutdownReturns,
             ExtendCredential, ExtendRole, ExtendUser, RefuseRenewal
<1> QED BY <1>3, <1>4, <1>5, <1>6, <1>7, OneGoroutineFrame

LEMMA DropCredentialAttended ==
  ASSUME BrokerInv, NEW g \in Goroutine, DropCredential(g)
  PROVE  NoLeaseUnattended' /\ ShutdownCoversSettledLeases'
<1> DEFINE r == [op[g] EXCEPT !.pc = "mark"]
<1>1. op[g] \in Operation
  BY DEF BrokerInv, WellFormed, OperationsOK
<1>2. r.pc = "mark" /\ r.lease = op[g].lease /\ r.version = op[g].version /\ r.todo = op[g].todo
  BY <1>1 DEF Operation
<1>3. op' = [op EXCEPT ![g] = r] /\ op[g].pc = "drop"
  BY DEF DropCredential
<1> HIDE DEF r
<1>4. \A l \in Lease : Watches(op[g], l) => Watches(r, l)
  BY <1>2, <1>3 DEF Watches
<1>5. ~TimerRuns(op[g])
  BY <1>3 DEF TimerRuns
<1>6. \A l \in Lease : Unrevoked(l)' => Unrevoked(l)
  BY DEF DropCredential, Unrevoked, Recorded, Current
<1>7. UNCHANGED <<closed, leases, timers, late>>
  BY DEF DropCredential
<1> QED BY <1>3, <1>4, <1>5, <1>6, <1>7, OneGoroutineFrame

LEMMA FireAttended ==
  ASSUME BrokerInv, NEW t \in Timer, Fire(t)
  PROVE  NoLeaseUnattended' /\ ShutdownCoversSettledLeases'
<1> DEFINE r == [op[t] EXCEPT !.pc = "fired"]
<1>1. t \in Goroutine /\ op[t] \in Operation
  BY DEF BrokerInv, WellFormed, OperationsOK, Goroutine
<1>2. r.pc = "fired"
  BY <1>1 DEF Operation
<1>3. op' = [op EXCEPT ![t] = r] /\ op[t].pc = "armed"
  BY DEF Fire
<1> HIDE DEF r
<1>4. \A l \in Lease : ~Watches(op[t], l)
  BY <1>3 DEF Watches
<1>5. TimerRuns(r)
  BY <1>2 DEF TimerRuns
<1>6. \A l \in Lease : Unrevoked(l)' => Unrevoked(l)
  BY DEF Fire, Unrevoked, Recorded, Current
<1>7. UNCHANGED <<closed, leases, timers, late>>
  BY DEF Fire
<1> QED BY <1>1, <1>3, <1>4, <1>5, <1>6, <1>7, OneGoroutineFrame

LEMMA OtherAttended ==
  ASSUME BrokerInv,
         \/ \E t \in Target, d \in Driver : RegisterDriver(t, d)
         \/ Tick
         \/ UNCHANGED vars
  PROVE  NoLeaseUnattended' /\ ShutdownCoversSettledLeases'
<1>1. UNCHANGED <<closed, leases, timers, late, object, op>>
  BY DEF RegisterDriver, Tick, vars
<1>2. \A l \in Lease : Unrevoked(l)' => Unrevoked(l)
  BY <1>1 DEF Unrevoked, Recorded, Current
<1>3. \A g \in Goroutine, l \in Lease : Watches(op[g], l) => Watches(op[g], l)'
  BY <1>1 DEF Watches
<1> QED BY <1>1, <1>2, <1>3, Frame DEF TimerRuns

\* RecordLease and Rearm leave the lease l with a timer that has just been
\* armed; of every other lease they touch nothing but timers they stop.
LEMMA ArmedFrame ==
  ASSUME BrokerInv, WellFormed', NEW g \in Goroutine, g \notin Timer,
         op[g].pc \in {"record", "rearm"},
         NEW l \in Lease, NEW f \in Version,
         closed' = closed,
         late' = IF closed THEN late \cup {l} ELSE late,
         timers' = [timers EXCEPT ![l] = f],
         op'[<<l, f>>].pc = "armed",
         \A m \in Lease \ {l} : leases'[m] = leases[m] /\ object'[m] = object[m],
         \A h \in Goroutine : \/ h = g
                              \/ h \in Timer /\ h[1] = l /\ ~\E m \in Lease : Watches(op[h], m) /\ m # l
                              \/ op'[h] = op[h]
  PROVE  NoLeaseUnattended' /\ ShutdownCoversSettledLeases'
<1>1. TypeOK /\ NoLeaseUnattended /\ ShutdownCoversSettledLeases
  BY DEF BrokerInv, WellFormed
<1>2. timers'[l] = f /\ f # 0 /\ \A m \in Lease \ {l} : timers'[m] = timers[m]
  BY <1>1, BrokerAssumption DEF TypeOK, Version
<1>3. TimerPending(l)'
  BY <1>2 DEF TimerPending
<1>4. ASSUME NEW m \in Lease \ {l} PROVE Unrevoked(m)' <=> Unrevoked(m)
  BY DEF Unrevoked, Recorded, Current
<1>5. ASSUME NEW m \in Lease \ {l}, TimerPending(m) PROVE TimerPending(m)'
  <2>1. timers[m] \in Version
    BY <1>1, <1>5, BrokerAssumption DEF TimerPending, TypeOK, Version
  <2>2. <<m, timers[m]>> \in Timer /\ <<m, timers[m]>>[1] = m
    BY <2>1 DEF Timer
  <2>3. op'[<<m, timers[m]>>] = op[<<m, timers[m]>>]
    BY <2>2 DEF Goroutine
  <2> QED BY <1>2, <1>5, <2>3 DEF TimerPending
<1>6. ASSUME NEW m \in Lease \ {l}, BeingRevoked(m) PROVE BeingRevoked(m)'
  <2>1. PICK h \in Goroutine : Watches(op[h], m)
    BY <1>6 DEF BeingRevoked
  <2>2. op'[h] = op[h]
    BY <2>1 DEF Watches
  <2>3. Watches(op[h], m)'
    BY <2>1, <2>2 DEF Watches
  <2> QED BY <2>3 DEF BeingRevoked
<1>7. NoLeaseUnattended'
  BY <1>1, <1>3, <1>4, <1>5, <1>6 DEF NoLeaseUnattended
<1>8. ShutdownCoversSettledLeases'
  BY <1>1, <1>2, <1>4, <1>6 DEF ShutdownCoversSettledLeases
<1> QED BY <1>7, <1>8

LEMMA RecordLeaseAttended ==
  ASSUME BrokerInv, NEW g \in Goroutine, RecordLease(g)
  PROVE  NoLeaseUnattended' /\ ShutdownCoversSettledLeases'
<1> DEFINE l == op[g].lease
           f == 1
           t == <<l, f>>
<1>1. /\ OperationsOK(op) /\ TypeOK /\ WellFormed
      /\ op \in [Goroutine -> Operation] /\ op[g].pc = "record"
  BY DEF BrokerInv, WellFormed, OperationsOK, RecordLease
<1>2. g \notin Timer /\ l \in Lease /\ RecordOK(g, op[g])
  BY <1>1 DEF OperationsOK, RecordOK
<1>3. f \in Version /\ t \in Timer /\ t \in Goroutine /\ t[1] = l
  BY <1>2, BrokerAssumption DEF Version, Timer, Goroutine
<1>4. WellFormed'
  BY <1>1, RecordLeaseWellFormed
<1>5. op'[t].pc = "armed"
  <2>1. op[t] \in Operation /\ t # g
    BY <1>1, <1>2, <1>3
  <2>2. op' = [op EXCEPT ![t].pc = "armed", ![g] = Idle]
    BY DEF RecordLease
  <2> HIDE DEF t
  <2> QED BY <1>1, <1>3, <2>1, <2>2 DEF Operation
<1>6. \A m \in Lease \ {l} : leases'[m] = leases[m] /\ object'[m] = object[m]
  BY <1>1 DEF RecordLease, TypeOK
<1>7. ASSUME NEW h \in Goroutine, h # g, h # t PROVE op'[h] = op[h]
  BY <1>1, <1>7 DEF RecordLease
<1>8. \A m \in Lease : Watches(op[t], m) => m = l
  BY <1>1, <1>3 DEF OperationsOK, RecordOK, Watches
<1>9. /\ closed' = closed
      /\ late' = IF closed THEN late \cup {l} ELSE late
      /\ timers' = [timers EXCEPT ![l] = f]
  BY DEF RecordLease
<1> HIDE DEF l, f, t
<1>10. <<l, f>> = t
  BY DEF t
<1>11. ASSUME NEW h \in Goroutine
       PROVE  \/ h = g
              \/ h \in Timer /\ h[1] = l /\ ~\E m \in Lease : Watches(op[h], m) /\ m # l
              \/ op'[h] = op[h]
  BY <1>3, <1>7, <1>8
<1>12. f \in Version
  BY <1>3
<1> QED BY <1>1, <1>2, <1>12, <1>4, <1>5, <1>6, <1>9, <1>10, <1>11, ArmedFrame

LEMMA RearmAttended ==
  ASSUME BrokerInv, NEW g \in Goroutine, Rearm(g)
  PROVE  NoLeaseUnattended' /\ ShutdownCoversSettledLeases'
<1> DEFINE l == op[g].lease
           f == op[g].fresh
           t == <<l, f>>
           v == IF op[g].driver = "generic_token" THEN op[g].version ELSE f
           o == Stop(op, Registered(l))
<1>1. /\ OperationsOK(op) /\ TypeOK /\ WellFormed
      /\ op \in [Goroutine -> Operation] /\ op[g].pc = "rearm"
  BY DEF BrokerInv, WellFormed, OperationsOK, Rearm
<1>2. g \notin Timer /\ l \in Lease /\ RecordOK(g, op[g]) /\ f \in Version
  BY <1>1 DEF OperationsOK, RecordOK, Operation
<1>3. t \in Timer /\ t \in Goroutine /\ t[1] = l
  BY <1>2 DEF Timer, Goroutine
<1>4. WellFormed'
  BY <1>1, RearmWellFormed
<1>5. o \in [Goroutine -> Operation] /\ op' = [o EXCEPT ![t].pc = "armed", ![g] = Idle]
  BY <1>1, StopSpec DEF Rearm
<1>6. op'[t].pc = "armed"
  <2> HIDE DEF o
  <2>1. o[t] \in Operation /\ t # g
    BY <1>2, <1>3, <1>5
  <2> QED BY <1>3, <1>5, <2>1 DEF Operation
<1>7. \A m \in Lease \ {l} : leases'[m] = leases[m] /\ object'[m] = object[m]
  BY <1>1 DEF Rearm, TypeOK
<1>8. ASSUME NEW h \in Goroutine, h # g, h # t PROVE op'[h] = o[h]
  <2> HIDE DEF o
  <2> QED BY <1>5, <1>8
<1>9. ASSUME NEW h \in Goroutine, h \notin Registered(l) PROVE o[h] = op[h]
  BY <1>1, <1>9, StopSpec
<1>10. \A h \in Registered(l) : h \in Timer /\ h[1] = l
  BY <1>2 DEF Registered, Timer
<1>11. \A h \in Timer, m \in Lease : h[1] = l /\ Watches(op[h], m) => m = l
  BY <1>1 DEF OperationsOK, RecordOK, Watches, Goroutine
<1>12. /\ closed' = closed
       /\ late' = IF closed THEN late \cup {l} ELSE late
       /\ timers' = [timers EXCEPT ![l] = f]
  BY DEF Rearm
<1> HIDE DEF l, f, t, o
<1>13. <<l, f>> = t
  BY DEF t
<1>14. ASSUME NEW h \in Goroutine
       PROVE  \/ h = g
              \/ h \in Timer /\ h[1] = l /\ ~\E m \in Lease : Watches(op[h], m) /\ m # l
              \/ op'[h] = op[h]
  BY <1>3, <1>8, <1>9, <1>10, <1>11
<1> QED BY <1>1, <1>2, <1>4, <1>6, <1>7, <1>12, <1>13, <1>14, ArmedFrame

LEMMA RevokeLeaseAttended ==
  ASSUME BrokerInv, NEW g \in Goroutine, NEW l \in Lease, RevokeLease(g, l)
  PROVE  NoLeaseUnattended' /\ ShutdownCoversSettledLeases'
<1> DEFINE r == [op[g] EXCEPT !.pc = "drop", !.lease = l, !.version = leases[l],
                              !.driver = DriverFor(Current(l).target)]
           o == Stop(op, Registered(l))
<1>1. /\ OperationsOK(op) /\ TypeOK /\ NoLeaseUnattended /\ ShutdownCoversSettledLeases
      /\ op \in [Goroutine -> Operation] /\ op[g] \in Operation /\ RecordOK(g, op[g])
  BY DEF BrokerInv, WellFormed, OperationsOK
<1>2. r.pc = "drop" /\ r.lease = l /\ r.version = leases[l] /\ r.todo = op[g].todo
  BY <1>1 DEF Operation
<1>3. op' = [o EXCEPT ![g] = r] /\ o \in [Goroutine -> Operation]
  BY <1>1, StopSpec DEF RevokeLease
<1>4. /\ \A h \in Goroutine : op[h].pc # "armed" => o[h] = op[h]
      /\ \A h \in Goroutine : h \notin Registered(l) => o[h] = op[h]
  BY <1>1, StopSpec
<1> HIDE DEF r, o
<1>5. op[g].pc \in {"idle", "fired", "shutdown"} /\ (g \in Timer => g[1] = l)
  BY <1>1, CallersAreNotTimers DEF RevokeLease, CallsRevoke, RecordOK
<1>6. /\ UNCHANGED <<closed, leases, object, late>>
      /\ timers' = [timers EXCEPT ![l] = 0]
  BY DEF RevokeLease
<1>7. ASSUME NEW m \in Lease PROVE Unrevoked(m)' <=> Unrevoked(m)
  BY <1>6 DEF Unrevoked, Recorded, Current
<1>8. BeingRevoked(l)'
  <2>1. Watches(op[g], l)'
    BY <1>2, <1>3, <1>6 DEF Watches
  <2> QED BY <2>1 DEF BeingRevoked
<1>9. ASSUME NEW m \in Lease \ {l}, BeingRevoked(m) PROVE BeingRevoked(m)'
  <2>1. PICK h \in Goroutine : Watches(op[h], m)
    BY <1>9 DEF BeingRevoked
  <2>2. o[h] = op[h]
    BY <1>4, <2>1 DEF Watches
  <2>3. CASE h # g
    BY <1>3, <1>6, <2>1, <2>2, <2>3 DEF Watches, BeingRevoked
  <2>4. CASE h = g
    <3>1. m \in op[g].todo
      BY <1>5, <2>1, <2>4 DEF Watches
    <3>2. Watches(op[g], m)'
      BY <1>2, <1>3, <1>6, <3>1 DEF Watches
    <3> QED BY <3>2 DEF BeingRevoked
  <2> QED BY <2>3, <2>4
<1>10. ASSUME NEW m \in Lease \ {l}, TimerPending(m) PROVE TimerPending(m)'
  <2> DEFINE t == <<m, timers[m]>>
  <2>1. timers[m] \in Version
    BY <1>1, <1>10, BrokerAssumption DEF TimerPending, TypeOK, Version
  <2>2. t \in Timer /\ t \in Goroutine /\ t[1] = m /\ t \notin Registered(l) /\ t # g
    BY <1>5, <2>1 DEF Timer, Goroutine, Registered
  <2>3. op'[t] = op[t] /\ timers'[m] = timers[m]
    BY <1>1, <1>3, <1>4, <1>6, <2>2 DEF TypeOK
  <2> QED BY <1>10, <2>3 DEF TimerPending
<1>11. NoLeaseUnattended'
  BY <1>1, <1>7, <1>8, <1>9, <1>10 DEF NoLeaseUnattended
<1>12. ShutdownCoversSettledLeases'
  <2>1. \A m \in Lease : timers[m] = 0 => timers'[m] = 0
    BY <1>1, <1>6 DEF TypeOK
  <2> QED BY <1>1, <1>6, <1>7, <1>8, <1>9, <2>1 DEF ShutdownCoversSettledLeases
<1> QED BY <1>11, <1>12

LEMMA RevokeNothingAttended ==
  ASSUME BrokerInv, NEW g \in Goroutine, NEW l \in Lease, op[g].pc # "idle",
         RevokeNothing(g, l)
  PROVE  NoLeaseUnattended' /\ ShutdownCoversSettledLeases'
<1>1. /\ OperationsOK(op) /\ TypeOK /\ NoLeaseUnattended /\ ShutdownCoversSettledLeases
      /\ op \in [Goroutine -> Operation] /\ op[g] \in Operation /\ RecordOK(g, op[g])
  BY DEF BrokerInv, WellFormed, OperationsOK
<1>2. UNCHANGED <<closed, leases, object, timers, late>> /\ ~Unrevoked(l)
  BY DEF RevokeNothing
<1>3. ASSUME NEW m \in Lease PROVE Unrevoked(m)' <=> Unrevoked(m)
  BY <1>2 DEF Unrevoked, Recorded, Current
<1>4. ASSUME NEW h \in Goroutine, h # g PROVE op'[h] = op[h]
  BY <1>1, <1>4 DEF RevokeNothing
<1>5. ASSUME NEW m \in Lease \ {l}, BeingRevoked(m) PROVE BeingRevoked(m)'
  <2>1. PICK h \in Goroutine : Watches(op[h], m)
    BY <1>5 DEF BeingRevoked
  <2>2. CASE h # g
    BY <1>2, <1>4, <2>1, <2>2 DEF Watches, BeingRevoked
  <2>3. CASE h = g
    <3>1. op[g].pc = "shutdown" /\ m \in op[g].todo
      BY <2>1, <2>3 DEF Watches, RevokeNothing, CallsRevoke
    <3>2. g \notin Timer
      BY <1>1, <3>1 DEF RecordOK
    <3>3. op'[g] = [op[g] EXCEPT !.todo = op[g].todo \ {l}]
      BY <1>1, <3>2 DEF RevokeNothing
    <3>4. op'[g].pc = "shutdown" /\ m \in op'[g].todo
      BY <1>1, <3>1, <3>3 DEF Operation
    <3> QED BY <3>4 DEF Watches, BeingRevoked
  <2> QED BY <2>2, <2>3
<1>6. ASSUME NEW m \in Lease \ {l}, TimerPending(m) PROVE TimerPending(m)'
  <2> DEFINE t == <<m, timers[m]>>
  <2>1. timers[m] \in Version
    BY <1>1, <1>6, BrokerAssumption DEF TimerPending, TypeOK, Version
  <2>2. t \in Timer /\ t \in Goroutine /\ t[1] = m
    BY <2>1 DEF Timer, Goroutine
  <2>3. t # g
    BY <1>1, <1>6, <2>2, CallersAreNotTimers
    DEF RevokeNothing, CallsRevoke, RecordOK, TimerPending
  <2>4. op'[t] = op[t]
    BY <1>4, <2>2, <2>3
  <2> QED BY <1>2, <1>6, <2>4 DEF TimerPending
<1>7. NoLeaseUnattended'
  BY <1>1, <1>2, <1>3, <1>5, <1>6 DEF NoLeaseUnattended
<1>8. ShutdownCoversSettledLeases'
  BY <1>1, <1>2, <1>3, <1>5 DEF ShutdownCoversSettledLeases
<1> QED BY <1>7, <1>8

LEMMA MarkRevokedAttended ==
  ASSUME BrokerInv, NEW g \in Goroutine, MarkRevoked(g)
  PROVE  NoLeaseUnattended' /\ ShutdownCoversSettledLeases'
<1> DEFINE l == op[g].lease
           w == op[g].version
           r == Return(g)
<1>1. /\ OperationsOK(op) /\ TypeOK /\ NoLeaseUnattended /\ ShutdownCoversSettledLeases
      /\ op \in [Goroutine -> Operation] /\ op[g] \in Operation /\ RecordOK(g, op[g])
  BY DEF BrokerInv, WellFormed, OperationsOK
<1>2. l \in Lease /\ w \in Version /\ op[g].pc = "mark"
  BY <1>1 DEF MarkRevoked, RecordOK
<1>3. UNCHANGED <<closed, leases, timers, late>> /\ op' = [op EXCEPT ![g] = r]
  BY DEF MarkRevoked
<1>4. object' = [object EXCEPT ![l][w].revoked = TRUE]
  BY DEF MarkRevoked
<1>5. /\ object \in [Lease -> [Version -> Object]]
      /\ \A m \in Lease : Recorded(m) => leases[m] \in Version
  BY <1>1, BrokerAssumption DEF TypeOK, Recorded, Version
<1>6. ASSUME NEW m \in Lease, Unrevoked(m)'
      PROVE  Unrevoked(m) /\ ~(m = l /\ w = leases[l])
  <2>1. Recorded(m) /\ leases[m] \in Version /\ leases'[m] = leases[m]
    BY <1>3, <1>5, <1>6 DEF Unrevoked, Recorded
  <2>2. CASE m = l /\ w = leases[l]
    <3>1. object[l][w] \in Object
      BY <1>2, <1>5
    <3>2. object'[l][w].revoked = TRUE
      BY <1>2, <1>4, <1>5, <3>1 DEF Object
    <3> QED BY <1>6, <2>1, <2>2, <3>2 DEF Unrevoked, Current
  <2>3. CASE ~(m = l /\ w = leases[l])
    <3>1. object'[m][leases[m]] = object[m][leases[m]]
      BY <1>2, <1>4, <1>5, <2>1, <2>3
    <3> QED BY <1>6, <2>1, <2>3, <3>1 DEF Unrevoked, Current
  <2> QED BY <2>2, <2>3
<1>7. ASSUME NEW m \in Lease, Watches(op[g], m), ~(m = l /\ w = leases[l])
      PROVE  Watches(op[g], m)'
  <2>1. m \in op[g].todo \ {l}
    BY <1>2, <1>7 DEF Watches
  <2>2. g \notin Timer
    BY <1>1, <2>1 DEF RecordOK
  <2>3. r = [Idle EXCEPT !.pc = "shutdown", !.todo = op[g].todo \ {l}]
    BY <2>1, <2>2 DEF Return
  <2>4. r.pc = "shutdown" /\ r.todo = op[g].todo \ {l}
    BY <2>3 DEF Idle
  <2>5. op'[g] = r
    BY <1>1, <1>3
  <2> HIDE DEF r, l
  <2> QED BY <2>1, <2>4, <2>5 DEF Watches
<1>8. ASSUME NEW m \in Lease, Unrevoked(m)', BeingRevoked(m) PROVE BeingRevoked(m)'
  <2>1. PICK h \in Goroutine : Watches(op[h], m)
    BY <1>8 DEF BeingRevoked
  <2>2. CASE h # g
    BY <1>1, <1>3, <2>1, <2>2 DEF Watches, BeingRevoked
  <2>3. CASE h = g
    BY <1>6, <1>7, <1>8, <2>1, <2>3 DEF BeingRevoked
  <2> QED BY <2>2, <2>3
<1>9. ASSUME NEW m \in Lease, TimerPending(m) PROVE TimerPending(m)'
  <2> DEFINE t == <<m, timers[m]>>
  <2>1. timers[m] \in Version
    BY <1>1, <1>9, BrokerAssumption DEF TimerPending, TypeOK, Version
  <2>2. t \in Goroutine /\ t # g
    BY <1>2, <1>9, <2>1 DEF Timer, Goroutine, TimerPending
  <2>3. op'[t] = op[t]
    BY <1>1, <1>3, <2>2
  <2> QED BY <1>3, <1>9, <2>3 DEF TimerPending
<1>10. NoLeaseUnattended'
  BY <1>1, <1>6, <1>8, <1>9 DEF NoLeaseUnattended
<1>11. ShutdownCoversSettledLeases'
  BY <1>1, <1>3, <1>6, <1>8 DEF ShutdownCoversSettledLeases
<1> QED BY <1>10, <1>11

LEMMA ShutdownAttended ==
  ASSUME BrokerInv, NEW g \in Caller, Shutdown(g)
  PROVE  NoLeaseUnattended' /\ ShutdownCoversSettledLeases'
<1> DEFINE T == {l \in Lease : timers[l] # 0}
           r == [Idle EXCEPT !.pc = "shutdown", !.todo = T]
           o == Stop(op, UNION {Registered(l) : l \in Lease})
<1>1. /\ OperationsOK(op) /\ TypeOK /\ NoLeaseUnattended
      /\ op \in [Goroutine -> Operation] /\ op[g].pc = "idle" /\ g \in Goroutine
  BY CallersAreNotTimers DEF BrokerInv, WellFormed, OperationsOK, Shutdown
<1>2. r.pc = "shutdown" /\ r.todo = T
  BY DEF Idle
<1>3. op' = [o EXCEPT ![g] = r] /\ o \in [Goroutine -> Operation]
  BY <1>1, StopSpec DEF Shutdown
<1>4. \A h \in Goroutine : op[h].pc # "armed" => o[h] = op[h]
  BY <1>1, StopSpec
<1> HIDE DEF r, o
<1>5. UNCHANGED <<leases, object, late>> /\ timers' = [l \in Lease |-> 0]
  BY DEF Shutdown
<1>6. ASSUME NEW l \in Lease PROVE Unrevoked(l)' <=> Unrevoked(l)
  BY <1>5 DEF Unrevoked, Recorded, Current
<1>7. ASSUME NEW l \in Lease, BeingRevoked(l) PROVE BeingRevoked(l)'
  <2>1. PICK h \in Goroutine : Watches(op[h], l)
    BY <1>7 DEF BeingRevoked
  <2>2. h # g /\ op'[h] = op[h]
    BY <1>1, <1>3, <1>4, <2>1 DEF Watches
  <2> QED BY <1>5, <2>1, <2>2 DEF Watches, BeingRevoked
<1>8. ASSUME NEW l \in Lease, timers[l] # 0 PROVE BeingRevoked(l)'
  <2>1. op'[g] = r /\ l \in r.todo
    BY <1>1, <1>2, <1>3, <1>8
  <2> QED BY <1>1, <1>2, <2>1 DEF Watches, BeingRevoked
<1>9. \A l \in Lease : Unrevoked(l)' => BeingRevoked(l)'
  BY <1>1, <1>6, <1>7, <1>8 DEF NoLeaseUnattended, TimerPending
<1> QED BY <1>5, <1>9 DEF NoLeaseUnattended, ShutdownCoversSettledLeases

LEMMA InitAttended == Init => NoLeaseUnattended /\ ShutdownCoversSettledLeases
  BY DEF Init, NoLeaseUnattended, ShutdownCoversSettledLeases, Unrevoked, Recorded

\* The invariant is inductive.
LEMMA BrokerInvariant == Spec => []BrokerInv
<1>1. Init => BrokerInv
  BY InitWellFormed, InitAttended DEF BrokerInv
<1>2. BrokerInv /\ [Next]_vars /\ WellFormed' => BrokerInv'
  <2> SUFFICES ASSUME BrokerInv, [Next]_vars, WellFormed'
               PROVE  NoLeaseUnattended' /\ ShutdownCoversSettledLeases'
    BY DEF BrokerInv
  <2>1. ASSUME NEW g \in Caller, Call(g)
        PROVE  NoLeaseUnattended' /\ ShutdownCoversSettledLeases'
    BY <2>1, QuietSteps, RevokeLeaseAttended, ShutdownAttended, CallersAreNotTimers DEF Call
  <2>2. ASSUME NEW g \in Goroutine, Step(g)
        PROVE  NoLeaseUnattended' /\ ShutdownCoversSettledLeases'
    BY <2>2, QuietSteps, RecordLeaseAttended, RevokeLeaseAttended, RevokeNothingAttended,
       DropCredentialAttended, MarkRevokedAttended, RearmAttended DEF Step
  <2> QED BY <2>1, <2>2, FireAttended, OtherAttended DEF Next
<1> QED BY <1>1, <1>2, TypeCorrect, PTL DEF Spec

\* No lease is forgotten, whatever the number of leases, callers and renewals:
\* the timer that IssueLease or RenewLease armed is still to run, or some
\* goroutine has taken the revocation upon itself.
THEOREM NoLeaseForgotten == Spec => []NoLeaseUnattended
<1>1. BrokerInv => NoLeaseUnattended
  BY DEF BrokerInv
<1> QED BY <1>1, BrokerInvariant, PTL

\* Shutdown leaves no registered timer and no unattended lease but those of the
\* IssueLease and RenewLease calls that finish after it closed the broker.
THEOREM ShutdownCovers == Spec => []ShutdownCoversSettledLeases
<1>1. BrokerInv => ShutdownCoversSettledLeases
  BY DEF BrokerInv
<1> QED BY <1>1, BrokerInvariant, PTL

-------------------------------------------------------------------------------
\* A lease is revoked only when its secret is gone, if names keep their meaning.

\* The backend has answered a revocation of l, with credentials c and refusals f.
Answered(l, c, f) == c[l].state = "dropped" \/ l \in f

\* The target in a lease leads back to the driver that minted its secret.
LeadsBack(target, l, c) == Resolve(target) = c[l].driver

Quiet == {"idle", "armed", "stopped", "fired", "done", "shutdown"}

\* What goroutine record r knows of its lease and of the driver it calls, when
\* the credentials are c, the refusals f, the map m and the objects o.
RecordReal(r, c, f, m, o) ==
    /\ r.pc \notin Quiet \cup {"generate"} => c[r.lease].state # "none"
    /\ r.pc = "generate" => r.driver = Resolve(r.object.target)
    /\ r.pc \in {"generate", "record"} => ~r.object.revoked
    /\ r.pc = "record" => LeadsBack(r.object.target, r.lease, c)
    /\ r.pc \in {"drop", "mark", "extend", "clone", "rearm"} => m[r.lease] # 0
    /\ r.pc \in {"extend", "clone", "rearm"} =>
          LeadsBack(o[r.lease][r.version].target, r.lease, c)
    /\ r.pc = "drop" => r.driver = c[r.lease].driver
    /\ r.pc = "mark" => Answered(r.lease, c, f)
    /\ r.pc = "rearm" /\ r.driver # "generic_token" =>
          /\ LeadsBack(r.object.target, r.lease, c)
          /\ r.object.revoked => Answered(r.lease, c, f)

\* Every lease in the map leads back to its driver.
MapReal(c, m, o) ==
    \A l \in Lease : m[l] # 0 => c[l].state # "none" /\ LeadsBack(o[l][m[l]].target, l, c)

\* The inductive invariant behind RevokedMeansDropped.
DropInv ==
    /\ \A t \in Target : DriverFor(t) = Resolve(t)
    /\ MapReal(credential, leases, object)
    /\ RevokedMeansDropped
    /\ \A g \in Goroutine : RecordReal(op[g], credential, revokeFailed, leases, object)

RevokeInv == WellFormed /\ DropInv

\* A step takes back no secret's driver, no answer of a backend and no lease,
\* and changes no target so that it leads elsewhere.
Lasting ==
    \A l \in Lease :
        /\ credential[l].state # "none" =>
              credential'[l].state # "none" /\ credential'[l].driver = credential[l].driver
        /\ Answered(l, credential, revokeFailed) => Answered(l, credential', revokeFailed')
        /\ leases[l] # 0 => leases'[l] # 0
        /\ \A v \in Version :
              credential[l].state # "none" /\ LeadsBack(object[l][v].target, l, credential) =>
                  LeadsBack(object'[l][v].target, l, credential')

RealNext(r) == RecordReal(r, credential', revokeFailed', leases', object')

\* What a goroutine knows lasts.
LEMMA RealLasts ==
  ASSUME RevokeInv, Lasting, NEW g \in Goroutine
  PROVE  RealNext(op[g])
<1> DEFINE r == op[g]
<1>1. RecordReal(r, credential, revokeFailed, leases, object) /\ RecordOK(g, r)
  BY DEF RevokeInv, DropInv, WellFormed, OperationsOK
<1>2. CASE r.pc \in Quiet
  BY <1>2 DEF RecordReal, RealNext, Quiet
<1>3. CASE r.pc = "generate"
  BY <1>1, <1>3 DEF RecordReal, RealNext, Quiet
<1>4. CASE r.pc \in {"record", "drop", "mark", "extend", "clone", "rearm"}
  <2>1. r.lease \in Lease /\ credential[r.lease].state # "none"
    BY <1>1, <1>4 DEF RecordReal, RecordOK, Quiet
  <2>2. r.pc \in {"extend", "clone", "rearm"} => r.version \in Version
    BY <1>1 DEF RecordOK
  <2>3. /\ credential'[r.lease].state # "none"
        /\ credential'[r.lease].driver = credential[r.lease].driver
        /\ leases[r.lease] # 0 => leases'[r.lease] # 0
        /\ Answered(r.lease, credential, revokeFailed) => Answered(r.lease, credential', revokeFailed')
    BY <2>1 DEF Lasting
  <2>4. ASSUME NEW t
        PROVE  LeadsBack(t, r.lease, credential) <=> LeadsBack(t, r.lease, credential')
    BY <2>3 DEF LeadsBack
  <2>5. r.pc \in {"extend", "clone", "rearm"} =>
          LeadsBack(object'[r.lease][r.version].target, r.lease, credential')
    BY <1>1, <2>1, <2>2 DEF Lasting, RecordReal
  <2>6. /\ credential'[r.lease].state # "none"
        /\ r.pc = "drop" => r.driver = credential'[r.lease].driver
        /\ r.pc = "mark" => Answered(r.lease, credential', revokeFailed')
        /\ r.pc \in {"drop", "mark", "extend", "clone", "rearm"} => leases'[r.lease] # 0
    BY <1>1, <2>3 DEF RecordReal
  <2>7. /\ r.pc = "record" => LeadsBack(r.object.target, r.lease, credential') /\ ~r.object.revoked
        /\ r.pc = "rearm" /\ r.driver # "generic_token" =>
              /\ LeadsBack(r.object.target, r.lease, credential')
              /\ r.object.revoked => Answered(r.lease, credential', revokeFailed')
    BY <1>1, <2>3, <2>4 DEF RecordReal
  <2> QED BY <1>4, <2>5, <2>6, <2>7 DEF RecordReal, RealNext
<1>5. r.pc \in Quiet \cup {"generate", "record", "drop", "mark", "extend", "clone", "rearm"}
  BY DEF RevokeInv, WellFormed, TypeOK, Operation, Point, Quiet
<1> QED BY <1>2, <1>3, <1>4, <1>5

\* A goroutine that makes no call knows nothing.
LEMMA QuietReal ==
  ASSUME NEW r, r.pc \in Quiet
  PROVE  RealNext(r)
BY DEF RealNext, RecordReal, Quiet

\* One goroutine does something; timers may be armed, stopped or started.
LEMMA RevokeFrame ==
  ASSUME RevokeInv, Lasting, UNCHANGED drivers,
         NEW g \in Goroutine, RealNext(op'[g]),
         \A h \in Goroutine \ {g} : op'[h] = op[h] \/ op'[h].pc \in Quiet,
         MapReal(credential', leases', object'), RevokedMeansDropped'
  PROVE  DropInv'
<1>1. \A t \in Target : DriverFor(t)' = Resolve(t)
  BY DEF RevokeInv, DropInv, DriverFor
<1>2. ASSUME NEW h \in Goroutine PROVE RealNext(op'[h])
  BY <1>2, RealLasts, QuietReal
<1> QED BY <1>1, <1>2 DEF DropInv, RealNext

\* A step that changes neither the map nor the objects.
LEMMA QuietFrame ==
  ASSUME RevokeInv, Lasting, UNCHANGED <<leases, object>>
  PROVE  MapReal(credential', leases', object') /\ RevokedMeansDropped'
<1>1. \A l \in Lease : leases[l] \in Version \cup {0}
  BY BrokerAssumption DEF RevokeInv, WellFormed, TypeOK, Version
<1>2. MapReal(credential', leases', object')
  BY <1>1 DEF RevokeInv, DropInv, MapReal, Lasting
<1>3. RevokedMeansDropped'
  BY DEF RevokeInv, DropInv, RevokedMeansDropped, Lasting, Answered
<1> QED BY <1>2, <1>3

\* A step that leaves credentials, map and objects as they are.
LEMMA SameLasting ==
  ASSUME UNCHANGED <<leases, object, credential, revokeFailed>>
  PROVE  Lasting
BY DEF Lasting

LEMMA SameFrame ==
  ASSUME RevokeInv, UNCHANGED <<drivers, leases, object, credential, revokeFailed>>,
         NEW g \in Goroutine, RealNext(op'[g]),
         \A h \in Goroutine \ {g} : op'[h] = op[h] \/ op'[h].pc \in Quiet
  PROVE  DropInv'
<1>1. Lasting
  BY SameLasting
<1>2. MapReal(credential', leases', object') /\ RevokedMeansDropped'
  BY <1>1, QuietFrame
<1> QED BY <1>1, <1>2, RevokeFrame

\* Steps that only move one goroutine, or none.
LEMMA SmallStepsReal ==
  ASSUME RevokeInv, StableNames
  PROVE  /\ \A g \in Caller, t \in RequestTarget, ttl \in RequestTTL : IssueLease(g, t, ttl) => DropInv'
         /\ \A g \in Goroutine, l \in Lease : RevokeNothing(g, l) /\ op[g].pc # "idle" => DropInv'
         /\ \A g \in Goroutine : ShutdownReturns(g) => DropInv'
         /\ \A g \in Caller : Shutdown(g) => DropInv'
         /\ \A t \in Timer : Fire(t) => DropInv'
         /\ \A t \in Target, d \in Driver : RegisterDriver(t, d) => DropInv'
         /\ Tick => DropInv'
         /\ UNCHANGED vars => DropInv'
<1>1. /\ op \in [Goroutine -> Operation] /\ Caller \subseteq Goroutine /\ Timer \subseteq Goroutine
      /\ \A t \in Target : DriverFor(t) = Resolve(t)
      /\ drivers \in [Target -> Driver \cup {None}]
  BY DEF RevokeInv, WellFormed, TypeOK, Goroutine, DropInv
<1>2. ASSUME NEW g \in Caller, NEW t \in RequestTarget, NEW ttl \in RequestTTL, IssueLease(g, t, ttl)
      PROVE  DropInv'
  <2>1. t \in Target
    BY BrokerAssumption
  <2>2. /\ op'[g].pc = "generate" /\ op'[g].driver = Resolve(t)
        /\ op'[g].object.target = t /\ op'[g].object.revoked = FALSE
        /\ \A h \in Goroutine \ {g} : op'[h] = op[h]
    BY <1>1, <1>2, <2>1 DEF IssueLease, Operation, NoObject
  <2>3. RealNext(op'[g])
    BY <2>2 DEF RealNext, RecordReal, Quiet
  <2> QED BY <1>1, <1>2, <2>2, <2>3, SameFrame DEF IssueLease
<1>3. ASSUME NEW g \in Goroutine, NEW l \in Lease, RevokeNothing(g, l), op[g].pc # "idle"
      PROVE  DropInv'
  <2>1. op[g].pc \in Quiet
    BY <1>3 DEF RevokeNothing, CallsRevoke, Quiet
  <2>2. op'[g].pc \in Quiet /\ \A h \in Goroutine \ {g} : op'[h] = op[h]
    BY <1>1, <1>3, <2>1 DEF RevokeNothing, Quiet, Idle, Operation
  <2> QED BY <1>3, <2>2, QuietReal, SameFrame DEF RevokeNothing
<1>4. ASSUME NEW g \in Goroutine, ShutdownReturns(g)
      PROVE  DropInv'
  <2>1. op'[g].pc \in Quiet /\ \A h \in Goroutine \ {g} : op'[h] = op[h]
    BY <1>1, <1>4 DEF ShutdownReturns, Quiet, Idle
  <2> QED BY <1>4, <2>1, QuietReal, SameFrame DEF ShutdownReturns
<1>5. ASSUME NEW g \in Caller, Shutdown(g)
      PROVE  DropInv'
  <2> DEFINE o == Stop(op, UNION {Registered(l) : l \in Lease})
  <2>1. \A h \in Goroutine : o[h] = op[h] \/ o[h].pc = "stopped"
    BY <1>1 DEF Stop, Operation
  <2>2. o \in [Goroutine -> Operation]
    BY <1>1, StopSpec
  <2> HIDE DEF o
  <2>3. op' = [o EXCEPT ![g] = [Idle EXCEPT !.pc = "shutdown",
                                            !.todo = {l \in Lease : timers[l] # 0}]]
    BY <1>5 DEF Shutdown, o
  <2>4. op'[g].pc = "shutdown" /\ \A h \in Goroutine \ {g} : op'[h] = o[h]
    BY <1>1, <2>2, <2>3 DEF Idle
  <2>5. \A h \in Goroutine \ {g} : op'[h] = op[h] \/ op'[h].pc \in Quiet
    BY <2>1, <2>4 DEF Quiet
  <2>6. RealNext(op'[g])
    BY <2>4, QuietReal DEF Quiet
  <2> QED BY <1>1, <1>5, <2>5, <2>6, SameFrame DEF Shutdown
<1>6. ASSUME NEW t \in Timer, Fire(t)
      PROVE  DropInv'
  <2>1. op'[t].pc \in Quiet /\ \A h \in Goroutine \ {t} : op'[h] = op[h]
    BY <1>1, <1>6 DEF Fire, Quiet, Operation
  <2> QED BY <1>1, <1>6, <2>1, QuietReal, SameFrame DEF Fire
<1>7. ASSUME NEW t \in Target, NEW d \in Driver, RegisterDriver(t, d)
      PROVE  DropInv'
  <2>1. d = Resolve(t) /\ d # None
    BY <1>7, BrokerAssumption DEF RegisterDriver, StableNames
  <2>2. "generic_token" \in Target /\ drivers["generic_token"] # None
    BY BrokerAssumption DEF Driver, RevokeInv, WellFormed
  <2>3. drivers' = [drivers EXCEPT ![t] = d]
    BY <1>7 DEF RegisterDriver
  <2>4. drivers["generic_token"] = Resolve("generic_token")
    BY <1>1, <2>2 DEF DriverFor
  <2>5. drivers'["generic_token"] = drivers["generic_token"]
    BY <1>1, <2>1, <2>2, <2>3, <2>4
  <2>6. \A u \in Target : DriverFor(u)' = DriverFor(u)
    BY <1>1, <2>1, <2>3, <2>5 DEF DriverFor
  <2>7. UNCHANGED <<leases, object, credential, revokeFailed, op>>
    BY <1>7 DEF RegisterDriver
  <2>8. \A u \in Target : DriverFor(u)' = Resolve(u)
    BY <1>1, <2>6
  <2>9. RevokedMeansDropped'
    BY <2>7 DEF RevokeInv, DropInv, RevokedMeansDropped
  <2>10. MapReal(credential', leases', object')
    BY <2>7 DEF RevokeInv, DropInv
  <2>11. \A g \in Goroutine : RecordReal(op'[g], credential', revokeFailed', leases', object')
    BY <2>7 DEF RevokeInv, DropInv
  <2> QED BY <2>8, <2>9, <2>10, <2>11 DEF DropInv
<1>8. ASSUME UNCHANGED <<drivers, leases, object, credential, revokeFailed, op>>
      PROVE  DropInv'
  <2>1. \A u \in Target : DriverFor(u)' = Resolve(u)
    BY <1>1, <1>8 DEF DriverFor
  <2>2. RevokedMeansDropped'
    BY <1>8 DEF RevokeInv, DropInv, RevokedMeansDropped
  <2>3. MapReal(credential', leases', object')
    BY <1>8 DEF RevokeInv, DropInv
  <2>4. \A g \in Goroutine : RecordReal(op'[g], credential', revokeFailed', leases', object')
    BY <1>8 DEF RevokeInv, DropInv
  <2> QED BY <2>1, <2>2, <2>3, <2>4 DEF DropInv
<1>9. (Tick => DropInv') /\ (UNCHANGED vars => DropInv')
  BY <1>8 DEF Tick, vars
<1> QED BY <1>2, <1>3, <1>4, <1>5, <1>6, <1>7, <1>9

\* The driver mints the secret: its name leads back to it.
LEMMA GenerateReal ==
  ASSUME RevokeInv, StableNames, NEW g \in Goroutine, Generate(g)
  PROVE  DropInv'
<1>1. /\ op \in [Goroutine -> Operation] /\ op[g] \in Operation
      /\ credential \in [Lease -> Credential]
      /\ UNCHANGED <<drivers, leases, object, revokeFailed>>
  BY DEF RevokeInv, WellFormed, TypeOK, Generate
<1>2. /\ op[g].driver = Resolve(op[g].object.target) /\ ~op[g].object.revoked
      /\ op[g].object \in Object
  BY <1>1 DEF RevokeInv, DropInv, RecordReal, Generate, Operation
<1>3. CASE op' = [op EXCEPT ![g] = Idle] /\ UNCHANGED credential
  <2>1. op'[g].pc \in Quiet /\ \A h \in Goroutine \ {g} : op'[h] = op[h]
    BY <1>1, <1>3 DEF Quiet, Idle
  <2> QED BY <1>1, <1>3, <2>1, QuietReal, SameFrame
<1>4. ASSUME NEW l \in Lease, credential[l].state = "none",
             credential' = [credential EXCEPT ![l] = [driver |-> op[g].driver, state |-> "live"]],
             op' = [op EXCEPT ![g].pc = "record",
                              ![g].lease = l,
                              ![g].object.target = IF op[g].driver = "generic_token"
                                                   THEN @ ELSE op[g].driver,
                              ![g].object.expiresAt = now + op[g].object.ttl]
      PROVE  DropInv'
  <2> DEFINE n == IF op[g].driver = "generic_token" THEN op[g].object.target ELSE op[g].driver
             q == [op[g].object EXCEPT !.target = n, !.expiresAt = now + op[g].object.ttl]
             r == [op[g] EXCEPT !.pc = "record", !.lease = l, !.object = q]
  <2>1. op' = [op EXCEPT ![g] = r]
    BY <1>4, ZenonT(30)
  <2>2. Resolve(n) = op[g].driver
    BY <1>2 DEF StableNames, Object
  <2>3. q.target = n /\ q.revoked = op[g].object.revoked
    BY <1>2 DEF Object
  <2>4. r.pc = "record" /\ r.lease = l /\ r.object.target = n /\ ~r.object.revoked
    BY <1>1, <1>2, <2>3 DEF Operation
  <2>5. /\ credential'[l].driver = op[g].driver /\ credential'[l].state = "live"
        /\ \A k \in Lease \ {l} : credential'[k] = credential[k]
    BY <1>1, <1>4
  <2> HIDE DEF n, r
  <2>6. RealNext(r)
    BY <2>2, <2>4, <2>5 DEF RealNext, RecordReal, LeadsBack
  <2>7. op'[g] = r /\ \A h \in Goroutine \ {g} : op'[h] = op[h]
    BY <1>1, <2>1
  <2>8. Lasting
    <3> SUFFICES ASSUME NEW k \in Lease
                 PROVE  /\ credential[k].state # "none" =>
                              credential'[k].state # "none" /\ credential'[k].driver = credential[k].driver
                        /\ Answered(k, credential, revokeFailed) => Answered(k, credential', revokeFailed')
      BY <1>1 DEF Lasting, LeadsBack
    <3>1. CASE k = l
      BY <1>1, <1>4, <3>1 DEF Answered
    <3>2. CASE k # l
      BY <1>1, <2>5, <3>2 DEF Answered
    <3> QED BY <3>1, <3>2
  <2>9. MapReal(credential', leases', object') /\ RevokedMeansDropped'
    BY <1>1, <2>8, QuietFrame
  <2> QED BY <1>1, <2>6, <2>7, <2>8, <2>9, RevokeFrame
<1> QED BY <1>3, <1>4 DEF Generate

\* The lease that the driver returned enters the map.
LEMMA RecordLeaseReal ==
  ASSUME RevokeInv, NEW g \in Goroutine, RecordLease(g)
  PROVE  DropInv'
<1> DEFINE l == op[g].lease
<1>1. /\ op \in [Goroutine -> Operation] /\ op[g] \in Operation /\ l \in Lease /\ g \notin Timer
      /\ leases \in [Lease -> 0..MaxRenewals + 1] /\ object \in [Lease -> [Version -> Object]]
      /\ 1 \in Version
  <2>1. op \in [Goroutine -> Operation] /\ op[g] \in Operation /\ RecordOK(g, op[g])
    BY DEF RevokeInv, WellFormed, OperationsOK
  <2>2. l \in Lease /\ g \notin Timer
    BY <2>1 DEF RecordOK, RecordLease
  <2>3. leases \in [Lease -> 0..MaxRenewals + 1] /\ object \in [Lease -> [Version -> Object]]
    BY DEF RevokeInv, WellFormed, TypeOK
  <2>4. 1 \in Version
    BY BrokerAssumption DEF Version
  <2> QED BY <2>1, <2>2, <2>3, <2>4
<1>2. /\ credential[l].state # "none" /\ LeadsBack(op[g].object.target, l, credential)
      /\ ~op[g].object.revoked
  BY DEF RevokeInv, DropInv, RecordReal, RecordLease, Quiet
<1>3. /\ leases' = [leases EXCEPT ![l] = 1] /\ object' = [object EXCEPT ![l][1] = op[g].object]
      /\ UNCHANGED <<drivers, credential, revokeFailed>>
  BY DEF RecordLease
<1>4. /\ \A k \in Lease, v \in Version :
            object'[k][v] = IF k = l /\ v = 1 THEN op[g].object ELSE object[k][v]
      /\ \A k \in Lease : leases'[k] = IF k = l THEN 1 ELSE leases[k]
  BY <1>1, <1>3
<1>5. Lasting
  BY <1>2, <1>3, <1>4 DEF Lasting
<1>6. MapReal(credential', leases', object')
  <2>1. \A k \in Lease : leases[k] # 0 => leases[k] \in Version
    BY <1>1, BrokerAssumption DEF Version
  <2> QED BY <1>1, <1>2, <1>3, <1>4, <2>1 DEF RevokeInv, DropInv, MapReal
<1>7. RevokedMeansDropped'
  BY <1>2, <1>3, <1>4 DEF RevokeInv, DropInv, RevokedMeansDropped
<1>8. <<l, 1>> \in Goroutine /\ <<l, 1>> # g
  BY <1>1 DEF Goroutine, Timer
<1>9. /\ op'[g] = Idle
      /\ \A h \in Goroutine \ {g} : op'[h] = op[h] \/ op'[h].pc = "armed"
  <2>1. op' = [op EXCEPT ![<<l, 1>>].pc = "armed", ![g] = Idle]
    BY DEF RecordLease
  <2>2. op[<<l, 1>>] \in Operation
    BY <1>1, <1>8
  <2> QED BY <1>1, <1>8, <2>1, <2>2 DEF Operation
<1>10. RealNext(op'[g]) /\ \A h \in Goroutine \ {g} : op'[h] = op[h] \/ op'[h].pc \in Quiet
  BY <1>9, QuietReal DEF Idle, Quiet
<1> QED BY <1>3, <1>5, <1>6, <1>7, <1>10, RevokeFrame

\* RevokeLease finds the driver that minted the secret.
LEMMA RevokeLeaseReal ==
  ASSUME RevokeInv, NEW g \in Goroutine, NEW l \in Lease, RevokeLease(g, l)
  PROVE  DropInv'
<1> DEFINE o == Stop(op, Registered(l))
           r == [op[g] EXCEPT !.pc = "drop", !.lease = l, !.version = leases[l],
                              !.driver = DriverFor(Current(l).target)]
<1>1. op \in [Goroutine -> Operation] /\ op[g] \in Operation
  BY DEF RevokeInv, WellFormed, TypeOK
<1>2. o \in [Goroutine -> Operation] /\ \A h \in Goroutine : o[h] = op[h] \/ o[h].pc = "stopped"
  BY <1>1 DEF Stop, Operation, Point
<1>3. op' = [o EXCEPT ![g] = r]
  BY DEF RevokeLease
<1>4. /\ leases[l] # 0 /\ Current(l).target \in Target
      /\ UNCHANGED <<drivers, leases, object, credential, revokeFailed>>
  BY CurrentType DEF RevokeLease, Unrevoked, Recorded, RevokeInv, WellFormed, Object
<1>5. credential[l].state # "none" /\ DriverFor(Current(l).target) = credential[l].driver
  BY <1>4 DEF RevokeInv, DropInv, MapReal, LeadsBack, Current
<1>6. r.pc = "drop" /\ r.lease = l /\ r.driver = credential[l].driver
  BY <1>1, <1>5 DEF Operation
<1> HIDE DEF o, r
<1>7. RealNext(r)
  BY <1>4, <1>5, <1>6 DEF RealNext, RecordReal, Quiet
<1>8. op'[g] = r /\ \A h \in Goroutine \ {g} : op'[h] = op[h] \/ op'[h].pc \in Quiet
  BY <1>2, <1>3 DEF Quiet
<1> QED BY <1>4, <1>7, <1>8, SameFrame

\* The driver destroys its own secret, or refuses to.
LEMMA DropCredentialReal ==
  ASSUME RevokeInv, NEW g \in Goroutine, DropCredential(g)
  PROVE  DropInv'
<1> DEFINE l == op[g].lease
           r == [op[g] EXCEPT !.pc = "mark"]
<1>1. /\ op \in [Goroutine -> Operation] /\ op[g] \in Operation /\ RecordOK(g, op[g])
      /\ credential \in [Lease -> Credential]
      /\ RecordReal(op[g], credential, revokeFailed, leases, object)
  BY DEF RevokeInv, WellFormed, TypeOK, OperationsOK, DropInv
<1>2. /\ l \in Lease /\ leases[l] # 0 /\ credential[l].state # "none"
      /\ op[g].driver = credential[l].driver
  BY <1>1 DEF DropCredential, RecordOK, RecordReal, Quiet
<1>3. /\ UNCHANGED <<drivers, leases, object>> /\ op' = [op EXCEPT ![g] = r]
      /\ \/ credential' = [credential EXCEPT ![l].state = "dropped"] /\ revokeFailed' = revokeFailed
         \/ credential' = credential /\ revokeFailed' = revokeFailed \cup {l}
  BY <1>2 DEF DropCredential
<1>4. /\ credential'[l].state # "none" /\ Answered(l, credential', revokeFailed')
      /\ credential'[l].driver = credential[l].driver
  BY <1>1, <1>2, <1>3 DEF Answered, Credential
<1>5. \A k \in Lease \ {l} :
          credential'[k] = credential[k] /\ (k \in revokeFailed => k \in revokeFailed')
  BY <1>1, <1>3
<1>6. Lasting
  BY <1>3, <1>4, <1>5 DEF Lasting, Answered, LeadsBack
<1>7. r.pc = "mark" /\ r.lease = l
  BY <1>1 DEF Operation
<1>8. op'[g] = r /\ \A h \in Goroutine \ {g} : op'[h] = op[h]
  BY <1>1, <1>3
<1>9. leases'[l] # 0
  BY <1>2, <1>3
<1> HIDE DEF r
<1>10. RealNext(r)
  BY <1>4, <1>7, <1>9 DEF RealNext, RecordReal, Quiet
<1>11. MapReal(credential', leases', object') /\ RevokedMeansDropped'
  BY <1>3, <1>6, QuietFrame
<1> QED BY <1>3, <1>6, <1>8, <1>10, <1>11, RevokeFrame

\* The object that RevokeLease read is marked: its backend has answered.
LEMMA MarkRevokedReal ==
  ASSUME RevokeInv, NEW g \in Goroutine, MarkRevoked(g)
  PROVE  DropInv'
<1> DEFINE l == op[g].lease
           w == op[g].version
<1>1. /\ op \in [Goroutine -> Operation] /\ op[g] \in Operation /\ RecordOK(g, op[g])
      /\ object \in [Lease -> [Version -> Object]] /\ leases \in [Lease -> 0..MaxRenewals + 1]
      /\ RecordReal(op[g], credential, revokeFailed, leases, object)
  BY DEF RevokeInv, WellFormed, TypeOK, OperationsOK, DropInv
<1>2. l \in Lease /\ w \in Version /\ Answered(l, credential, revokeFailed)
  BY <1>1 DEF MarkRevoked, RecordOK, RecordReal
<1>3. /\ UNCHANGED <<drivers, leases, credential, revokeFailed>>
      /\ object' = [object EXCEPT ![l][w].revoked = TRUE]
      /\ op' = [op EXCEPT ![g] = Return(g)]
  BY DEF MarkRevoked
<1>4. \A k \in Lease, v \in Version :
          /\ object'[k][v].target = object[k][v].target
          /\ k # l => object'[k][v] = object[k][v]
  BY <1>1, <1>2, <1>3 DEF Object
<1>5. \A k \in Lease : leases[k] # 0 => leases[k] \in Version
  BY <1>1, BrokerAssumption DEF Version
<1>6. Lasting
  BY <1>3, <1>4 DEF Lasting
<1>7. MapReal(credential', leases', object')
  BY <1>3, <1>4, <1>5, SMTT(20) DEF RevokeInv, DropInv, MapReal
<1>8. RevokedMeansDropped'
  BY <1>2, <1>3, <1>4 DEF RevokeInv, DropInv, RevokedMeansDropped, Answered
<1>9. Return(g).pc \in Quiet
  BY DEF Return, Idle, Quiet
<1>10. op'[g].pc \in Quiet /\ \A h \in Goroutine \ {g} : op'[h] = op[h]
  BY <1>1, <1>3, <1>9
<1> QED BY <1>3, <1>6, <1>7, <1>8, <1>10, QuietReal, RevokeFrame

\* RenewLease finds the driver that minted the secret.
LEMMA RenewLeaseReal ==
  ASSUME RevokeInv, NEW g \in Caller, NEW l \in Lease, NEW ttl \in RequestTTL,
         RenewLease(g, l, ttl)
  PROVE  DropInv'
<1> DEFINE r == [Idle EXCEPT
                 !.pc = "extend", !.lease = l, !.version = leases[l],
                 !.fresh = renewals[l] + 2, !.driver = DriverFor(Current(l).target),
                 !.object.ttl = Granted(ttl)]
<1>1. op \in [Goroutine -> Operation] /\ g \in Goroutine
  BY CallersAreNotTimers DEF RevokeInv, WellFormed, TypeOK
<1>2. leases[l] # 0 /\ UNCHANGED <<drivers, leases, object, credential, revokeFailed>>
  BY DEF RenewLease, Unrevoked, Recorded
<1>3. credential[l].state # "none" /\ LeadsBack(object[l][leases[l]].target, l, credential)
  BY <1>2 DEF RevokeInv, DropInv, MapReal
<1>4. r.pc = "extend" /\ r.lease = l /\ r.version = leases[l]
  BY DEF Idle
<1>5. op' = [op EXCEPT ![g] = r]
  BY DEF RenewLease
<1> HIDE DEF r
<1>6. RealNext(r)
  BY <1>2, <1>3, <1>4 DEF RealNext, RecordReal, Quiet
<1>7. op'[g] = r /\ \A h \in Goroutine \ {g} : op'[h] = op[h]
  BY <1>1, <1>5
<1> QED BY <1>1, <1>2, <1>6, <1>7, SameFrame

\* What a renewal has read: the target and, once revoked, the answer.
LEMMA RenewedObjectReal ==
  ASSUME RevokeInv, NEW g \in Goroutine, op[g].pc \in {"extend", "clone"}
  PROVE  /\ op \in [Goroutine -> Operation] /\ op[g] \in Operation
         /\ object \in [Lease -> [Version -> Object]] /\ leases \in [Lease -> 0..MaxRenewals + 1]
         /\ op[g].lease \in Lease /\ op[g].version \in Version
         /\ credential[op[g].lease].state # "none" /\ leases[op[g].lease] # 0
         /\ LeadsBack(object[op[g].lease][op[g].version].target, op[g].lease, credential)
         /\ object[op[g].lease][op[g].version].revoked =>
               Answered(op[g].lease, credential, revokeFailed)
<1>1. /\ op \in [Goroutine -> Operation] /\ op[g] \in Operation /\ RecordOK(g, op[g])
      /\ object \in [Lease -> [Version -> Object]] /\ leases \in [Lease -> 0..MaxRenewals + 1]
      /\ RecordReal(op[g], credential, revokeFailed, leases, object) /\ RevokedMeansDropped
  BY DEF RevokeInv, WellFormed, TypeOK, OperationsOK, DropInv
<1>2. op[g].lease \in Lease /\ op[g].version \in Version
  BY <1>1 DEF RecordOK
<1>3. /\ credential[op[g].lease].state # "none" /\ leases[op[g].lease] # 0
      /\ LeadsBack(object[op[g].lease][op[g].version].target, op[g].lease, credential)
  BY <1>1 DEF RecordReal, Quiet
<1> QED BY <1>1, <1>2, <1>3 DEF RevokedMeansDropped, Answered

\* The goroutine g takes a clone of the object it read on to the map.
LEMMA CloneReal ==
  ASSUME RevokeInv, NEW g \in Goroutine, op[g].pc \in {"extend", "clone"},
         NEW q, q.target = object[op[g].lease][op[g].version].target,
         q.revoked = object[op[g].lease][op[g].version].revoked,
         UNCHANGED <<drivers, leases, object, credential, revokeFailed>>,
         op' = [op EXCEPT ![g].pc = "rearm", ![g].object = q]
  PROVE  DropInv'
<1> DEFINE l == op[g].lease
           r == [op[g] EXCEPT !.pc = "rearm", !.object = q]
<1>1. /\ op \in [Goroutine -> Operation] /\ op[g] \in Operation
      /\ credential[l].state # "none" /\ leases[l] # 0
      /\ LeadsBack(object[l][op[g].version].target, l, credential)
      /\ LeadsBack(q.target, l, credential)
      /\ q.revoked => Answered(l, credential, revokeFailed)
  BY RenewedObjectReal
<1>2. /\ r.pc = "rearm" /\ r.object = q /\ r.lease = l /\ r.version = op[g].version
  BY <1>1 DEF Operation
<1>3. op'[g] = r /\ \A h \in Goroutine \ {g} : op'[h] = op[h]
  BY <1>1
<1> HIDE DEF r
<1>4. RealNext(r)
  BY <1>1, <1>2 DEF RealNext, RecordReal, Quiet
<1> QED BY <1>3, <1>4, SameFrame

LEMMA CloneLeaseReal ==
  ASSUME RevokeInv, NEW g \in Goroutine, CloneLease(g)
  PROVE  DropInv'
<1> DEFINE q == [object[op[g].lease][op[g].version] EXCEPT
                    !.ttl = op[g].object.ttl, !.expiresAt = op[g].object.expiresAt]
<1>1. op[g].pc = "clone" /\ UNCHANGED <<drivers, leases, object, credential, revokeFailed>>
      /\ op' = [op EXCEPT ![g].pc = "rearm", ![g].object = q]
  BY DEF CloneLease
<1>2. object[op[g].lease][op[g].version] \in Object
  BY <1>1, RenewedObjectReal
<1>3. /\ q.target = object[op[g].lease][op[g].version].target
      /\ q.revoked = object[op[g].lease][op[g].version].revoked
  BY <1>2 DEF Object
<1> HIDE DEF q
<1> QED BY <1>1, <1>3, CloneReal

\* The drivers extend a lease without touching its target or its mark.
LEMMA ExtendCredentialReal ==
  ASSUME RevokeInv, NEW g \in Goroutine, ExtendCredential(g)
  PROVE  DropInv'
<1> DEFINE l == op[g].lease
           w == op[g].version
<1>1. op[g].pc = "extend" /\ UNCHANGED <<drivers, leases, credential, revokeFailed>>
  BY DEF ExtendCredential
<1>2. /\ op \in [Goroutine -> Operation] /\ op[g] \in Operation
      /\ object \in [Lease -> [Version -> Object]] /\ leases \in [Lease -> 0..MaxRenewals + 1]
      /\ l \in Lease /\ w \in Version /\ credential[l].state # "none" /\ leases[l] # 0
      /\ LeadsBack(object[l][w].target, l, credential)
  BY <1>1, RenewedObjectReal
<1>3. CASE ExtendInPlace(g)
  <2> DEFINE r == [op[g] EXCEPT !.pc = "rearm"]
  <2>1. /\ op[g].driver = "generic_token" /\ op' = [op EXCEPT ![g] = r]
        /\ object' = [object EXCEPT ![l][w].expiresAt = now + op[g].object.ttl,
                                    ![l][w].ttl = op[g].object.ttl]
    BY <1>3 DEF ExtendInPlace
  <2>2. \A k \in Lease, v \in Version :
            object'[k][v].target = object[k][v].target /\ object'[k][v].revoked = object[k][v].revoked
    <3> DEFINE q == [object[l][w] EXCEPT !.expiresAt = now + op[g].object.ttl,
                                         !.ttl = op[g].object.ttl]
    <3>1. q.target = object[l][w].target /\ q.revoked = object[l][w].revoked
      BY <1>2 DEF Object
    <3>2. \A k \in Lease, v \in Version :
              object'[k][v] = IF k = l /\ v = w THEN q ELSE object[k][v]
      BY <1>2, <2>1
    <3> HIDE DEF q
    <3> QED BY <3>1, <3>2
  <2>3. \A k \in Lease : leases[k] # 0 => leases[k] \in Version
    BY <1>2, BrokerAssumption DEF Version
  <2>4. Lasting
    BY <1>1, <2>2 DEF Lasting
  <2>5. MapReal(credential', leases', object') /\ RevokedMeansDropped'
    BY <1>1, <2>2, <2>3 DEF RevokeInv, DropInv, MapReal, RevokedMeansDropped
  <2>6. r.pc = "rearm" /\ r.driver = "generic_token" /\ r.lease = l /\ r.version = w
    BY <1>2, <2>1 DEF Operation
  <2>7. op'[g] = r /\ \A h \in Goroutine \ {g} : op'[h] = op[h]
    BY <1>2, <2>1
  <2>8. LeadsBack(object'[l][w].target, l, credential')
    BY <1>1, <1>2, <2>2
  <2> HIDE DEF r
  <2>9. RealNext(r)
    BY <1>1, <1>2, <2>6, <2>8 DEF RealNext, RecordReal, Quiet
  <2> QED BY <1>1, <2>4, <2>5, <2>7, <2>9, RevokeFrame
<1>4. CASE ExtendRole(g)
  <2> DEFINE q == [op[g].object EXCEPT !.expiresAt = now + op[g].object.ttl]
             r == [op[g] EXCEPT !.pc = "clone", !.object = q]
  <2>1. UNCHANGED object /\ op' = [op EXCEPT ![g] = r]
    BY <1>4 DEF ExtendRole
  <2>2. r.pc = "clone" /\ r.lease = l /\ r.version = w
    BY <1>2 DEF Operation
  <2>3. op'[g] = r /\ \A h \in Goroutine \ {g} : op'[h] = op[h]
    BY <1>2, <2>1
  <2> HIDE DEF q, r
  <2>4. RealNext(r)
    BY <1>1, <1>2, <2>1, <2>2 DEF RealNext, RecordReal, Quiet
  <2> QED BY <1>1, <2>1, <2>3, <2>4, SameFrame
<1>5. CASE ExtendUser(g)
  <2> DEFINE q == [object[l][w] EXCEPT !.ttl = op[g].object.ttl, !.expiresAt = now + op[g].object.ttl]
  <2>1. UNCHANGED object /\ op' = [op EXCEPT ![g].pc = "rearm", ![g].object = q]
    BY <1>5 DEF ExtendUser
  <2>2. q.target = object[l][w].target /\ q.revoked = object[l][w].revoked
    BY <1>2 DEF Object
  <2> HIDE DEF q
  <2> QED BY <1>1, <2>1, <2>2, CloneReal
<1>6. CASE RefuseRenewal(g)
  <2>1. op'[g].pc \in Quiet /\ (\A h \in Goroutine \ {g} : op'[h] = op[h]) /\ UNCHANGED object
    BY <1>2, <1>6 DEF RefuseRenewal, Quiet, Idle
  <2> QED BY <1>1, <2>1, QuietReal, SameFrame
<1> QED BY <1>3, <1>4, <1>5, <1>6 DEF ExtendCredential

\* What a renewal puts into the map leads back to the same driver, and is
\* marked only when the backend has answered.
LEMMA RearmReal ==
  ASSUME RevokeInv, NEW g \in Goroutine, Rearm(g)
  PROVE  DropInv'
<1> DEFINE l == op[g].lease
           v == IF op[g].driver = "generic_token" THEN op[g].version ELSE op[g].fresh
           t == <<l, op[g].fresh>>
           o == Stop(op, Registered(l))
<1>1. /\ op \in [Goroutine -> Operation] /\ op[g] \in Operation /\ RecordOK(g, op[g])
      /\ object \in [Lease -> [Version -> Object]] /\ leases \in [Lease -> 0..MaxRenewals + 1]
      /\ RecordReal(op[g], credential, revokeFailed, leases, object) /\ op[g].pc = "rearm"
  BY DEF RevokeInv, WellFormed, TypeOK, OperationsOK, DropInv, Rearm
<1>2. l \in Lease /\ op[g].version \in Version /\ op[g].fresh \in Version /\ v \in Version
  BY <1>1 DEF RecordOK, Operation
<1>3. v # 0
  BY <1>2, BrokerAssumption DEF Version
<1>4. credential[l].state # "none"
  BY <1>1 DEF RecordReal, Quiet
<1>5. /\ UNCHANGED <<drivers, credential, revokeFailed>>
      /\ leases' = [leases EXCEPT ![l] = v]
      /\ object' = IF op[g].driver = "generic_token" THEN object
                   ELSE [object EXCEPT ![l][v] = op[g].object]
      /\ op' = [o EXCEPT ![t].pc = "armed", ![g] = Idle]
  BY DEF Rearm
<1>6. \A k \in Lease : leases'[k] = IF k = l THEN v ELSE leases[k]
  BY <1>1, <1>5
<1> HIDE DEF v
<1>7. \A k \in Lease, w \in Version :
          object'[k][w] = object[k][w] \/ (k = l /\ w = v /\ object'[l][v] = op[g].object)
  BY <1>1, <1>2, <1>5
<1>8. /\ LeadsBack(object'[l][v].target, l, credential)
      /\ object'[l][v].revoked => Answered(l, credential, revokeFailed)
  <2>1. CASE op[g].driver = "generic_token"
    <3>1. object' = object /\ v = op[g].version
      BY <1>5, <2>1 DEF v
    <3>2. LeadsBack(object[l][op[g].version].target, l, credential)
      BY <1>1 DEF RecordReal
    <3>3. object[l][v].revoked => Answered(l, credential, revokeFailed)
      BY <1>2 DEF RevokeInv, DropInv, RevokedMeansDropped, Answered
    <3> QED BY <3>1, <3>2, <3>3
  <2>2. CASE op[g].driver # "generic_token"
    <3>1. object'[l][v] = op[g].object
      BY <1>1, <1>2, <1>5, <2>2
    <3> QED BY <1>1, <2>2, <3>1 DEF RecordReal
  <2> QED BY <2>1, <2>2
<1>9. \A k \in Lease : leases[k] # 0 => leases[k] \in Version
  BY <1>1, BrokerAssumption DEF Version
<1>10. Lasting
  BY <1>3, <1>5, <1>6, <1>7, <1>8 DEF Lasting
<1>11. MapReal(credential', leases', object')
  <2> SUFFICES ASSUME NEW k \in Lease, leases'[k] # 0
               PROVE  /\ credential'[k].state # "none"
                      /\ LeadsBack(object'[k][leases'[k]].target, k, credential')
    BY DEF MapReal
  <2>1. CASE k = l
    BY <1>4, <1>5, <1>6, <1>8, <2>1
  <2>2. CASE k # l
    <3>1. leases'[k] = leases[k] /\ leases[k] # 0 /\ leases[k] \in Version
      BY <1>6, <1>9, <2>2
    <3>2. object'[k][leases[k]] = object[k][leases[k]]
      BY ONLY <1>7, <2>2, <3>1, k \in Lease
    <3>3. credential[k].state # "none" /\ LeadsBack(object[k][leases[k]].target, k, credential)
      BY <3>1 DEF RevokeInv, DropInv, MapReal
    <3> QED
      BY <1>5, <3>1, <3>2, <3>3
  <2> QED
    BY <2>1, <2>2
<1>12. RevokedMeansDropped'
  BY <1>5, <1>7, <1>8 DEF RevokeInv, DropInv, RevokedMeansDropped, Answered
<1>13. o \in [Goroutine -> Operation] /\ \A h \in Goroutine : o[h] = op[h] \/ o[h].pc = "stopped"
  BY <1>1 DEF Stop, Operation, Point
<1>14. t \in Goroutine /\ t # g
  BY <1>1, <1>2 DEF Goroutine, Timer, RecordOK
<1> HIDE DEF o, t
<1>15. /\ op'[g] = Idle
       /\ \A h \in Goroutine \ {g} : op'[h] = op[h] \/ op'[h].pc \in {"armed", "stopped"}
  <2>1. o[t] \in Operation
    BY <1>13, <1>14
  <2>2. op'[g] = Idle /\ op'[t].pc = "armed" /\ \A h \in Goroutine \ {g, t} : op'[h] = o[h]
    BY <1>5, <1>13, <1>14, <2>1 DEF Operation
  <2> QED BY <1>13, <2>2
<1>16. RealNext(op'[g]) /\ \A h \in Goroutine \ {g} : op'[h] = op[h] \/ op'[h].pc \in Quiet
  BY <1>15, QuietReal DEF Idle, Quiet
<1> QED BY <1>5, <1>10, <1>11, <1>12, <1>16, RevokeFrame

LEMMA InitReal == Init => DropInv
<1> SUFFICES ASSUME Init PROVE DropInv
  OBVIOUS
<1>1. \A t \in Target : DriverFor(t) = Resolve(t)
  BY DEF Init, DriverFor, Resolve
<1>2. \A g \in Goroutine : op[g].pc = "idle"
  BY DEF Init, Idle
<1>3. MapReal(credential, leases, object)
  BY DEF Init, MapReal
<1>4. RevokedMeansDropped
  BY DEF Init, RevokedMeansDropped, NoObject
<1> QED BY <1>1, <1>2, <1>3, <1>4 DEF DropInv, RecordReal, Quiet

LEMMA StepsReal ==
  ASSUME StableNames, RevokeInv, [Next]_vars
  PROVE  DropInv'
<1>1. ASSUME NEW g \in Caller, Call(g) PROVE DropInv'
  BY <1>1, SmallStepsReal, RevokeLeaseReal, RenewLeaseReal, CallersAreNotTimers DEF Call
<1>2. ASSUME NEW g \in Goroutine, Step(g) PROVE DropInv'
  BY <1>2, SmallStepsReal, GenerateReal, RecordLeaseReal, RevokeLeaseReal, DropCredentialReal,
     MarkRevokedReal, ExtendCredentialReal, CloneLeaseReal, RearmReal DEF Step
<1> QED BY <1>1, <1>2, SmallStepsReal DEF Next

LEMMA RevokeInvariant == StableNames => (Spec => []RevokeInv)
<1> SUFFICES ASSUME StableNames PROVE Spec => []RevokeInv
  OBVIOUS
<1>1. Init => RevokeInv
  BY InitWellFormed, InitReal DEF RevokeInv
<1>2. RevokeInv /\ [Next]_vars /\ WellFormed' => RevokeInv'
  BY StepsReal DEF RevokeInv
<1> QED BY <1>1, <1>2, TypeCorrect, PTL DEF Spec

\* Revoked is what it says: as long as RegisterDriver changes the meaning of no
\* name, a lease (or a clone of it that RenewLease made) is marked only when
\* its own driver has destroyed the secret or has refused to (RevokeLease).
THEOREM RevocationIsReal == StableNames => (Spec => []RevokedMeansDropped)
<1>1. RevokeInv => RevokedMeansDropped
  BY DEF RevokeInv, DropInv
<1> QED BY <1>1, RevokeInvariant, PTL

-------------------------------------------------------------------------------
\* The broker implements a lease service.

SameSecret(l) == credential'[l].state = credential[l].state
SameListed(l) == Listed(l)' = Listed(l)

\* Nobody who holds a lease notices the step.
LEMMA ServiceStutters ==
  ASSUME \A l \in Lease : SameSecret(l) /\ SameListed(l), UNCHANGED revokeFailed
  PROVE  [Service!Next]_(Service!vars)
BY DEF SameSecret, SameListed, Service!vars

\* The mark or the map entry of one lease changes.
LEMMA ListedChanges ==
  ASSUME NEW l \in Lease, \A k \in Lease : SameSecret(k), UNCHANGED revokeFailed,
         \A k \in Lease \ {l} : SameListed(k),
         \/ Listed(l)' = "listed" /\ credential[l].state # "none"
         \/ /\ Listed(l)' = "revoked" /\ Listed(l) # "none"
            /\ Answered(l, credential, revokeFailed)
  PROVE  [Service!Next]_(Service!vars)
<1> DEFINE secret == [k \in Lease |-> credential[k].state]
           listed == [k \in Lease |-> Listed(k)]
<1>1. secret' = secret
  BY DEF SameSecret
<1>2. ASSUME NEW x, Listed(l)' = x PROVE listed' = [listed EXCEPT ![l] = x]
  BY <1>2 DEF SameListed
<1>3. CASE Listed(l)' = "listed" /\ credential[l].state # "none"
  <2>1. Service!List(l)
    BY <1>1, <1>2, <1>3 DEF Service!List
  <2> QED BY <2>1 DEF Service!Next
<1>4. CASE Listed(l)' = "revoked" /\ Listed(l) = "listed" /\ Answered(l, credential, revokeFailed)
  <2>1. Service!Revoke(l)
    BY <1>1, <1>2, <1>4 DEF Service!Revoke, Service!Settled, Answered
  <2> QED BY <2>1 DEF Service!Next
<1>5. CASE Listed(l)' = "revoked" /\ Listed(l) = "revoked"
  <2>1. \A k \in Lease : SameListed(k)
    BY <1>5 DEF SameListed
  <2> QED BY <2>1, ServiceStutters
<1> QED BY <1>3, <1>4, <1>5 DEF Listed

LEMMA GenerateServes ==
  ASSUME RevokeInv, NEW g \in Goroutine, Generate(g)
  PROVE  [Service!Next]_(Service!vars)
<1>1. credential \in [Lease -> Credential] /\ UNCHANGED <<leases, object, revokeFailed>>
  BY DEF RevokeInv, WellFormed, TypeOK, Generate
<1>2. \A k \in Lease : SameListed(k)
  BY <1>1 DEF SameListed, Listed, Recorded, Current
<1>3. CASE UNCHANGED credential
  BY <1>1, <1>2, <1>3, ServiceStutters DEF SameSecret
<1>4. ASSUME NEW l \in Lease, credential[l].state = "none",
             credential' = [credential EXCEPT ![l] = [driver |-> op[g].driver, state |-> "live"]]
      PROVE  [Service!Next]_(Service!vars)
  <2> DEFINE secret == [k \in Lease |-> credential[k].state]
             listed == [k \in Lease |-> Listed(k)]
  <2>1. listed' = listed
    BY <1>2 DEF SameListed
  <2>2. secret' = [secret EXCEPT ![l] = "live"]
    BY <1>1, <1>4
  <2>3. Service!Mint(l)
    BY <1>1, <1>4, <2>1, <2>2 DEF Service!Mint
  <2> QED BY <2>3 DEF Service!Next
<1> QED BY <1>3, <1>4 DEF Generate

LEMMA RecordLeaseServes ==
  ASSUME RevokeInv, NEW g \in Goroutine, RecordLease(g)
  PROVE  [Service!Next]_(Service!vars)
<1>1. /\ op[g] \in Operation /\ RecordOK(g, op[g])
      /\ leases \in [Lease -> 0..MaxRenewals + 1] /\ object \in [Lease -> [Version -> Object]]
      /\ RecordReal(op[g], credential, revokeFailed, leases, object)
  BY DEF RevokeInv, WellFormed, TypeOK, OperationsOK, DropInv
<1>2. PICK l \in Lease : l = op[g].lease
  BY <1>1 DEF RecordLease, RecordOK
<1>3. /\ credential[l].state # "none" /\ ~op[g].object.revoked /\ 1 \in Version
  BY <1>1, <1>2, BrokerAssumption DEF RecordLease, RecordReal, Quiet, Version
<1>4. /\ leases' = [leases EXCEPT ![l] = 1] /\ object' = [object EXCEPT ![l][1] = op[g].object]
      /\ UNCHANGED <<credential, revokeFailed>>
  BY <1>2 DEF RecordLease
<1>5. /\ \A k \in Lease \ {l} : leases'[k] = leases[k] /\ object'[k] = object[k]
      /\ leases'[l] = 1 /\ object'[l][1] = op[g].object
  BY <1>1, <1>3, <1>4
<1>6. Listed(l)' = "listed" /\ \A k \in Lease \ {l} : SameListed(k)
  BY <1>3, <1>5 DEF SameListed, Listed, Recorded, Current
<1>7. \A k \in Lease : SameSecret(k)
  BY <1>4 DEF SameSecret
<1> QED BY <1>3, <1>4, <1>6, <1>7, ListedChanges

LEMMA DropCredentialServes ==
  ASSUME RevokeInv, NEW g \in Goroutine, DropCredential(g)
  PROVE  [Service!Next]_(Service!vars)
<1> DEFINE secret == [k \in Lease |-> credential[k].state]
           listed == [k \in Lease |-> Listed(k)]
<1>1. /\ RecordOK(g, op[g]) /\ credential \in [Lease -> Credential]
      /\ RecordReal(op[g], credential, revokeFailed, leases, object)
  BY DEF RevokeInv, WellFormed, TypeOK, OperationsOK, DropInv
<1>2. PICK l \in Lease :
          /\ l = op[g].lease /\ leases[l] # 0 /\ credential[l].state \in {"live", "dropped"}
          /\ op[g].driver = credential[l].driver /\ UNCHANGED <<leases, object>>
  BY <1>1 DEF DropCredential, RecordOK, RecordReal, Quiet, Credential
<1>3. listed' = listed /\ (\A k \in Lease : SameListed(k)) /\ listed[l] # "none"
  BY <1>2 DEF SameListed, Listed, Recorded, Current
<1>4. CASE UNCHANGED revokeFailed /\ credential' = [credential EXCEPT ![l].state = "dropped"]
  <2>1. CASE credential[l].state = "dropped"
    <3>1. \A k \in Lease : SameSecret(k)
      BY <1>1, <1>2, <1>4, <2>1 DEF SameSecret, Credential
    <3> QED BY <1>3, <1>4, <3>1, ServiceStutters
  <2>2. CASE credential[l].state = "live"
    <3>1. secret' = [secret EXCEPT ![l] = "dropped"]
      BY <1>1, <1>2, <1>4 DEF Credential
    <3>2. Service!Destroy(l)
      BY <1>2, <1>3, <1>4, <2>2, <3>1 DEF Service!Destroy
    <3> QED BY <3>2 DEF Service!Next
  <2> QED BY <1>2, <2>1, <2>2
<1>5. CASE revokeFailed' = revokeFailed \cup {l} /\ UNCHANGED credential
  <2>1. Service!Refuse(l)
    BY <1>2, <1>3, <1>5 DEF Service!Refuse
  <2> QED BY <2>1 DEF Service!Next
<1> QED BY <1>2, <1>4, <1>5 DEF DropCredential

LEMMA MarkRevokedServes ==
  ASSUME RevokeInv, NEW g \in Goroutine, MarkRevoked(g)
  PROVE  [Service!Next]_(Service!vars)
<1>1. /\ RecordOK(g, op[g]) /\ object \in [Lease -> [Version -> Object]]
      /\ leases \in [Lease -> 0..MaxRenewals + 1]
      /\ RecordReal(op[g], credential, revokeFailed, leases, object)
  BY DEF RevokeInv, WellFormed, TypeOK, OperationsOK, DropInv
<1>2. PICK l \in Lease, w \in Version :
          /\ l = op[g].lease /\ w = op[g].version
          /\ leases[l] # 0 /\ Answered(l, credential, revokeFailed)
  BY <1>1 DEF MarkRevoked, RecordOK, RecordReal
<1>3. /\ UNCHANGED <<leases, credential, revokeFailed>>
      /\ object' = [object EXCEPT ![l][w].revoked = TRUE]
  BY <1>2 DEF MarkRevoked
<1>4. leases[l] \in Version
  BY <1>1, <1>2, BrokerAssumption DEF Version
<1>5. /\ \A k \in Lease \ {l} : object'[k] = object[k]
      /\ object'[l][w].revoked = TRUE
      /\ \A v \in Version \ {w} : object'[l][v] = object[l][v]
  BY <1>1, <1>2, <1>3, SMTT(20) DEF Object
<1>6. (\A k \in Lease \ {l} : SameListed(k)) /\ \A k \in Lease : SameSecret(k)
  BY <1>3, <1>5 DEF SameListed, SameSecret, Listed, Recorded, Current
<1>7. CASE leases[l] = w
  <2>1. Listed(l)' = "revoked" /\ Listed(l) # "none"
    BY <1>2, <1>3, <1>5, <1>7 DEF Listed, Recorded, Current
  <2> QED BY <1>2, <1>3, <1>6, <2>1, ListedChanges
<1>8. CASE leases[l] # w
  <2>1. SameListed(l)
    BY <1>2, <1>3, <1>4, <1>5, <1>8, SMTT(20) DEF SameListed, Listed, Recorded, Current
  <2> QED BY <1>3, <1>6, <2>1, ServiceStutters
<1> QED BY <1>7, <1>8

\* The drivers extend the object without marking it or taking its mark away.
LEMMA ExtendCredentialServes ==
  ASSUME RevokeInv, NEW g \in Goroutine, ExtendCredential(g)
  PROVE  [Service!Next]_(Service!vars)
<1>1. op[g].pc = "extend" /\ UNCHANGED <<leases, credential, revokeFailed>>
  BY DEF ExtendCredential
<1>2. /\ object \in [Lease -> [Version -> Object]] /\ leases \in [Lease -> 0..MaxRenewals + 1]
      /\ op[g].lease \in Lease /\ op[g].version \in Version
  BY <1>1, RenewedObjectReal
<1>3. \A k \in Lease : leases[k] # 0 => leases[k] \in Version
  BY <1>2, BrokerAssumption DEF Version
<1>4. \A k \in Lease, v \in Version : object'[k][v].revoked = object[k][v].revoked
  <2>1. CASE UNCHANGED object
    BY <2>1
  <2>2. CASE ExtendInPlace(g)
    <3>1. PICK l \in Lease, w \in Version : l = op[g].lease /\ w = op[g].version
      BY <1>2
    <3> DEFINE q == [object[l][w] EXCEPT !.expiresAt = now + op[g].object.ttl,
                                         !.ttl = op[g].object.ttl]
    <3>2. q.revoked = object[l][w].revoked
      BY <1>2 DEF Object
    <3>3. object' = [object EXCEPT ![l][w] = q]
      BY <2>2, <3>1 DEF ExtendInPlace
    <3>4. \A k \in Lease, v \in Version :
              object'[k][v] = IF k = l /\ v = w THEN q ELSE object[k][v]
      BY <1>2, <3>3
    <3> HIDE DEF q
    <3> QED BY <3>2, <3>4
  <2> QED BY <2>1, <2>2 DEF ExtendCredential, ExtendRole, ExtendUser, RefuseRenewal
<1>5. \A k \in Lease : SameListed(k) /\ SameSecret(k)
  BY <1>1, <1>3, <1>4 DEF SameListed, SameSecret, Listed, Recorded, Current
<1> QED BY <1>1, <1>5, ServiceStutters

\* The renewed object enters the map: the lease is listed, or shown as revoked
\* because the object that was cloned is.
LEMMA RearmServes ==
  ASSUME RevokeInv, NEW g \in Goroutine, Rearm(g)
  PROVE  [Service!Next]_(Service!vars)
<1>1. /\ op[g] \in Operation /\ RecordOK(g, op[g])
      /\ object \in [Lease -> [Version -> Object]] /\ leases \in [Lease -> 0..MaxRenewals + 1]
      /\ RecordReal(op[g], credential, revokeFailed, leases, object) /\ op[g].pc = "rearm"
      /\ RevokedMeansDropped
  BY DEF RevokeInv, WellFormed, TypeOK, OperationsOK, DropInv, Rearm
<1>2. PICK l \in Lease, v \in Version :
          /\ l = op[g].lease
          /\ v = IF op[g].driver = "generic_token" THEN op[g].version ELSE op[g].fresh
  BY <1>1 DEF RecordOK, Operation
<1>3. credential[l].state # "none" /\ leases[l] # 0 /\ v # 0
  BY <1>1, <1>2, BrokerAssumption DEF RecordReal, Quiet, Version
<1>4. /\ UNCHANGED <<credential, revokeFailed>>
      /\ leases' = [leases EXCEPT ![l] = v]
      /\ object' = IF op[g].driver = "generic_token" THEN object
                   ELSE [object EXCEPT ![l][v] = op[g].object]
  BY <1>2 DEF Rearm
<1>5. /\ \A k \in Lease \ {l} : leases'[k] = leases[k] /\ object'[k] = object[k]
      /\ leases'[l] = v
  BY <1>1, <1>2, <1>4
<1>6. \A k \in Lease \ {l} : SameListed(k)
  BY <1>5 DEF SameListed, Listed, Recorded, Current
<1>7. \A k \in Lease : SameSecret(k)
  BY <1>4 DEF SameSecret
<1>8. object'[l][v].revoked => Answered(l, credential, revokeFailed)
  <2>1. CASE op[g].driver = "generic_token"
    BY <1>1, <1>4, <2>1 DEF RevokedMeansDropped, Answered
  <2>2. CASE op[g].driver # "generic_token"
    <3>1. object'[l][v] = op[g].object
      BY <1>1, <1>4, <2>2
    <3> QED BY <1>1, <1>2, <2>2, <3>1 DEF RecordReal
  <2> QED BY <2>1, <2>2
<1>9. /\ Listed(l) # "none"
      /\ Listed(l)' = IF object'[l][v].revoked THEN "revoked" ELSE "listed"
  BY <1>3, <1>5 DEF Listed, Recorded, Current
<1> QED BY <1>3, <1>4, <1>6, <1>7, <1>8, <1>9, ListedChanges

\* The other steps change nothing that a holder of a lease sees.
LEMMA OtherServes ==
  ASSUME UNCHANGED <<leases, object, credential, revokeFailed>>
  PROVE  [Service!Next]_(Service!vars)
<1>1. \A k \in Lease : SameListed(k) /\ SameSecret(k)
  BY DEF SameListed, SameSecret, Listed, Recorded, Current
<1> QED BY <1>1, ServiceStutters

LEMMA StepsServe ==
  ASSUME RevokeInv, [Next]_vars
  PROVE  [Service!Next]_(Service!vars)
<1>1. ASSUME NEW g \in Caller, Call(g) PROVE [Service!Next]_(Service!vars)
  BY <1>1, OtherServes DEF Call, IssueLease, RevokeLease, RenewLease, Shutdown
<1>2. ASSUME NEW g \in Goroutine, Step(g) PROVE [Service!Next]_(Service!vars)
  <2>1. ASSUME NEW l \in Lease, RevokeLease(g, l) \/ RevokeNothing(g, l)
        PROVE  [Service!Next]_(Service!vars)
    BY <2>1, OtherServes DEF RevokeLease, RevokeNothing
  <2>2. CASE CloneLease(g) \/ ShutdownReturns(g)
    BY <2>2, OtherServes DEF CloneLease, ShutdownReturns
  <2> QED BY <1>2, <2>1, <2>2, GenerateServes, RecordLeaseServes, DropCredentialServes,
             MarkRevokedServes, ExtendCredentialServes, RearmServes DEF Step
<1>3. CASE \/ \E t \in Timer : Fire(t)
           \/ \E t \in Target, d \in Driver : RegisterDriver(t, d)
           \/ Tick
           \/ UNCHANGED vars
  BY <1>3, OtherServes DEF Fire, RegisterDriver, Tick, vars
<1> QED BY <1>1, <1>2, <1>3 DEF Next

LEMMA ServiceInit == Init => Service!Init
BY DEF Init, Service!Init, Listed, Recorded

\* The broker is the lease service of LeaseService.tla, whatever its callers,
\* timers and drivers do, as long as RegisterDriver changes the meaning of no
\* name: every step of a call is one step of the service or none.
THEOREM BrokerImplementsLeaseService == StableNames => (Spec => ImplementsLeaseService)
<1> SUFFICES ASSUME StableNames PROVE Spec => ImplementsLeaseService
  OBVIOUS
<1>1. RevokeInv /\ [Next]_vars => [Service!Next]_(Service!vars)
  BY StepsServe
<1> QED BY <1>1, ServiceInit, RevokeInvariant, PTL
        DEF Spec, ImplementsLeaseService, Service!Spec

===============================================================================
