--------------------------- MODULE PolicyEngine_proofs ---------------------------
(***************************************************************************)
(* Theorems about PolicyEngine: the rate limit is exact for every limit,   *)
(* every length of the window and any number of tools and calls.           *)
(***************************************************************************)
EXTENDS PolicyEngine, FiniteSetTheorems, TLAPS

\* Slots are taken in the order of the clock.
Ordered ==
    \A tool \in Limited : \A i, j \in DOMAIN slots[tool] :
        slots[tool][i] <= now /\ (i <= j => slots[tool][i] <= slots[tool][j])

\* Only entries that will never count again have been dropped.
Kept ==
    \A tool \in Limited : \A i \in DOMAIN slots[tool] :
        slots[tool][i] > now - Minute => i \in callHistory[tool]

WindowInv == TypeOK /\ Ordered /\ Kept /\ WindowRespected

-------------------------------------------------------------------------------
\* The set of recent entries is a finite part of the history.
LEMMA RecentFinite ==
    ASSUME TypeOK, NEW tool \in Limited
    PROVE  /\ Recent(tool) \subseteq callHistory[tool]
           /\ Recent(tool) \subseteq 1..Len(slots[tool])
           /\ IsFiniteSet(callHistory[tool]) /\ IsFiniteSet(Recent(tool))
           /\ Cardinality(Recent(tool)) \in Nat
           /\ Cardinality(Recent(tool)) <= Cardinality(callHistory[tool])
<1>1. slots[tool] \in Seq(Nat) /\ callHistory[tool] \subseteq DOMAIN slots[tool]
    BY DEF TypeOK
<1>2. Len(slots[tool]) \in Int /\ DOMAIN slots[tool] = 1..Len(slots[tool])
    BY <1>1
<1>3. IsFiniteSet(1..Len(slots[tool]))
    BY <1>2, 1 \in Int, FS_Interval
<1>4. IsFiniteSet(callHistory[tool])
    BY <1>1, <1>2, <1>3, FS_Subset
<1>5. Recent(tool) \subseteq callHistory[tool]
    BY DEF Recent
<1>6. IsFiniteSet(Recent(tool)) /\ Cardinality(Recent(tool)) <= Cardinality(callHistory[tool])
    BY <1>4, <1>5, FS_Subset
<1> QED BY <1>1, <1>2, <1>4, <1>5, <1>6, FS_CardinalityType

\* Every step of the engine leaves the slots alone or appends the time to those
\* of one tool.
LEMMA TypeInit == Init => TypeOK
BY PolicyAssumption DEF Init, TypeOK

LEMMA TypeNext == TypeOK /\ [Next]_vars => TypeOK'
<1> SUFFICES ASSUME TypeOK, [Next]_vars PROVE TypeOK'
    OBVIOUS
<1>1. ASSUME NEW tool \in Tool, RefuseOverLimit(tool) PROVE TypeOK'
    <2>1. tool \in Limited
        BY <1>1 DEF RefuseOverLimit
    <2>2. Recent(tool) \subseteq callHistory[tool]
        BY <2>1, RecentFinite
    <2>3. callHistory' \in [Limited -> SUBSET Nat] /\ refused' \in [Limited -> SUBSET Nat]
        BY <1>1, <2>1, <2>2 DEF RefuseOverLimit, TypeOK
    <2>4. \A s \in Limited : callHistory'[s] \subseteq callHistory[s]
        BY <1>1, <2>1, <2>2 DEF RefuseOverLimit, TypeOK
    <2> QED BY <1>1, <2>3, <2>4 DEF RefuseOverLimit, TypeOK
<1>2. ASSUME NEW tool \in Tool, TakeSlot(tool) PROVE TypeOK'
    <2>1. tool \in Limited
        BY <1>2 DEF TakeSlot
    <2>2. slots[tool] \in Seq(Nat) /\ now \in Nat
        BY <2>1 DEF TypeOK
    <2>3. Recent(tool) \subseteq 1..Len(slots[tool])
        BY <2>1, RecentFinite
    <2>4. Append(slots[tool], now) \in Seq(Nat)
          /\ DOMAIN Append(slots[tool], now) = 1..Len(slots[tool]) + 1
        BY <2>2
    <2>5. Recent(tool) \cup {Len(slots[tool]) + 1} \subseteq DOMAIN Append(slots[tool], now)
        BY <2>2, <2>3, <2>4
    <2>6. Recent(tool) \cup {Len(slots[tool]) + 1} \subseteq Nat
        BY <2>2, <2>3
    <2>7. slots' \in [Limited -> Seq(Nat)] /\ callHistory' \in [Limited -> SUBSET Nat]
        BY <1>2, <2>1, <2>4, <2>6 DEF TakeSlot, TypeOK
    <2>8. \A s \in Limited : callHistory'[s] \subseteq DOMAIN slots'[s]
        BY <1>2, <2>1, <2>5 DEF TakeSlot, TypeOK
    <2> QED BY <1>2, <2>7, <2>8 DEF TakeSlot, TypeOK
<1>3. CASE Tick
    BY <1>3 DEF Tick, TypeOK
<1>4. CASE UNCHANGED vars
    BY <1>4 DEF vars, TypeOK
<1> QED BY <1>1, <1>2, <1>3, <1>4 DEF Next, EvaluateToolCall, EvaluateUnlimited

\* The types hold for every value of the constants.
THEOREM TypeCorrect == Spec => []TypeOK
BY TypeInit, TypeNext, PTL DEF Spec

-------------------------------------------------------------------------------
\* When fewer than m calls of the last minute are left in the history, the m-th
\* last slot is a minute old.
LEMMA OldEnough ==
    ASSUME TypeOK, Ordered, Kept, NEW tool \in Limited,
           Cardinality(Recent(tool)) < MaxPerMin[tool],
           NEW i \in DOMAIN slots[tool],
           i + MaxPerMin[tool] = Len(slots[tool]) + 1
    PROVE  now >= slots[tool][i] + Minute
<1> DEFINE n == Len(slots[tool])
<1>1. slots[tool] \in Seq(Nat) /\ now \in Nat /\ Minute \in Nat /\ MaxPerMin[tool] \in Nat
    BY PolicyAssumption DEF TypeOK
<1>2. n \in Nat /\ i \in 1..n /\ DOMAIN slots[tool] = 1..n
    BY <1>1
<1>3. slots[tool][i] \in Nat
    BY <1>1
<1> SUFFICES ASSUME slots[tool][i] > now - Minute PROVE FALSE
    BY <1>1, <1>3
<1>4. ASSUME NEW j \in i..n PROVE j \in Recent(tool)
    <2>1. j \in DOMAIN slots[tool] /\ i <= j
        BY <1>2, <1>4
    <2>2. slots[tool][i] <= slots[tool][j]
        BY <2>1 DEF Ordered
    <2>3. slots[tool][j] > now - Minute
        BY <1>1, <1>3, <2>1, <2>2
    <2> QED BY <2>1, <2>3 DEF Kept, Recent
<1>5. i..n \in SUBSET Recent(tool)
    BY <1>4
<1>6. IsFiniteSet(Recent(tool)) /\ Cardinality(Recent(tool)) \in Nat
    BY RecentFinite
<1>7. Cardinality(i..n) <= Cardinality(Recent(tool))
    BY <1>5, <1>6, FS_Subset
<1>8. Cardinality(i..n) = n - i + 1
    BY <1>2, FS_Interval
<1> QED BY <1>1, <1>2, <1>6, <1>7, <1>8, SMTT(20)

LEMMA WindowInit == Init => WindowInv
<1> SUFFICES ASSUME Init PROVE WindowInv
    OBVIOUS
<1>1. \A tool \in Limited : DOMAIN slots[tool] = {}
    BY DEF Init
<1> QED BY <1>1, TypeInit DEF WindowInv, Ordered, Kept, WindowRespected

LEMMA WindowNext == WindowInv /\ [Next]_vars => WindowInv'
<1> SUFFICES ASSUME WindowInv, [Next]_vars PROVE WindowInv'
    OBVIOUS
<1> USE DEF WindowInv
<1>1. TypeOK'
    BY TypeNext
<1>2. ASSUME NEW tool \in Tool, RefuseOverLimit(tool) PROVE WindowInv'
    <2>1. tool \in Limited /\ UNCHANGED <<now, slots>>
        BY <1>2 DEF RefuseOverLimit
    <2>2. Ordered' /\ WindowRespected'
        BY <2>1 DEF Ordered, WindowRespected
    <2>3. \A i \in DOMAIN slots[tool] :
              slots[tool][i] > now - Minute => i \in callHistory'[tool]
        BY <1>2, <2>1 DEF RefuseOverLimit, Kept, Recent, TypeOK
    <2>4. \A s \in Limited \ {tool} : callHistory'[s] = callHistory[s]
        BY <1>2 DEF RefuseOverLimit, TypeOK
    <2>5. Kept'
        BY <2>1, <2>3, <2>4 DEF Kept
    <2> QED BY <1>1, <2>2, <2>5
<1>3. ASSUME NEW tool \in Tool, TakeSlot(tool) PROVE WindowInv'
    <2> DEFINE n == Len(slots[tool])
    <2>1. tool \in Limited /\ now' = now /\ Cardinality(Recent(tool)) < MaxPerMin[tool]
        BY <1>3 DEF TakeSlot
    <2>2. slots[tool] \in Seq(Nat) /\ now \in Nat /\ MaxPerMin[tool] \in Nat \ {0} /\ Minute \in Nat \ {0}
        BY <2>1, PolicyAssumption DEF TypeOK
    <2>3. n \in Nat /\ DOMAIN slots[tool] = 1..n
        BY <2>2
    <2>4. slots'[tool] = Append(slots[tool], now)
        BY <1>3, <2>1 DEF TakeSlot, TypeOK
    <2>5. /\ DOMAIN slots'[tool] = 1..n + 1
          /\ slots'[tool][n + 1] = now
          /\ \A i \in 1..n : slots'[tool][i] = slots[tool][i] /\ slots[tool][i] \in Nat
        BY <2>2, <2>4
    <2>6. \A s \in Limited \ {tool} : slots'[s] = slots[s] /\ callHistory'[s] = callHistory[s]
        BY <1>3 DEF TakeSlot, TypeOK
    <2>7. callHistory'[tool] = Recent(tool) \cup {n + 1}
        BY <1>3, <2>1 DEF TakeSlot, TypeOK
    <2>8. \A i, j \in 1..n + 1 : slots'[tool][i] <= now /\ (i <= j => slots'[tool][i] <= slots'[tool][j])
        <3>1. \A i, j \in 1..n : slots[tool][i] <= now /\ (i <= j => slots[tool][i] <= slots[tool][j])
            BY <2>1, <2>3 DEF Ordered
        <3>2. \A i \in 1..n + 1 : i \in 1..n \/ i = n + 1
            BY <2>3
        <3>3. ASSUME NEW i \in 1..n + 1 PROVE slots'[tool][i] <= now
            <4>1. CASE i = n + 1
                BY <2>2, <2>5, <4>1
            <4>2. CASE i \in 1..n
                <5>1. slots[tool][i] <= now
                    BY <3>1, <4>2
                <5> QED BY <2>5, <4>2, <5>1
            <4> QED BY <3>2, <4>1, <4>2
        <3>4. ASSUME NEW i \in 1..n + 1, NEW j \in 1..n + 1, i <= j
              PROVE  slots'[tool][i] <= slots'[tool][j]
            <4>1. CASE j = n + 1
                BY <2>5, <3>3, <4>1
            <4>2. CASE j \in 1..n
                <5>1. i \in 1..n
                    BY <2>3, <3>4, <4>2
                <5> QED BY <2>5, <3>1, <3>4, <4>2, <5>1
            <4> QED BY <3>2, <4>1, <4>2
        <3> QED BY <3>3, <3>4
    <2>9. Ordered'
        BY <2>1, <2>5, <2>6, <2>8 DEF Ordered
    <2>10. \A i \in 1..n + 1 : slots'[tool][i] > now - Minute => i \in callHistory'[tool]
        BY <2>1, <2>3, <2>5, <2>7 DEF Kept, Recent
    <2>11. Kept'
        BY <2>1, <2>5, <2>6, <2>10 DEF Kept
    <2>12. ASSUME NEW i \in 1..n + 1, i + MaxPerMin[tool] \in 1..n + 1
           PROVE  slots'[tool][i + MaxPerMin[tool]] >= slots'[tool][i] + Minute
        <3>1. i \in 1..n
            BY <2>2, <2>3, <2>12
        <3>2. CASE i + MaxPerMin[tool] = n + 1
            <4>1. now >= slots[tool][i] + Minute
                BY <2>1, <2>3, <3>1, <3>2, OldEnough
            <4> QED BY <2>5, <3>1, <3>2, <4>1
        <3>3. CASE i + MaxPerMin[tool] \in 1..n
            <4>1. slots[tool][i + MaxPerMin[tool]] >= slots[tool][i] + Minute
                BY <2>1, <2>3, <3>1, <3>3 DEF WindowRespected
            <4> QED BY <2>5, <3>1, <3>3, <4>1
        <3>4. i + MaxPerMin[tool] = n + 1 \/ i + MaxPerMin[tool] \in 1..n
            BY ONLY <2>3, <2>12
        <3> QED BY ONLY <3>2, <3>3, <3>4
    <2>13. WindowRespected'
        BY <2>5, <2>6, <2>12 DEF WindowRespected
    <2> QED BY <1>1, <2>9, <2>11, <2>13
<1>4. CASE Tick
    <2>1. now' = now + 1 /\ UNCHANGED <<slots, callHistory>> /\ now \in Nat /\ Minute \in Nat
        BY <1>4, PolicyAssumption DEF Tick, TypeOK
    <2>2. \A tool \in Limited : \A i \in DOMAIN slots[tool] : slots[tool][i] \in Nat
        BY DEF TypeOK
    <2>3. Ordered' /\ Kept' /\ WindowRespected'
        BY <2>1, <2>2 DEF Ordered, Kept, WindowRespected
    <2> QED BY <1>1, <2>3
<1>5. CASE UNCHANGED vars
    BY <1>1, <1>5 DEF vars, Ordered, Kept, WindowRespected
<1> QED BY <1>2, <1>3, <1>4, <1>5 DEF Next, EvaluateToolCall, EvaluateUnlimited

\* No minute sees more than max_per_min calls of a tool take a slot, for every
\* limit, window and number of calls.
THEOREM WindowHolds == Spec => []WindowRespected
<1>1. WindowInv => WindowRespected
    BY DEF WindowInv
<1> QED BY WindowInit, WindowNext, <1>1, PTL DEF Spec

-------------------------------------------------------------------------------
\* Of m numbers up to n, one is at most n - m + 1.
LEMMA LowElement ==
    ASSUME NEW n \in Nat, NEW m \in Nat \ {0}, NEW R \in SUBSET (1..n),
           Cardinality(R) \in Nat, Cardinality(R) >= m
    PROVE  \E i \in R : i + m - 1 <= n
<1> DEFINE lo == n - m + 2
<1>1. lo \in Int /\ n \in Int
    OBVIOUS
<1>2. SUFFICES ASSUME \A i \in R : i + m - 1 > n PROVE FALSE
    OBVIOUS
<1>3. R \in SUBSET (lo..n)
    BY <1>2
<1>4. IsFiniteSet(lo..n) /\ Cardinality(lo..n) = IF lo > n THEN 0 ELSE n - lo + 1
    <2> HIDE DEF lo
    <2> QED BY <1>1, FS_Interval
<1>5. Cardinality(R) <= Cardinality(lo..n)
    BY <1>3, <1>4, FS_Subset
<1> QED BY <1>4, <1>5

\* When m calls of the last minute are in the history, m slots in a row are.
LEMMA LimitReached ==
    ASSUME TypeOK, NEW tool \in Limited,
           Cardinality(Recent(tool)) >= MaxPerMin[tool]
    PROVE  \E i \in DOMAIN slots[tool] :
              /\ i + MaxPerMin[tool] - 1 \in DOMAIN slots[tool]
              /\ now - Minute < slots[tool][i]
<1> DEFINE n == Len(slots[tool])
           m == MaxPerMin[tool]
           R == Recent(tool)
<1>1. slots[tool] \in Seq(Nat) /\ m \in Nat \ {0}
    BY PolicyAssumption DEF TypeOK
<1>2. n \in Nat /\ DOMAIN slots[tool] = 1..n
    BY <1>1
<1>3. R \in SUBSET (1..n) /\ IsFiniteSet(R) /\ Cardinality(R) \in Nat
    BY RecentFinite
<1>4. \E i \in R : i + m - 1 <= n
    BY <1>1, <1>2, <1>3, LowElement
<1>5. PICK i \in R : i + m - 1 <= n
    BY <1>4
<1>6. i \in 1..n /\ slots[tool][i] > now - Minute
    BY <1>3, <1>5 DEF Recent
<1>7. i + m - 1 \in 1..n
    BY <1>1, <1>2, <1>5, <1>6
<1>8. slots[tool][i] \in Nat /\ now \in Nat /\ Minute \in Nat
    BY <1>1, <1>2, <1>6, PolicyAssumption DEF TypeOK
<1> QED BY <1>2, <1>6, <1>7, <1>8

RefusalInv == TypeOK /\ Ordered /\ RefusalsAreDue

LEMMA RefusalNext == RefusalInv /\ Ordered' /\ [Next]_vars => RefusalInv'
<1> SUFFICES ASSUME RefusalInv, Ordered', [Next]_vars PROVE RefusalInv'
    OBVIOUS
<1> USE DEF RefusalInv
<1>1. TypeOK'
    BY TypeNext
<1>2. ASSUME NEW tool \in Tool, RefuseOverLimit(tool) PROVE RefusalsAreDue'
    <2>1. tool \in Limited /\ UNCHANGED <<now, slots>> /\ Cardinality(Recent(tool)) >= MaxPerMin[tool]
        BY <1>2 DEF RefuseOverLimit
    <2>2. PICK i \in DOMAIN slots[tool] :
              /\ i + MaxPerMin[tool] - 1 \in DOMAIN slots[tool]
              /\ now - Minute < slots[tool][i]
        BY <2>1, LimitReached
    <2>3. slots[tool][i + MaxPerMin[tool] - 1] <= now
        BY <2>1, <2>2 DEF Ordered
    <2>4. refused'[tool] = refused[tool] \cup {now}
        BY <1>2, <2>1 DEF RefuseOverLimit, TypeOK
    <2>5. \A s \in Limited \ {tool} : refused'[s] = refused[s]
        BY <1>2 DEF RefuseOverLimit, TypeOK
    <2> QED BY <2>1, <2>2, <2>3, <2>4, <2>5 DEF RefusalsAreDue
<1>3. ASSUME NEW tool \in Tool, TakeSlot(tool) PROVE RefusalsAreDue'
    <2>1. tool \in Limited /\ refused' = refused
        BY <1>3 DEF TakeSlot
    <2>2. slots[tool] \in Seq(Nat) /\ now \in Nat /\ MaxPerMin[tool] \in Nat
        BY <2>1, PolicyAssumption DEF TypeOK
    <2>3. slots'[tool] = Append(slots[tool], now)
        BY <1>3, <2>1 DEF TakeSlot, TypeOK
    <2>4. \A i \in DOMAIN slots[tool] : i \in DOMAIN slots'[tool] /\ slots'[tool][i] = slots[tool][i]
        BY <2>2, <2>3
    <2>5. \A s \in Limited \ {tool} : slots'[s] = slots[s]
        BY <1>3 DEF TakeSlot, TypeOK
    <2>6. ASSUME NEW s \in Limited, NEW t \in refused[s]
          PROVE  \E i \in DOMAIN slots'[s] :
                    /\ i + MaxPerMin[s] - 1 \in DOMAIN slots'[s]
                    /\ t - Minute < slots'[s][i]
                    /\ slots'[s][i + MaxPerMin[s] - 1] <= t
        <3>1. PICK i \in DOMAIN slots[s] :
                    /\ i + MaxPerMin[s] - 1 \in DOMAIN slots[s]
                    /\ t - Minute < slots[s][i]
                    /\ slots[s][i + MaxPerMin[s] - 1] <= t
            BY DEF RefusalsAreDue
        <3> QED BY <2>4, <2>5, <3>1
    <2> QED BY <2>1, <2>6 DEF RefusalsAreDue
<1>4. ASSUME UNCHANGED <<slots, refused>> PROVE RefusalsAreDue'
    <2>1. slots' = slots /\ refused' = refused /\ RefusalsAreDue
        BY <1>4
    <2> QED BY <2>1, Zenon DEF RefusalsAreDue
<1>5. ASSUME Tick \/ UNCHANGED vars PROVE RefusalsAreDue'
    <2>1. UNCHANGED <<slots, refused>>
        BY <1>5 DEF Tick, vars
    <2> QED BY <1>4, <2>1
<1>6. RefusalsAreDue'
    BY <1>2, <1>3, <1>5 DEF Next, EvaluateToolCall, EvaluateUnlimited
<1> QED BY <1>1, <1>6

\* The rate limit refuses a call only when max_per_min calls took a slot in the
\* minute before, for every limit, window and number of calls.
THEOREM RefusalsHold == Spec => []RefusalsAreDue
<1>1. Init => RefusalsAreDue
    BY DEF Init, RefusalsAreDue
<1>2. WindowInv => TypeOK /\ Ordered
    BY DEF WindowInv
<1>3. RefusalInv => RefusalsAreDue
    BY DEF RefusalInv
<1>4. WindowInv /\ RefusalsAreDue => RefusalInv
    BY <1>2 DEF RefusalInv
<1>5. WindowInv' => Ordered'
    BY DEF WindowInv
<1>6. RefusalInv' => RefusalsAreDue'
    BY DEF RefusalInv
<1> QED BY WindowInit, WindowNext, RefusalNext, <1>1, <1>2, <1>3, <1>4, <1>5, <1>6, PTL DEF Spec

-------------------------------------------------------------------------------
BoundInv == TypeOK /\ HistoryBounded

LEMMA BoundNext == BoundInv /\ [Next]_vars => BoundInv'
<1> SUFFICES ASSUME TypeOK, HistoryBounded, [Next]_vars PROVE BoundInv'
    BY DEF BoundInv
<1>1. TypeOK'
    BY TypeNext
<1>2. ASSUME NEW tool \in Tool, RefuseOverLimit(tool) PROVE HistoryBounded'
    <2>1. tool \in Limited
        BY <1>2 DEF RefuseOverLimit
    <2>2. /\ Cardinality(Recent(tool)) \in Nat
          /\ Cardinality(Recent(tool)) <= Cardinality(callHistory[tool])
          /\ Cardinality(callHistory[tool]) \in Nat
        BY <2>1, RecentFinite, FS_CardinalityType
    <2>3. MaxPerMin[tool] \in Nat /\ Cardinality(callHistory[tool]) <= MaxPerMin[tool]
        BY <2>1, PolicyAssumption DEF HistoryBounded
    <2>4. Cardinality(Recent(tool)) <= MaxPerMin[tool]
        BY <2>2, <2>3
    <2>5. callHistory'[tool] = Recent(tool)
        BY <1>2, <2>1 DEF RefuseOverLimit, TypeOK
    <2>6. \A s \in Limited \ {tool} : callHistory'[s] = callHistory[s]
        BY <1>2 DEF RefuseOverLimit, TypeOK
    <2> QED BY <2>4, <2>5, <2>6 DEF HistoryBounded
<1>3. ASSUME NEW tool \in Tool, TakeSlot(tool) PROVE HistoryBounded'
    <2> DEFINE n == Len(slots[tool]) + 1
    <2>1. tool \in Limited /\ Cardinality(Recent(tool)) < MaxPerMin[tool]
        BY <1>3 DEF TakeSlot
    <2>2. IsFiniteSet(Recent(tool)) /\ Cardinality(Recent(tool)) \in Nat
        BY <2>1, RecentFinite
    <2>3. \/ Cardinality(Recent(tool) \cup {n}) = Cardinality(Recent(tool))
          \/ Cardinality(Recent(tool) \cup {n}) = Cardinality(Recent(tool)) + 1
        <3> HIDE DEF n
        <3>1. Cardinality(Recent(tool) \cup {n}) =
                IF n \in Recent(tool) THEN Cardinality(Recent(tool)) ELSE Cardinality(Recent(tool)) + 1
            BY <2>2, FS_AddElement
        <3> QED BY <3>1
    <2>4. MaxPerMin[tool] \in Nat
        BY <2>1, PolicyAssumption
    <2>5. Cardinality(Recent(tool) \cup {n}) <= MaxPerMin[tool]
        BY <2>1, <2>2, <2>3, <2>4
    <2>6. callHistory'[tool] = Recent(tool) \cup {n}
        BY <1>3, <2>1 DEF TakeSlot, TypeOK
    <2>7. \A s \in Limited \ {tool} : callHistory'[s] = callHistory[s]
        BY <1>3 DEF TakeSlot, TypeOK
    <2> QED BY <2>5, <2>6, <2>7 DEF HistoryBounded
<1>4. ASSUME UNCHANGED callHistory PROVE HistoryBounded'
    BY <1>4 DEF HistoryBounded
<1>5. HistoryBounded'
    BY <1>2, <1>3, <1>4 DEF Next, EvaluateToolCall, EvaluateUnlimited, Tick, vars
<1> QED BY <1>1, <1>5 DEF BoundInv

\* callHistory never holds more than max_per_min entries of a tool, for every
\* limit, however many calls are refused or take a slot.
THEOREM HistoryStaysBounded == Spec => []HistoryBounded
<1>1. Init => HistoryBounded
    BY FS_EmptySet, PolicyAssumption DEF Init, HistoryBounded
<1>2. Init => BoundInv
    BY <1>1, TypeInit DEF BoundInv
<1>3. BoundInv => HistoryBounded
    BY DEF BoundInv
<1> QED BY <1>2, <1>3, BoundNext, PTL DEF Spec

===============================================================================
