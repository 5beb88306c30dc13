--------------------------- MODULE AuditLedger_proofs ---------------------------
(***************************************************************************)
(* Theorems about AuditLedger and MerkleTree, and their proofs.            *)
(***************************************************************************)
EXTENDS AuditLedger, MerkleTree, FiniteSetTheorems, WellFoundedInduction, TLAPS

\* The events of the lines of f, when all of them can be read.
Events(f) == [i \in 1..Len(f) |-> f[i].event]

AllReadable(f) == \A i \in DOMAIN f : Readable(f[i])

AllSound(f) == \A i \in DOMAIN f : Sound(f[i])

-------------------------------------------------------------------------------
\* Facts about the tree that NewFileWriter and VerifyLogFile build from a file.

\* Two lines that parse have different ranks.
LEMMA RankInjective ==
    ASSUME NEW f \in Seq(Line), NEW i \in Parsed(f), NEW j \in Parsed(f), i < j
    PROVE  Rank(f, i) # Rank(f, j)
<1> DEFINE U(k) == {m \in Parsed(f) : m <= k}
<1>1. Parsed(f) \subseteq 1..Len(f)
    BY DEF Parsed
<1>2. IsFiniteSet(1..Len(f))
    BY FS_Interval
<1>3. IsFiniteSet(U(j))
    BY <1>1, <1>2, FS_Subset, U(j) \subseteq 1..Len(f)
<1>4. U(i) \in SUBSET U(j)
    BY <1>1
<1>5. j \in U(j) /\ j \notin U(i)
    BY <1>1
<1>6. Cardinality(U(j)) # Cardinality(U(i))
    BY <1>3, <1>4, <1>5, FS_Subset
<1> QED BY <1>6 DEF Rank

\* The number of lines that parse is a natural number, and so is every rank.
LEMMA RankRange ==
    ASSUME NEW f \in Seq(Line)
    PROVE  /\ Cardinality(Parsed(f)) \in 0..Len(f)
           /\ \A i \in Parsed(f) : Rank(f, i) \in 1..Cardinality(Parsed(f))
<1>1. Parsed(f) \in SUBSET (1..Len(f))
    BY DEF Parsed
<1>2. IsFiniteSet(1..Len(f)) /\ Cardinality(1..Len(f)) = Len(f)
    BY FS_Interval, Len(f) \in Nat, SMTT(20)
<1>3. IsFiniteSet(Parsed(f)) /\ Cardinality(Parsed(f)) <= Len(f)
    BY <1>1, <1>2, FS_Subset
<1>4. Cardinality(Parsed(f)) \in Nat
    BY <1>3, FS_CardinalityType
<1>5. ASSUME NEW i \in Parsed(f)
      PROVE  Rank(f, i) \in 1..Cardinality(Parsed(f))
    <2> DEFINE U == {m \in Parsed(f) : m <= i}
    <2>1. IsFiniteSet(U) /\ Cardinality(U) <= Cardinality(Parsed(f))
        BY <1>3, FS_Subset, U \in SUBSET Parsed(f)
    <2>2. Cardinality(U) \in Nat
        BY <2>1, FS_CardinalityType
    <2>3. i \in U
        BY <1>1
    <2>4. Cardinality(U) # 0
        BY <2>1, <2>3, FS_EmptySet
    <2> QED BY <1>4, <2>1, <2>2, <2>4 DEF Rank
<1> QED BY <1>3, <1>4, <1>5

\* Every number up to the number of lines that parse is the rank of a line.
LEMMA RankSurjective ==
    ASSUME NEW f \in Seq(Line), NEW n \in 1..Cardinality(Parsed(f))
    PROVE  \E i \in Parsed(f) : Rank(f, i) = n
<1> DEFINE P == Parsed(f)
           c == Cardinality(P)
           T == (1..c) \ {n}
           rank == [i \in P |-> Rank(f, i)]
<1>1. P \in SUBSET (1..Len(f)) /\ IsFiniteSet(P)
    BY FS_Interval, FS_Subset DEF Parsed
<1>2. c \in Nat
    BY RankRange
<1>3. IsFiniteSet(1..c) /\ Cardinality(1..c) = c
    BY <1>2, FS_Interval
<1>4. IsFiniteSet(T) /\ Cardinality(T) = c - 1
    BY <1>3, FS_RemoveElement
<1> SUFFICES ASSUME \A i \in P : Rank(f, i) # n
             PROVE  FALSE
    OBVIOUS
<1>5. rank \in [P -> T]
    BY RankRange
<1>6. Cardinality(T) < Cardinality(P)
    BY <1>2, <1>4
<1>7. PICK i, j \in P : i # j /\ rank[i] = rank[j]
    <2> HIDE DEF P, T, rank
    <2> QED BY <1>1, <1>4, <1>5, <1>6, FS_PigeonHole
<1>8. i < j \/ j < i
    BY <1>1, <1>7
<1> QED BY <1>7, <1>8, RankInjective

\* The tree of a file is a sequence of events.
LEMMA LeavesType ==
    ASSUME NEW f \in Seq(Line)
    PROVE  Leaves(f) \in Seq(Event)
<1> DEFINE c == Cardinality(Parsed(f))
           At(n) == CHOOSE i \in Parsed(f) : Rank(f, i) = n
<1>1. c \in Nat
    BY RankRange
<1>2. ASSUME NEW n \in 1..c PROVE f[At(n)].event \in Event
    <2>1. At(n) \in Parsed(f)
        BY RankSurjective
    <2>2. At(n) \in DOMAIN f /\ f[At(n)].event # None
        BY <2>1 DEF Parsed, Readable
    <2>3. f[At(n)] \in Line
        BY <2>2
    <2> QED BY <2>2, <2>3 DEF Line
<1>3. Leaves(f) = [n \in 1..c |-> f[At(n)].event]
    BY DEF Leaves
<1> HIDE DEF c, At
<1>4. Leaves(f) \in [1..c -> Event]
    BY <1>2, <1>3
<1> QED BY <1>1, <1>4

\* When every line can be read, the tree holds the events of the lines.
LEMMA LeavesReadable ==
    ASSUME NEW f \in Seq(Line), AllReadable(f)
    PROVE  Leaves(f) = Events(f)
<1>1. Parsed(f) = 1..Len(f)
    BY DEF Parsed, AllReadable
<1>2. Cardinality(Parsed(f)) = Len(f)
    BY <1>1, FS_Interval
<1>3. ASSUME NEW i \in 1..Len(f) PROVE Rank(f, i) = i
    <2>1. {j \in Parsed(f) : j <= i} = 1..i
        BY <1>1
    <2>2. Cardinality(1..i) = i
        BY FS_Interval
    <2> QED BY <2>1, <2>2 DEF Rank
<1>4. ASSUME NEW n \in 1..Len(f)
      PROVE  (CHOOSE i \in Parsed(f) : Rank(f, i) = n) = n
    BY <1>1, <1>3
<1>5. Leaves(f) = [n \in 1..Len(f) |-> f[CHOOSE i \in Parsed(f) : Rank(f, i) = n].event]
    BY <1>2 DEF Leaves
<1> QED BY <1>4, <1>5, Zenon DEF Events

\* The tree of a file holds nothing but events of its lines.
LEMMA LeavesFromLines ==
    ASSUME NEW f \in Seq(Line), NEW n \in DOMAIN Leaves(f)
    PROVE  \E i \in DOMAIN f : f[i].event = Leaves(f)[n]
<1> DEFINE i == CHOOSE i \in Parsed(f) : Rank(f, i) = n
<1>1. n \in 1..Cardinality(Parsed(f)) /\ Leaves(f)[n] = f[i].event
    BY DEF Leaves
<1>2. i \in Parsed(f)
    BY <1>1, RankSurjective
<1> QED BY <1>1, <1>2 DEF Parsed

-------------------------------------------------------------------------------
\* A sound line that follows sound lines only has the index and the root that
\* the verifier computes.
PrefixesVerify(f) ==
    \A i \in DOMAIN f :
        (\A j \in 1..i : Sound(f[j])) =>
            f[i].index = i - 1 /\ f[i].root = [k \in 1..i |-> f[k].event]

\* While every line is sound, a gateway that is not stale has the tree of the file.
TreeOf(g) == IF pc[g] = "write" THEN Append(Events(file), pending[g]) ELSE Events(file)

TreesMatch ==
    \A g \in Gateway : AllSound(file) /\ pc[g] # "closed" /\ ~stale[g] => tree[g] = TreeOf(g)

\* The inductive invariant behind SoundLedgerVerifies.
SoundInv == TypeOK /\ PrefixesVerify(file) /\ TreesMatch

\* The events of a file are a sequence.
LEMMA EventsType ==
    ASSUME NEW f \in Seq(Line), AllReadable(f)
    PROVE  Events(f) \in Seq(Event) /\ Len(Events(f)) = Len(f)
<1>1. ASSUME NEW i \in 1..Len(f) PROVE f[i].event \in Event
    <2>1. f[i] \in Line /\ f[i].event # None
        BY DEF AllReadable, Readable
    <2> QED BY <2>1 DEF Line
<1>2. Events(f) \in [1..Len(f) -> Event]
    BY <1>1 DEF Events
<1> QED BY <1>2

\* What an append does to the file.
LEMMA ExtendedLines ==
    ASSUME TypeOK, NEW line \in Line, NEW f, f = Extended(line)
    PROVE  /\ f \in Seq(Line) /\ f # <<>> /\ Len(file) <= Len(f)
           /\ ended => /\ Len(f) = Len(file) + 1 /\ f[Len(f)] = line
                       /\ \A i \in 1..Len(file) : f[i] = file[i]
           /\ ~ended => /\ Len(f) = Len(file) /\ f[Len(f)] = Garbage
                        /\ \A i \in 1..Len(file) : i # Len(file) => f[i] = file[i]
<1>1. Garbage \in Line
    BY DEF Garbage, Line
<1>2. CASE ended
    <2>1. file \in Seq(Line)
        BY DEF TypeOK
    <2>2. f = Append(file, line)
        BY <1>2 DEF Extended
    <2>3. f \in Seq(Line) /\ Len(f) = Len(file) + 1
        BY <2>1, <2>2
    <2>4. f[Len(f)] = line /\ \A i \in 1..Len(file) : f[i] = file[i]
        BY <2>1, <2>2, <2>3
    <2> QED BY <1>2, <2>1, <2>3, <2>4
<1>3. CASE ~ended
    <2>1. file \in Seq(Line) /\ Len(file) \in 1..Len(file)
        BY <1>3 DEF TypeOK
    <2>2. f = [file EXCEPT ![Len(file)] = Garbage]
        BY <1>3 DEF Extended
    <2>3. f \in Seq(Line) /\ Len(f) = Len(file)
        BY <1>1, <2>1, <2>2
    <2>4. \A i \in 1..Len(file) : f[i] = IF i = Len(file) THEN Garbage ELSE file[i]
        <3>1. DOMAIN file = 1..Len(file)
            BY <2>1
        <3> QED BY <2>2, <3>1, Zenon
    <2>5. f # <<>>
        BY <2>1, <2>3
    <2> QED BY <1>3, <2>1, <2>3, <2>4, <2>5
<1> QED BY <1>2, <1>3

\* A file with a line that cannot be read is not sound.
LEMMA GarbageUnsound == ~Readable(Garbage) /\ ~Sound(Garbage)
BY DEF Garbage, Readable, Sound

\* What is right of a line stays right in a file with the same lines up to it.
LEMMA PrefixUnchanged ==
    ASSUME PrefixesVerify(file), NEW f, NEW i \in DOMAIN file, i \in 1..i,
           \A j \in 1..i : f[j] = file[j],
           \A j \in 1..i : Sound(f[j])
    PROVE  f[i].index = i - 1 /\ f[i].root = [k \in 1..i |-> f[k].event]
<1>1. \A j \in 1..i : Sound(file[j])
    OBVIOUS
<1>2. file[i].index = i - 1 /\ file[i].root = [k \in 1..i |-> file[k].event]
    BY <1>1 DEF PrefixesVerify
<1>3. [k \in 1..i |-> file[k].event] = [k \in 1..i |-> f[k].event]
    OBVIOUS
<1>4. f[i] = file[i]
    OBVIOUS
<1> QED BY <1>2, <1>3, <1>4

\* An append keeps the prefixes right, and leaves a sound file only if the file
\* was sound and a sound line was added to it.
LEMMA ExtendedSound ==
    ASSUME TypeOK, PrefixesVerify(file), NEW line \in Line, NEW f, f = Extended(line),
           AllSound(file) /\ ended /\ Sound(line) =>
               line.index = Len(file) /\ line.root = Append(Events(file), line.event)
    PROVE  /\ PrefixesVerify(f)
           /\ AllSound(f) => /\ AllSound(file) /\ ended /\ Sound(line)
                             /\ Events(f) = Append(Events(file), line.event)
<1>1. file \in Seq(Line)
    BY DEF TypeOK
<1>2. CASE ended
    <2>1. /\ f \in Seq(Line) /\ Len(f) = Len(file) + 1 /\ f[Len(f)] = line
          /\ \A i \in 1..Len(file) : f[i] = file[i]
        BY <1>2, ExtendedLines, SMTT(20)
    <2>2. AllSound(f) => AllSound(file) /\ Sound(line)
        BY <1>1, <2>1 DEF AllSound
    <2>3. ASSUME AllSound(f)
          PROVE  Events(f) = Append(Events(file), line.event)
        <3>1. AllReadable(file) /\ AllReadable(f)
            BY <2>2, <2>3 DEF AllSound, AllReadable, Sound
        <3>2. /\ Events(file) \in Seq(Event) /\ Len(Events(file)) = Len(file)
              /\ Events(f) \in Seq(Event) /\ Len(Events(f)) = Len(f)
            BY <1>1, <2>1, <3>1, EventsType
        <3>3. line.event \in Event
            BY <2>2, <2>3 DEF Sound, Readable, Line
        <3>4. \A i \in 1..Len(f) : Events(f)[i] = Append(Events(file), line.event)[i]
            BY <2>1, <3>2, <3>3 DEF Events
        <3> QED BY <2>1, <3>2, <3>3, <3>4
    <2>4. ASSUME NEW i \in DOMAIN f, \A j \in 1..i : Sound(f[j])
          PROVE  f[i].index = i - 1 /\ f[i].root = [k \in 1..i |-> f[k].event]
        <3>1. CASE i <= Len(file)
            <4>1. i \in DOMAIN file /\ i \in 1..i /\ \A j \in 1..i : f[j] = file[j]
                BY <1>1, <2>1, <3>1
            <4> QED BY <2>4, <4>1, PrefixUnchanged
        <3>2. CASE i = Len(f)
            <4>1. AllSound(f)
                BY <2>1, <2>4, <3>2 DEF AllSound
            <4>2. line.index = Len(file) /\ line.root = Events(f)
                BY <1>2, <2>2, <2>3, <4>1
            <4>3. f[i] = line /\ i - 1 = Len(file)
                BY <1>1, <2>1, <3>2
            <4>4. Events(f) = [k \in 1..i |-> f[k].event]
                BY <2>1, <3>2 DEF Events
            <4> QED BY <4>2, <4>3, <4>4
        <3>3. i \in 1..Len(f) /\ Len(file) \in Nat
            BY <1>1, <2>1
        <3>4. i <= Len(file) \/ i = Len(f)
            BY <2>1, <3>3
        <3> QED BY <3>1, <3>2, <3>4
    <2> QED BY <1>2, <2>2, <2>3, <2>4 DEF PrefixesVerify
<1>3. CASE ~ended
    <2>1. /\ f \in Seq(Line) /\ Len(f) = Len(file) /\ f[Len(f)] = Garbage /\ f # <<>>
          /\ \A i \in 1..Len(file) : i # Len(file) => f[i] = file[i]
        BY <1>3, ExtendedLines
    <2>2. ~AllSound(f)
        BY <2>1, GarbageUnsound DEF AllSound
    <2>3. ASSUME NEW i \in DOMAIN f, \A j \in 1..i : Sound(f[j])
          PROVE  f[i].index = i - 1 /\ f[i].root = [k \in 1..i |-> f[k].event]
        <3>1. i # Len(f)
            BY <2>1, <2>3, GarbageUnsound
        <3>2. i \in DOMAIN file /\ i \in 1..i /\ \A j \in 1..i : f[j] = file[j]
            BY <1>1, <2>1, <3>1
        <3> QED BY <2>3, <3>2, PrefixUnchanged
    <2> QED BY <2>2, <2>3 DEF PrefixesVerify
<1> QED BY <1>2, <1>3

-------------------------------------------------------------------------------
\* Type correctness.

\* The line a gateway is about to write.
LEMMA NextLineType ==
    ASSUME TypeOK, NEW g \in Gateway, pc[g] = "write"
    PROVE  /\ NextLine(g) \in Line
           /\ NextLine(g).event = pending[g] /\ NextLine(g).root = tree[g]
           /\ NextLine(g).index = Len(tree[g]) - 1 /\ NextLine(g).stale = stale[g]
           /\ pending[g] \in Event /\ Readable(NextLine(g))
<1>1. tree[g] \in Seq(Event) /\ tree[g] # <<>> /\ pending[g] = tree[g][Len(tree[g])]
    BY DEF TypeOK
<1>2. Len(tree[g]) - 1 \in Nat /\ pending[g] \in Event
    BY <1>1
<1>3. stale[g] \in BOOLEAN
    BY DEF TypeOK
<1>4. None \notin Event
    BY LedgerAssumption
<1> QED BY <1>1, <1>2, <1>3, <1>4 DEF NextLine, Line, Readable

\* The flags after a write, for every gateway.
LEMMA OutdatedType ==
    ASSUME TypeOK, NEW g \in Gateway
    PROVE  /\ Outdated(g) \in [Gateway -> BOOLEAN]
           /\ \A h \in Gateway : Outdated(g)[h] = (stale[h] \/ (h # g /\ pc[h] # "closed"))
BY DEF TypeOK, Outdated

\* Closing gateways leaves well-typed gateways.
LEMMA ClosedType ==
    ASSUME TypeOK, NEW G, Closed(G)
    PROVE  /\ pc' \in [Gateway -> {"closed", "open", "write"}]
           /\ tree' \in [Gateway -> Seq(Event)]
           /\ pending' \in [Gateway -> Event \cup {None}]
           /\ stale' \in [Gateway -> BOOLEAN]
           /\ \A g \in Gateway : g \in G => pc'[g] = "closed"
           /\ \A g \in Gateway : g \notin G => /\ pc'[g] = pc[g] /\ tree'[g] = tree[g]
                                               /\ pending'[g] = pending[g]
                                               /\ stale'[g] = stale[g]
<1>1. <<>> \in Seq(Event)
    OBVIOUS
<1> QED BY <1>1 DEF TypeOK, Closed

\* What a loss of power leaves of the file.
LEMMA PowerLossFile ==
    ASSUME TypeOK, PowerLoss
    PROVE  /\ file' \in Seq(Line) /\ ended' \in BOOLEAN /\ durable' \in 0..Len(file')
           /\ ~ended' => file' # <<>>
           /\ \E n \in 0..Len(file) :
                 /\ \A i \in 1..n : file'[i] = file[i]
                 /\ \/ Len(file') = n
                    \/ Len(file') = n + 1 /\ file'[n + 1] = Garbage
<1>1. Garbage \in Line
    BY DEF Garbage, Line
<1>2. PICK n \in durable..Len(file) :
          \/ /\ file' = SubSeq(file, 1, n)
             /\ ended' = (ended \/ n < Len(file))
             /\ durable' = n
          \/ /\ n < Len(file)
             /\ file' = Append(SubSeq(file, 1, n), Garbage)
             /\ ended' = FALSE
             /\ durable' = n + 1
    BY DEF PowerLoss
<1>3. file \in Seq(Line) /\ n \in 0..Len(file) /\ ended \in BOOLEAN
    BY DEF TypeOK
<1>4. /\ SubSeq(file, 1, n) \in Seq(Line) /\ Len(SubSeq(file, 1, n)) = n
      /\ \A i \in 1..n : SubSeq(file, 1, n)[i] = file[i]
    BY <1>3
<1> DEFINE s == SubSeq(file, 1, n)
<1> HIDE DEF s
<1>5. CASE file' = s /\ ended' = (ended \/ n < Len(file)) /\ durable' = n
    <2>1. ~ended' => file' # <<>>
        <3> SUFFICES ASSUME ~ended' PROVE file' # <<>>
            OBVIOUS
        <3>1. ~(ended \/ n < Len(file))
            BY <1>5, Zenon
        <3>2. ~ended /\ n = Len(file)
            BY <1>3, <3>1
        <3>3. file # <<>>
            BY <3>2 DEF TypeOK
        <3> QED BY <1>3, <1>4, <1>5, <3>2, <3>3 DEF s
    <2> QED BY <1>3, <1>4, <1>5, <2>1 DEF s
<1>6. CASE file' = Append(s, Garbage) /\ ended' = FALSE /\ durable' = n + 1
    <2>1. s \in Seq(Line) /\ Len(s) = n /\ \A i \in 1..n : s[i] = file[i]
        BY <1>4 DEF s
    <2>2. /\ file' \in Seq(Line) /\ Len(file') = n + 1 /\ file'[n + 1] = Garbage
          /\ \A i \in 1..n : file'[i] = s[i]
        BY <1>1, <1>3, <1>6, <2>1
    <2>3. durable' \in 0..Len(file')
        BY <1>3, <1>6, <2>2
    <2>4. file' # <<>>
        BY <1>3, <2>2
    <2>5. \A i \in 1..n : file'[i] = file[i]
        BY <2>1, <2>2
    <2> QED BY <1>3, <1>6, <2>2, <2>3, <2>4, <2>5
<1> QED BY <1>2, <1>5, <1>6 DEF s

\* The initial state is well typed.
LEMMA TypeInit == Init => TypeOK
BY DEF Init, TypeOK

GatewayTypes ==
    /\ pc \in [Gateway -> {"closed", "open", "write"}]
    /\ tree \in [Gateway -> Seq(Event)]
    /\ pending \in [Gateway -> Event \cup {None}]
    /\ \A g \in Gateway : pc[g] = "write" => /\ tree[g] # <<>>
                                             /\ pending[g] = tree[g][Len(tree[g])]
                                             /\ pending[g] \in used

\* A gateway that returns from WriteEvent.
LEMMA GatewaysIdle ==
    ASSUME TypeOK, NEW g \in Gateway,
           pending' = [pending EXCEPT ![g] = None],
           pc' = [pc EXCEPT ![g] = "open"],
           UNCHANGED <<tree, used>>
    PROVE  GatewayTypes'
BY DEF TypeOK, GatewayTypes

\* Every step keeps the types.
LEMMA TypeStep ==
    ASSUME TypeOK, [Next]_vars
    PROVE  TypeOK'
<1>1. ASSUME NEW g \in Gateway, NewFileWriter(g)
      PROVE  TypeOK'
    <2>1. Leaves(file) \in Seq(Event)
        BY LeavesType DEF TypeOK
    <2> QED BY <1>1, <2>1 DEF NewFileWriter, TypeOK
<1>2. ASSUME NEW g \in Gateway, NEW e \in Event, AppendEvent(g, e)
      PROVE  TypeOK'
    <2> DEFINE t == Append(tree[g], e)
    <2>1. tree[g] \in Seq(Event)
        BY DEF TypeOK
    <2>2. t \in Seq(Event) /\ t # <<>> /\ t[Len(t)] = e
        BY <2>1
    <2>3. tree' = [tree EXCEPT ![g] = t]
        BY <1>2 DEF AppendEvent
    <2> HIDE DEF t
    <2>4. /\ pc' \in [Gateway -> {"closed", "open", "write"}]
          /\ tree' \in [Gateway -> Seq(Event)]
          /\ pending' \in [Gateway -> Event \cup {None}]
        BY <1>2, <2>2, <2>3 DEF AppendEvent, TypeOK
    <2>5. \A h \in Gateway : pc'[h] = "write" => /\ tree'[h] # <<>>
                                                /\ pending'[h] = tree'[h][Len(tree'[h])]
                                                /\ pending'[h] \in used'
        BY <1>2, <2>2, <2>3 DEF AppendEvent, TypeOK
    <2> QED BY <1>2, <2>4, <2>5 DEF AppendEvent, TypeOK
<1>3. ASSUME NEW g \in Gateway, WriteLine(g)
      PROVE  TypeOK'
    <2>1. pc[g] = "write" /\ file' = Extended(NextLine(g)) /\ stale' = Outdated(g)
        BY <1>3 DEF WriteLine
    <2>2. file' \in Seq(Line) /\ Len(file) <= Len(file')
        BY <2>1, NextLineType, ExtendedLines
    <2>3. stale' \in [Gateway -> BOOLEAN]
        BY <2>1, OutdatedType
    <2>4. pending[g] \in used
        BY <2>1 DEF TypeOK
    <2>5. /\ ended' = TRUE /\ used' = used /\ acked' = acked \cup {pending[g]}
          /\ unsynced' \subseteq unsynced \cup {pending[g]}
          /\ durable' \in {durable, Len(file')}
        BY <1>3 DEF WriteLine
    <2>6. durable' \in 0..Len(file')
        BY <2>2, <2>5 DEF TypeOK
    <2>7. GatewayTypes'
        BY <1>3, GatewaysIdle DEF WriteLine
    <2> QED BY <2>2, <2>3, <2>4, <2>5, <2>6, <2>7 DEF TypeOK, GatewayTypes
<1>4. ASSUME NEW g \in Gateway, NEW fault \in Fault, WriteFails(g, fault)
      PROVE  TypeOK'
    <2>1. pc[g] = "write" /\ fault \in Fault
        BY <1>4 DEF WriteFails
    <2>2. NextLine(g) \in Line /\ Garbage \in Line
        BY <2>1, NextLineType DEF Garbage, Line
    <2>3. /\ file' \in Seq(Line) /\ ended' \in BOOLEAN
          /\ ~ended' => file' # <<>>
          /\ Len(file) <= Len(file')
        <3>1. CASE fault = "nothing"
            BY <1>4, <3>1 DEF WriteFails, TypeOK
        <3>2. CASE fault = "part"
            BY <1>4, <2>2, <3>2, ExtendedLines DEF WriteFails
        <3>3. CASE fault = "unterminated"
            BY <1>4, <2>2, <3>3, ExtendedLines DEF WriteFails
        <3> QED BY <2>1, <3>1, <3>2, <3>3 DEF Fault
    <2>4. stale' \in [Gateway -> BOOLEAN]
        <3>1. stale \in [Gateway -> BOOLEAN] /\ Outdated(g) \in [Gateway -> BOOLEAN]
            BY OutdatedType DEF TypeOK
        <3>2. stale' \in {[stale EXCEPT ![g] = TRUE], [Outdated(g) EXCEPT ![g] = TRUE], Outdated(g)}
            BY <1>4, <2>1 DEF WriteFails, Fault
        <3> QED BY <3>1, <3>2
    <2>5. UNCHANGED <<durable, used, acked, unsynced>>
        BY <1>4 DEF WriteFails
    <2>6. durable' \in 0..Len(file')
        BY <2>3, <2>5 DEF TypeOK
    <2>7. GatewayTypes'
        BY <1>4, GatewaysIdle DEF WriteFails
    <2> QED BY <2>3, <2>4, <2>5, <2>6, <2>7 DEF TypeOK, GatewayTypes
<1>5. ASSUME NEW g \in Gateway, Close(g) \/ Crash(g)
      PROVE  TypeOK'
    <2>1. Closed({g}) /\ UNCHANGED <<file, ended, durable, used, acked, unsynced>>
        BY <1>5 DEF Close, Crash
    <2> QED BY <2>1, ClosedType DEF TypeOK
<1>6. ASSUME PowerLoss
      PROVE  TypeOK'
    <2>1. Closed(Gateway) /\ UNCHANGED <<used, acked, unsynced>>
        BY <1>6 DEF PowerLoss
    <2> QED BY <1>6, <2>1, ClosedType, PowerLossFile DEF TypeOK
<1>7. ASSUME UNCHANGED vars
      PROVE  TypeOK'
    BY <1>7 DEF vars, TypeOK
<1> QED BY <1>1, <1>2, <1>3, <1>4, <1>5, <1>6, <1>7 DEF Next

\* The types hold in every reachable state (TypeOK).
THEOREM TypeCorrect == Spec => []TypeOK
<1>1. Init => TypeOK
    BY TypeInit
<1>2. TypeOK /\ [Next]_vars => TypeOK'
    BY TypeStep
<1> QED BY <1>1, <1>2, PTL DEF Spec

-------------------------------------------------------------------------------
\* A ledger of sound lines verifies.

\* A gateway that is not stale writes the line the verifier expects.
LEMMA NextLineExpected ==
    ASSUME SoundInv, NEW g \in Gateway, pc[g] = "write", AllSound(file), Sound(NextLine(g))
    PROVE  /\ NextLine(g).index = Len(file)
           /\ NextLine(g).root = Append(Events(file), NextLine(g).event)
<1>1. TypeOK /\ ~stale[g]
    BY NextLineType DEF SoundInv, Sound
<1>2. tree[g] = Append(Events(file), pending[g])
    BY <1>1 DEF SoundInv, TreesMatch, TreeOf
<1>3. AllReadable(file) /\ file \in Seq(Line)
    BY <1>1 DEF AllSound, AllReadable, Sound, TypeOK
<1>4. Events(file) \in Seq(Event) /\ Len(Events(file)) = Len(file) /\ Len(file) \in Nat
    BY <1>3, EventsType
<1>5. Len(Append(Events(file), pending[g])) = Len(file) + 1
    BY <1>1, <1>4, NextLineType
<1> QED BY <1>1, <1>2, <1>4, <1>5, NextLineType

\* A write of the whole line, with or without its newline.
LEMMA WriteSound ==
    ASSUME SoundInv, NEW g \in Gateway, pc[g] = "write",
           file' = Extended(NextLine(g)),
           pc' = [pc EXCEPT ![g] = "open"],
           stale' = Outdated(g),
           UNCHANGED tree
    PROVE  PrefixesVerify(file)' /\ TreesMatch'
<1>1. TypeOK /\ PrefixesVerify(file) /\ NextLine(g) \in Line
    BY NextLineType DEF SoundInv
<1>2. AllSound(file) /\ ended /\ Sound(NextLine(g)) =>
          /\ NextLine(g).index = Len(file)
          /\ NextLine(g).root = Append(Events(file), NextLine(g).event)
    BY NextLineExpected
<1>3. /\ PrefixesVerify(file')
      /\ AllSound(file') => /\ AllSound(file) /\ ended /\ Sound(NextLine(g))
                            /\ Events(file') = Append(Events(file), NextLine(g).event)
    BY <1>1, <1>2, ExtendedSound
<1>4. ASSUME NEW h \in Gateway, AllSound(file'), pc'[h] # "closed", ~stale'[h]
      PROVE  tree'[h] = TreeOf(h)'
    <2>1. h = g /\ ~stale[g]
        <3>1. ~(stale[h] \/ (h # g /\ pc[h] # "closed"))
            BY <1>1, <1>4, OutdatedType
        <3>2. h # g => pc'[h] = pc[h]
            BY <1>1 DEF TypeOK
        <3> QED BY <1>4, <3>1, <3>2
    <2>2. tree[g] = Append(Events(file), pending[g])
        BY <1>3, <1>4, <2>1 DEF SoundInv, TreesMatch, TreeOf
    <2>3. pc'[g] = "open"
        BY <1>1 DEF TypeOK
    <2>4. NextLine(g).event = pending[g]
        BY <1>1, NextLineType
    <2> QED BY <1>3, <1>4, <2>1, <2>2, <2>3, <2>4 DEF TreeOf
<1> QED BY <1>3, <1>4 DEF TreesMatch

\* A file that keeps a prefix and gains at most a torn line.
LEMMA PrefixSound ==
    ASSUME file \in Seq(Line), PrefixesVerify(file), NEW f \in Seq(Line), NEW n \in 0..Len(file),
           \A i \in 1..n : f[i] = file[i],
           Len(f) = n \/ (Len(f) = n + 1 /\ f[n + 1] = Garbage)
    PROVE  PrefixesVerify(f)
<1> SUFFICES ASSUME NEW i \in DOMAIN f, \A j \in 1..i : Sound(f[j])
             PROVE  f[i].index = i - 1 /\ f[i].root = [k \in 1..i |-> f[k].event]
    BY DEF PrefixesVerify
<1>1. i \in 1..i /\ i \in 1..n
    BY GarbageUnsound
<1>2. i \in DOMAIN file /\ \A j \in 1..i : f[j] = file[j]
    BY <1>1
<1> QED BY <1>1, <1>2, PrefixUnchanged

\* The initial state satisfies the invariant.
LEMMA SoundInit == Init => SoundInv
BY TypeInit DEF Init, SoundInv, PrefixesVerify, TreesMatch

\* Every step keeps the invariant.
LEMMA SoundStep ==
    ASSUME SoundInv, [Next]_vars
    PROVE  SoundInv'
<1>1. TypeOK /\ TypeOK' /\ PrefixesVerify(file) /\ TreesMatch
    BY TypeStep DEF SoundInv
<1>2. ASSUME NEW g \in Gateway, NewFileWriter(g)
      PROVE  PrefixesVerify(file)' /\ TreesMatch'
    <2>1. /\ UNCHANGED <<file, pending>>
          /\ pc' = [pc EXCEPT ![g] = "open"]
          /\ tree' = [tree EXCEPT ![g] = Leaves(file)]
          /\ stale' = [stale EXCEPT ![g] = FALSE]
        BY <1>2 DEF NewFileWriter
    <2>2. ASSUME NEW h \in Gateway, AllSound(file), pc'[h] # "closed", ~stale'[h]
          PROVE  tree'[h] = TreeOf(h)'
        <3>1. CASE h = g
            <4>1. AllReadable(file) /\ file \in Seq(Line)
                BY <1>1, <2>2 DEF AllSound, AllReadable, Sound, TypeOK
            <4>2. Leaves(file) = Events(file)
                BY <4>1, LeavesReadable
            <4> QED BY <1>1, <2>1, <3>1, <4>2 DEF TreeOf, TypeOK
        <3>2. CASE h # g
            <4>1. pc'[h] = pc[h] /\ tree'[h] = tree[h] /\ stale'[h] = stale[h]
                BY <1>1, <2>1, <3>2 DEF TypeOK
            <4> QED BY <1>1, <2>1, <2>2, <4>1 DEF TreesMatch, TreeOf
        <3> QED BY <3>1, <3>2
    <2> QED BY <1>1, <2>1, <2>2 DEF TreesMatch
<1>3. ASSUME NEW g \in Gateway, NEW e \in Event, AppendEvent(g, e)
      PROVE  PrefixesVerify(file)' /\ TreesMatch'
    <2>1. /\ UNCHANGED <<file, stale>> /\ pc[g] = "open"
          /\ pc' = [pc EXCEPT ![g] = "write"]
          /\ tree' = [tree EXCEPT ![g] = Append(tree[g], e)]
          /\ pending' = [pending EXCEPT ![g] = e]
        BY <1>3 DEF AppendEvent
    <2>2. ASSUME NEW h \in Gateway, AllSound(file), pc'[h] # "closed", ~stale[h]
          PROVE  tree'[h] = TreeOf(h)'
        <3>1. CASE h = g
            <4>1. pc'[g] = "write" /\ pending'[g] = e /\ tree'[g] = Append(tree[g], e)
                BY <1>1, <2>1 DEF TypeOK
            <4>2. tree[g] = Events(file)
                BY <1>1, <2>1, <2>2, <3>1 DEF TreesMatch, TreeOf
            <4> QED BY <2>1, <3>1, <4>1, <4>2 DEF TreeOf
        <3>2. CASE h # g
            <4>1. pc'[h] = pc[h] /\ tree'[h] = tree[h] /\ pending'[h] = pending[h]
                BY <1>1, <2>1, <3>2 DEF TypeOK
            <4> QED BY <1>1, <2>1, <2>2, <4>1 DEF TreesMatch, TreeOf
        <3> QED BY <3>1, <3>2
    <2> QED BY <1>1, <2>1, <2>2 DEF TreesMatch
<1>4. ASSUME NEW g \in Gateway, WriteLine(g)
      PROVE  PrefixesVerify(file)' /\ TreesMatch'
    <2>1. /\ pc[g] = "write" /\ file' = Extended(NextLine(g)) /\ stale' = Outdated(g)
          /\ pc' = [pc EXCEPT ![g] = "open"] /\ UNCHANGED tree
        BY <1>4 DEF WriteLine
    <2> QED BY <2>1, WriteSound
<1>5. ASSUME NEW g \in Gateway, NEW fault \in Fault, WriteFails(g, fault)
      PROVE  PrefixesVerify(file)' /\ TreesMatch'
    <2>1. /\ pc[g] = "write" /\ pc' = [pc EXCEPT ![g] = "open"] /\ UNCHANGED tree
          /\ pending' = [pending EXCEPT ![g] = None]
        BY <1>5 DEF WriteFails
    <2>2. CASE fault = "nothing"
        <3>1. UNCHANGED file /\ stale' = [stale EXCEPT ![g] = TRUE]
            BY <1>5, <2>2 DEF WriteFails
        <3>2. ASSUME NEW h \in Gateway, AllSound(file), pc'[h] # "closed", ~stale'[h]
              PROVE  tree'[h] = TreeOf(h)'
            <4>1. h # g
                BY <1>1, <3>1, <3>2 DEF TypeOK
            <4>2. /\ pc'[h] = pc[h] /\ tree'[h] = tree[h] /\ stale'[h] = stale[h]
                  /\ pending'[h] = pending[h]
                BY <1>1, <2>1, <3>1, <4>1 DEF TypeOK
            <4> QED BY <1>1, <3>1, <3>2, <4>2 DEF TreesMatch, TreeOf
        <3> QED BY <1>1, <3>1, <3>2 DEF TreesMatch
    <2>3. CASE fault = "part"
        <3>1. file' = Extended(Garbage)
            BY <1>5, <2>3 DEF WriteFails
        <3>2. Garbage \in Line
            BY DEF Garbage, Line
        <3>3. PrefixesVerify(file') /\ ~AllSound(file')
            BY <1>1, <3>1, <3>2, ExtendedSound, GarbageUnsound
        <3> QED BY <3>3 DEF TreesMatch
    <2>4. CASE fault = "unterminated"
        <3>1. file' = Extended(NextLine(g)) /\ stale' = Outdated(g)
            BY <1>5, <2>4 DEF WriteFails
        <3> QED BY <2>1, <3>1, WriteSound
    <2> QED BY <2>2, <2>3, <2>4 DEF Fault
<1>6. ASSUME NEW g \in Gateway, Close(g) \/ Crash(g)
      PROVE  PrefixesVerify(file)' /\ TreesMatch'
    <2>1. Closed({g}) /\ UNCHANGED file
        BY <1>6 DEF Close, Crash
    <2>2. ASSUME NEW h \in Gateway, AllSound(file), pc'[h] # "closed", ~stale'[h]
          PROVE  tree'[h] = TreeOf(h)'
        <3>1. h \notin {g}
            BY <1>1, <2>1, <2>2, ClosedType
        <3>2. /\ pc'[h] = pc[h] /\ tree'[h] = tree[h] /\ stale'[h] = stale[h]
              /\ pending'[h] = pending[h]
            BY <1>1, <2>1, <3>1, ClosedType
        <3> QED BY <1>1, <2>1, <2>2, <3>2 DEF TreesMatch, TreeOf
    <2> QED BY <1>1, <2>1, <2>2 DEF TreesMatch
<1>7. ASSUME PowerLoss
      PROVE  PrefixesVerify(file)' /\ TreesMatch'
    <2>1. PICK n \in 0..Len(file) :
              /\ \A i \in 1..n : file'[i] = file[i]
              /\ Len(file') = n \/ (Len(file') = n + 1 /\ file'[n + 1] = Garbage)
        BY <1>1, <1>7, PowerLossFile
    <2>2. file \in Seq(Line) /\ file' \in Seq(Line)
        BY <1>1 DEF TypeOK
    <2>3. PrefixesVerify(file')
        BY <1>1, <2>1, <2>2, PrefixSound
    <2>4. \A h \in Gateway : pc'[h] = "closed"
        BY <1>1, <1>7, ClosedType DEF PowerLoss
    <2> QED BY <2>3, <2>4 DEF TreesMatch
<1>8. ASSUME UNCHANGED vars
      PROVE  PrefixesVerify(file)' /\ TreesMatch'
    BY <1>1, <1>8 DEF vars, TreesMatch, TreeOf
<1> QED BY <1>1, <1>2, <1>3, <1>4, <1>5, <1>6, <1>7, <1>8 DEF Next, SoundInv

\* What the invariant says of the verifier.
LEMMA SoundVerifies == SoundInv => SoundLedgerVerifies
<1> SUFFICES ASSUME SoundInv, AllSound(file), NEW i \in DOMAIN file
             PROVE  LineVerifies(file, i)
    BY DEF SoundLedgerVerifies, AllSound, VerifyLogFile
<1>1. file \in Seq(Line) /\ PrefixesVerify(file) /\ i \in 1..Len(file)
    BY DEF SoundInv, TypeOK
<1> DEFINE f == SubSeq(file, 1, i)
<1>2. f \in Seq(Line) /\ Len(f) = i /\ \A k \in 1..i : f[k] = file[k]
    BY <1>1
<1>3. \A k \in 1..i : Sound(file[k])
    BY <1>1 DEF AllSound
<1>4. AllReadable(f)
    BY <1>2, <1>3 DEF AllReadable, Sound
<1>5. Leaves(f) = Events(f)
    BY <1>2, <1>4, LeavesReadable
<1>6. Events(f) = [k \in 1..i |-> file[k].event]
    BY <1>2 DEF Events
<1>7. file[i].index = i - 1 /\ file[i].root = [k \in 1..i |-> file[k].event]
    BY <1>1, <1>3 DEF PrefixesVerify
<1>8. Readable(file[i])
    BY <1>1, <1>3 DEF Sound
<1> QED BY <1>5, <1>6, <1>7, <1>8 DEF LineVerifies

\* krypton audit verify accepts every file of sound lines, after any number of
\* restarts, crashes and lost tails (SoundLedgerVerifies).
THEOREM HonestLedgerVerifies == Spec => []SoundLedgerVerifies
<1>1. Init => SoundInv
    BY SoundInit
<1>2. SoundInv /\ [Next]_vars => SoundInv'
    BY SoundStep
<1>3. SoundInv => SoundLedgerVerifies
    BY SoundVerifies
<1> QED BY <1>1, <1>2, <1>3, PTL DEF Spec

-------------------------------------------------------------------------------
\* A ledger with damage does not verify.

\* The tree t and the first m lines of f have gone apart: t holds an event other
\* than x that no line has, or a line has an event that t does not hold.
Lost(f, m, t, x) == \E n \in DOMAIN t : t[n] # x /\ \A i \in 1..m : f[i].event # t[n]

Missed(f, m, t) == \E i \in 1..m : \A n \in DOMAIN t : t[n] # f[i].event

Apart(f, m, t, x) == Lost(f, m, t, x) \/ Missed(f, m, t)

\* The root of every line that a stale gateway wrote is wrong.
LinesShow(f) == \A i \in 1..Len(f) : f[i].stale => Apart(f, i, f[i].root, None)

\* Every event in a line or in a tree was handed to WriteEvent, and an event
\* that is not written yet is in one tree and in no line.
EventsKnown ==
    /\ \A i \in 1..Len(file) : file[i].event \in used \cup {None}
    /\ \A g \in Gateway : \A n \in DOMAIN tree[g] : tree[g][n] \in used
    /\ \A g \in Gateway : pc[g] # "write" => pending[g] = None
    /\ \A g \in Gateway : pc[g] = "write" =>
          /\ \A i \in 1..Len(file) : file[i].event # pending[g]
          /\ \A h \in Gateway \ {g} : \A n \in DOMAIN tree[h] : tree[h][n] # pending[g]

\* The tree of a stale gateway and the file have gone apart for good.
StaleApart ==
    \A g \in Gateway :
        pc[g] # "closed" /\ stale[g] => Apart(file, Len(file), tree[g], pending[g])

\* The inductive invariant behind DamageIsReported.
DamageInv == TypeOK /\ EventsKnown /\ StaleApart /\ LinesShow(file)

\* A tree holds no line that cannot be read.
LEMMA GarbageMissed ==
    ASSUME NEW f, NEW m \in Nat, NEW i \in 1..m, f[i] = Garbage, NEW t \in Seq(Event), NEW x
    PROVE  Apart(f, m, t, x)
<1>1. \A n \in DOMAIN t : t[n] # f[i].event
    BY LedgerAssumption DEF Garbage
<1> QED BY <1>1 DEF Apart, Missed

\* The same lines tell the same.
LEMMA ApartUnchanged ==
    ASSUME NEW f, NEW h, NEW m \in Nat, \A i \in 1..m : h[i] = f[i], NEW t, NEW x,
           Apart(f, m, t, x)
    PROVE  Apart(h, m, t, x)
BY DEF Apart, Lost, Missed

\* A line whose event is x ends the exemption of x.
LEMMA ApartExtended ==
    ASSUME NEW f, NEW h, NEW m \in Nat, \A i \in 1..m : h[i] = f[i], NEW t, NEW x,
           h[m + 1].event = x,
           \A n \in DOMAIN t : t[n] # None,
           Apart(f, m, t, x)
    PROVE  Apart(h, m + 1, t, None)
<1>1. CASE Lost(f, m, t, x)
    <2>1. PICK n \in DOMAIN t : t[n] # x /\ \A i \in 1..m : f[i].event # t[n]
        BY <1>1 DEF Lost
    <2>2. \A i \in 1..m + 1 : h[i].event # t[n]
        BY <2>1
    <2> QED BY <2>1, <2>2 DEF Apart, Lost
<1>2. CASE Missed(f, m, t)
    BY <1>2 DEF Apart, Missed
<1> QED BY <1>1, <1>2 DEF Apart

\* An append keeps what the lines show.
LEMMA ExtendedShows ==
    ASSUME TypeOK, LinesShow(file), NEW line \in Line, NEW f, f = Extended(line),
           ended /\ line.stale => Apart(f, Len(file) + 1, line.root, None)
    PROVE  LinesShow(f)
<1> SUFFICES ASSUME NEW i \in 1..Len(f), f[i].stale
             PROVE  Apart(f, i, f[i].root, None)
    BY DEF LinesShow
<1>1. file \in Seq(Line) /\ Len(file) \in Nat
    BY DEF TypeOK
<1>2. ~Garbage.stale
    BY DEF Garbage
<1>3. CASE i \in 1..Len(file) /\ \A j \in 1..i : f[j] = file[j]
    <2>1. f[i] = file[i] /\ Apart(file, i, file[i].root, None)
        BY <1>3 DEF LinesShow
    <2>2. i \in Nat /\ \A j \in 1..i : f[j] = file[j]
        BY <1>1, <1>3
    <2>3. Apart(f, i, file[i].root, None)
        BY ONLY <2>1, <2>2, ApartUnchanged
    <2> QED BY <2>1, <2>3
<1>4. CASE i = Len(f)
    <2>1. ended
        BY <1>2, <1>4, ExtendedLines
    <2>2. f[i] = line /\ i = Len(file) + 1
        BY <1>4, <2>1, ExtendedLines
    <2> QED BY <2>1, <2>2
<1>5. i # Len(f) => i \in 1..Len(file) /\ \A j \in 1..i : f[j] = file[j]
    <2>1. f \in Seq(Line) /\ Len(f) \in Nat
        BY ExtendedLines
    <2>2. CASE ended
        <3>1. Len(f) = Len(file) + 1 /\ \A j \in 1..Len(file) : f[j] = file[j]
            BY <2>2, ExtendedLines
        <3> QED BY <1>1, <3>1
    <2>3. CASE ~ended
        <3>1. Len(f) = Len(file) /\ \A j \in 1..Len(file) : j # Len(file) => f[j] = file[j]
            BY <2>3, ExtendedLines
        <3> QED BY <1>1, <3>1
    <2> QED BY <2>2, <2>3
<1> QED BY <1>3, <1>4, <1>5

\* A write of the whole line, with or without its newline.
LEMMA WriteShows ==
    ASSUME DamageInv, TypeOK', NEW g \in Gateway, pc[g] = "write",
           file' = Extended(NextLine(g)),
           pc' = [pc EXCEPT ![g] = "open"],
           pending' = [pending EXCEPT ![g] = None],
           stale' = Outdated(g),
           UNCHANGED <<tree, used>>
    PROVE  DamageInv'
<1>1. /\ TypeOK /\ NextLine(g) \in Line /\ pending[g] \in Event /\ pending[g] \in used
      /\ NextLine(g).event = pending[g] /\ NextLine(g).root = tree[g]
      /\ NextLine(g).stale = stale[g]
    BY NextLineType DEF DamageInv, TypeOK
<1>2. /\ file \in Seq(Line) /\ Len(file) \in Nat /\ Len(file') \in Nat
      /\ \A h \in Gateway : tree[h] \in Seq(Event)
    BY <1>1 DEF TypeOK
<1>3. \A h \in Gateway : \A n \in DOMAIN tree[h] : tree[h][n] # None
    BY <1>2, LedgerAssumption
<1>4. ended => /\ Len(file') = Len(file) + 1 /\ file'[Len(file) + 1] = NextLine(g)
               /\ \A i \in 1..Len(file) : file'[i] = file[i]
    BY <1>1, ExtendedLines
<1>5. ~ended => /\ Len(file') = Len(file) /\ Len(file') \in 1..Len(file')
                /\ file'[Len(file')] = Garbage
                /\ \A i \in 1..Len(file) : i # Len(file) => file'[i] = file[i]
    BY <1>1, <1>2, ExtendedLines
<1>6. ended /\ stale[g] => Apart(file', Len(file) + 1, tree[g], None)
    <2> SUFFICES ASSUME ended, stale[g] PROVE Apart(file', Len(file) + 1, tree[g], None)
        OBVIOUS
    <2>1. Apart(file, Len(file), tree[g], pending[g])
        BY DEF DamageInv, StaleApart
    <2>2. file'[Len(file) + 1].event = pending[g]
        BY <1>1, <1>4
    <2>3. \A i \in 1..Len(file) : file'[i] = file[i]
        BY <1>4
    <2>4. \A n \in DOMAIN tree[g] : tree[g][n] # None
        BY <1>3
    <2> QED BY <1>2, <2>1, <2>2, <2>3, <2>4, ApartExtended
<1>7. LinesShow(file')
    BY <1>1, <1>6, ExtendedShows DEF DamageInv
<1>8. \A i \in 1..Len(file') : file'[i].event \in used \cup {None}
    <2>1. Garbage.event = None
        BY DEF Garbage
    <2>2. \A i \in 1..Len(file) : file[i].event \in used \cup {None}
        BY DEF DamageInv, EventsKnown
    <2> QED BY <1>1, <1>2, <1>4, <1>5, <2>1, <2>2
<1>9. ASSUME NEW h \in Gateway
      PROVE  /\ pc'[h] = IF h = g THEN "open" ELSE pc[h]
             /\ pending'[h] = IF h = g THEN None ELSE pending[h]
    BY <1>1 DEF TypeOK
<1>10. ASSUME NEW h \in Gateway, pc'[h] = "write"
       PROVE  /\ \A i \in 1..Len(file') : file'[i].event # pending'[h]
              /\ \A k \in Gateway \ {h} : \A n \in DOMAIN tree'[k] : tree'[k][n] # pending'[h]
    <2>1. h # g /\ pc[h] = "write" /\ pending'[h] = pending[h]
        BY <1>9, <1>10
    <2>2. pending[h] # pending[g] /\ pending[h] # None
        <3>1. pending[g] = tree[g][Len(tree[g])] /\ tree[g] # <<>>
            BY <1>1 DEF TypeOK
        <3>2. Len(tree[g]) \in DOMAIN tree[g]
            BY <1>2, <3>1
        <3>3. tree[g][Len(tree[g])] # pending[h]
            BY <2>1, <3>2 DEF DamageInv, EventsKnown
        <3> QED BY <1>1, <2>1, <3>1, <3>3, NextLineType, LedgerAssumption
    <2>3. \A i \in 1..Len(file) : file[i].event # pending[h]
        BY <2>1 DEF DamageInv, EventsKnown
    <2>4. \A k \in Gateway \ {h} : \A n \in DOMAIN tree[k] : tree[k][n] # pending[h]
        BY <2>1 DEF DamageInv, EventsKnown
    <2>5. Garbage.event = None
        BY DEF Garbage
    <2>6. \A i \in 1..Len(file') : file'[i].event # pending[h]
        BY <1>1, <1>2, <1>4, <1>5, <2>2, <2>3, <2>5
    <2> QED BY <2>1, <2>4, <2>6
<1>11. EventsKnown'
    BY <1>8, <1>9, <1>10 DEF DamageInv, EventsKnown
<1>12. ASSUME NEW h \in Gateway, pc'[h] # "closed", stale'[h]
       PROVE  Apart(file', Len(file'), tree[h], pending'[h])
    <2>1. CASE ~ended
        BY <1>2, <1>5, <2>1, GarbageMissed
    <2>2. CASE ended /\ h = g
        <3>1. stale[g]
            BY <1>1, <1>12, <2>2, OutdatedType
        <3> QED BY <1>4, <1>6, <1>9, <2>2, <3>1
    <2>3. CASE ended /\ h # g
        <3>1. \A n \in DOMAIN tree[h] : tree[h][n] # pending[g]
            BY <2>3 DEF DamageInv, EventsKnown
        <3>2. Len(file') \in 1..Len(file') /\ file'[Len(file')].event = pending[g]
            BY <1>1, <1>2, <1>4, <2>3
        <3> QED BY <3>1, <3>2 DEF Apart, Missed
    <2> QED BY <2>1, <2>2, <2>3
<1> QED BY <1>7, <1>11, <1>12 DEF DamageInv, StaleApart

\* The initial state satisfies the invariant.
LEMMA DamageInit == Init => DamageInv
BY TypeInit DEF Init, DamageInv, EventsKnown, StaleApart, LinesShow

\* A gateway that closes takes its event with it.
LEMMA ClosedShows ==
    ASSUME DamageInv, NEW g \in Gateway, Closed({g}), UNCHANGED <<file, used>>, TypeOK'
    PROVE  DamageInv'
<1>1. TypeOK
    BY DEF DamageInv
<1>2. ASSUME NEW h \in Gateway \ {g}
      PROVE  /\ pc'[h] = pc[h] /\ tree'[h] = tree[h] /\ pending'[h] = pending[h]
             /\ stale'[h] = stale[h]
    BY <1>1, <1>2, ClosedType
<1>3. pc'[g] = "closed" /\ pending'[g] = None /\ tree'[g] = <<>>
    BY DEF Closed
<1>4. EventsKnown'
    <2>1. \A h \in Gateway : \A n \in DOMAIN tree'[h] : tree'[h][n] \in used
        BY <1>2, <1>3 DEF DamageInv, EventsKnown
    <2>2. \A h \in Gateway : pc'[h] # "write" => pending'[h] = None
        BY <1>2, <1>3 DEF DamageInv, EventsKnown
    <2>3. ASSUME NEW h \in Gateway, pc'[h] = "write"
          PROVE  /\ \A i \in 1..Len(file) : file[i].event # pending'[h]
                 /\ \A k \in Gateway \ {h} : \A n \in DOMAIN tree'[k] : tree'[k][n] # pending'[h]
        BY <1>2, <1>3, <2>3 DEF DamageInv, EventsKnown
    <2> QED BY <2>1, <2>2, <2>3 DEF DamageInv, EventsKnown
<1>5. StaleApart'
    BY <1>2, <1>3 DEF DamageInv, StaleApart
<1> QED BY <1>4, <1>5 DEF DamageInv

\* Every step keeps the invariant.
LEMMA DamageStep ==
    ASSUME DamageInv, [Next]_vars
    PROVE  DamageInv'
<1>1. TypeOK /\ TypeOK' /\ EventsKnown /\ StaleApart /\ LinesShow(file)
    BY TypeStep DEF DamageInv
<1>2. ASSUME NEW g \in Gateway, NewFileWriter(g)
      PROVE  DamageInv'
    <2>1. /\ UNCHANGED <<file, pending, used>>
          /\ pc[g] = "closed"
          /\ pc' = [pc EXCEPT ![g] = "open"]
          /\ tree' = [tree EXCEPT ![g] = Leaves(file)]
          /\ stale' = [stale EXCEPT ![g] = FALSE]
        BY <1>2 DEF NewFileWriter
    <2>2. \A h \in Gateway : h # g => /\ pc'[h] = pc[h] /\ tree'[h] = tree[h]
                                      /\ stale'[h] = stale[h]
        BY <1>1, <2>1 DEF TypeOK
    <2>3. pc'[g] = "open" /\ tree'[g] = Leaves(file) /\ ~stale'[g]
        BY <1>1, <2>1 DEF TypeOK
    <2>4. file \in Seq(Line) /\ Leaves(file) \in Seq(Event)
        BY <1>1, LeavesType DEF TypeOK
    <2>5. ASSUME NEW n \in DOMAIN Leaves(file)
          PROVE  \E i \in 1..Len(file) : file[i].event = Leaves(file)[n]
        BY <2>4, LeavesFromLines
    <2>6. \A n \in DOMAIN Leaves(file) : Leaves(file)[n] \in used
        <3>1. \A n \in DOMAIN Leaves(file) : Leaves(file)[n] # None
            BY <2>4, LedgerAssumption
        <3> QED BY <1>1, <2>5, <3>1 DEF EventsKnown
    <2>7. ASSUME NEW h \in Gateway, pc'[h] = "write"
          PROVE  /\ \A i \in 1..Len(file) : file[i].event # pending'[h]
                 /\ \A k \in Gateway \ {h} : \A n \in DOMAIN tree'[k] : tree'[k][n] # pending'[h]
        <3>1. h # g /\ pc[h] = "write" /\ pending'[h] = pending[h]
            BY <2>1, <2>2, <2>3, <2>7
        <3>2. \A i \in 1..Len(file) : file[i].event # pending[h]
            BY <1>1, <3>1 DEF EventsKnown
        <3>3. \A n \in DOMAIN Leaves(file) : Leaves(file)[n] # pending[h]
            BY <2>5, <3>2
        <3>4. \A k \in Gateway \ {h} : \A n \in DOMAIN tree[k] : tree[k][n] # pending[h]
            BY <1>1, <3>1 DEF EventsKnown
        <3> QED BY <2>2, <2>3, <3>1, <3>2, <3>3, <3>4
    <2>8. EventsKnown'
        <3>1. \A h \in Gateway : \A n \in DOMAIN tree'[h] : tree'[h][n] \in used
            BY <1>1, <2>2, <2>3, <2>6 DEF EventsKnown
        <3>2. \A h \in Gateway : pc'[h] # "write" => pending'[h] = None
            BY <1>1, <2>1, <2>2, <2>3 DEF EventsKnown
        <3> QED BY <1>1, <2>1, <2>7, <3>1, <3>2 DEF EventsKnown
    <2>9. StaleApart'
        BY <1>1, <2>1, <2>2, <2>3 DEF StaleApart
    <2> QED BY <1>1, <2>1, <2>8, <2>9 DEF DamageInv
<1>3. ASSUME NEW g \in Gateway, NEW e \in Event, AppendEvent(g, e)
      PROVE  DamageInv'
    <2> DEFINE t == Append(tree[g], e)
    <2>1. /\ UNCHANGED <<file, stale>> /\ pc[g] = "open" /\ e \notin used
          /\ used' = used \cup {e}
          /\ pc' = [pc EXCEPT ![g] = "write"]
          /\ tree' = [tree EXCEPT ![g] = t]
          /\ pending' = [pending EXCEPT ![g] = e]
        BY <1>3 DEF AppendEvent
    <2>2. tree[g] \in Seq(Event) /\ \A n \in DOMAIN tree[g] : tree[g][n] \in used
        BY <1>1 DEF TypeOK, EventsKnown
    <2>3. /\ DOMAIN tree[g] \subseteq DOMAIN t
          /\ \A n \in DOMAIN tree[g] : t[n] = tree[g][n]
          /\ \A n \in DOMAIN t : n \in DOMAIN tree[g] \/ t[n] = e
        BY <2>2
    <2> HIDE DEF t
    <2>4. \A h \in Gateway : h # g => /\ pc'[h] = pc[h] /\ tree'[h] = tree[h]
                                      /\ pending'[h] = pending[h]
        BY <1>1, <2>1 DEF TypeOK
    <2>5. pc'[g] = "write" /\ tree'[g] = t /\ pending'[g] = e
        BY <1>1, <2>1 DEF TypeOK
    <2>6. \A i \in 1..Len(file) : file[i].event # e
        BY <1>1, <2>1, LedgerAssumption DEF EventsKnown
    <2>7. \A n \in DOMAIN t : t[n] \in used \cup {e}
        BY <2>2, <2>3
    <2>8. ASSUME NEW h \in Gateway, pc'[h] = "write"
          PROVE  /\ \A i \in 1..Len(file) : file[i].event # pending'[h]
                 /\ \A k \in Gateway \ {h} : \A n \in DOMAIN tree'[k] : tree'[k][n] # pending'[h]
        <3>1. CASE h = g
            <4>1. \A k \in Gateway \ {g} : \A n \in DOMAIN tree[k] : tree[k][n] # e
                BY <1>1, <2>1 DEF EventsKnown
            <4> QED BY <2>4, <2>5, <2>6, <3>1, <4>1
        <3>2. CASE h # g
            <4>1. /\ \A i \in 1..Len(file) : file[i].event # pending[h]
                  /\ \A k \in Gateway \ {h} : \A n \in DOMAIN tree[k] : tree[k][n] # pending[h]
                BY <1>1, <2>4, <2>8, <3>2 DEF EventsKnown
            <4>2. pending[h] \in used
                BY <1>1, <2>4, <2>8, <3>2 DEF TypeOK
            <4>3. \A n \in DOMAIN t : t[n] # pending[h]
                BY <2>1, <2>3, <3>2, <4>1, <4>2
            <4> QED BY <2>4, <2>5, <3>2, <4>1, <4>3
        <3> QED BY <3>1, <3>2
    <2>9. EventsKnown'
        <3>1. \A h \in Gateway : \A n \in DOMAIN tree'[h] : tree'[h][n] \in used'
            BY <1>1, <2>1, <2>4, <2>5, <2>7 DEF EventsKnown
        <3>2. \A h \in Gateway : pc'[h] # "write" => pending'[h] = None
            BY <1>1, <2>4, <2>5 DEF EventsKnown
        <3>3. \A i \in 1..Len(file) : file[i].event \in used' \cup {None}
            BY <1>1, <2>1 DEF EventsKnown
        <3> QED BY <2>1, <2>8, <3>1, <3>2, <3>3 DEF EventsKnown
    <2>10. ASSUME stale[g]
           PROVE  Apart(file, Len(file), t, e)
        <3>1. Apart(file, Len(file), tree[g], pending[g]) /\ pending[g] = None
            BY <1>1, <2>1, <2>10 DEF StaleApart, EventsKnown
        <3>2. CASE Lost(file, Len(file), tree[g], None)
            <4>1. PICK n \in DOMAIN tree[g] : \A i \in 1..Len(file) : file[i].event # tree[g][n]
                BY <3>2 DEF Lost
            <4>2. n \in DOMAIN t /\ t[n] = tree[g][n] /\ t[n] # e
                BY <2>1, <2>2, <2>3
            <4> QED BY <4>1, <4>2 DEF Apart, Lost
        <3>3. CASE Missed(file, Len(file), tree[g])
            BY <2>3, <2>6, <3>3 DEF Apart, Missed
        <3> QED BY <3>1, <3>2, <3>3 DEF Apart
    <2>11. StaleApart'
        BY <1>1, <2>1, <2>4, <2>5, <2>10 DEF StaleApart
    <2> QED BY <1>1, <2>1, <2>9, <2>11 DEF DamageInv
<1>4. ASSUME NEW g \in Gateway, WriteLine(g)
      PROVE  DamageInv'
    <2>1. /\ pc[g] = "write" /\ file' = Extended(NextLine(g)) /\ stale' = Outdated(g)
          /\ pc' = [pc EXCEPT ![g] = "open"] /\ UNCHANGED <<tree, used>>
          /\ pending' = [pending EXCEPT ![g] = None]
        BY <1>4 DEF WriteLine
    <2> QED BY <1>1, <2>1, WriteShows
<1>5. ASSUME NEW g \in Gateway, NEW fault \in Fault, WriteFails(g, fault)
      PROVE  DamageInv'
    <2>1. /\ pc[g] = "write" /\ pc' = [pc EXCEPT ![g] = "open"] /\ UNCHANGED <<tree, used>>
          /\ pending' = [pending EXCEPT ![g] = None]
        BY <1>5 DEF WriteFails
    <2>2. CASE fault = "unterminated"
        <3>1. file' = Extended(NextLine(g)) /\ stale' = Outdated(g)
            BY <1>5, <2>2 DEF WriteFails
        <3> QED BY <1>1, <2>1, <3>1, WriteShows
    <2>3. /\ \A h \in Gateway : h # g => pc'[h] = pc[h] /\ pending'[h] = pending[h]
          /\ pc'[g] = "open" /\ pending'[g] = None
        BY <1>1, <2>1 DEF TypeOK
    <2>4. \A h \in Gateway : tree[h] \in Seq(Event)
        BY <1>1 DEF TypeOK
    <2>5. CASE fault = "nothing"
        <3>1. UNCHANGED file /\ stale' = [stale EXCEPT ![g] = TRUE]
            BY <1>5, <2>5 DEF WriteFails
        <3>2. \A h \in Gateway : h # g => stale'[h] = stale[h]
            BY <1>1, <3>1 DEF TypeOK
        <3>3. EventsKnown'
            BY <1>1, <2>1, <2>3, <3>1 DEF EventsKnown
        <3>4. Apart(file, Len(file), tree[g], None)
            <4>1. tree[g] # <<>> /\ pending[g] = tree[g][Len(tree[g])] /\ tree[g] \in Seq(Event)
                BY <1>1, <2>1 DEF TypeOK
            <4>2. Len(tree[g]) \in DOMAIN tree[g] /\ pending[g] # None
                BY <4>1, LedgerAssumption
            <4>3. \A i \in 1..Len(file) : file[i].event # pending[g]
                BY <1>1, <2>1 DEF EventsKnown
            <4> QED BY <4>1, <4>2, <4>3 DEF Apart, Lost
        <3>5. StaleApart'
            BY <1>1, <2>1, <2>3, <3>1, <3>2, <3>4 DEF StaleApart
        <3> QED BY <1>1, <3>1, <3>3, <3>5 DEF DamageInv
    <2>6. CASE fault = "part"
        <3>1. file' = Extended(Garbage)
            BY <1>5, <2>6 DEF WriteFails
        <3>2. Garbage \in Line /\ ~Garbage.stale /\ Garbage.event = None
            BY DEF Garbage, Line
        <3>3. /\ file \in Seq(Line) /\ file' \in Seq(Line) /\ file' # <<>>
              /\ file'[Len(file')] = Garbage
              /\ \A i \in 1..Len(file') : i # Len(file') => i \in 1..Len(file) /\ file'[i] = file[i]
            <4>1. file \in Seq(Line) /\ file' \in Seq(Line) /\ file' # <<>>
                BY <1>1, <3>1, <3>2, ExtendedLines DEF TypeOK
            <4>2. CASE ended
                <5>1. /\ Len(file') = Len(file) + 1 /\ file'[Len(file')] = Garbage
                      /\ \A i \in 1..Len(file) : file'[i] = file[i]
                    BY <1>1, <3>1, <3>2, <4>2, ExtendedLines
                <5> QED BY <4>1, <5>1
            <4>3. CASE ~ended
                <5>1. /\ Len(file') = Len(file) /\ file'[Len(file')] = Garbage
                      /\ \A i \in 1..Len(file) : i # Len(file) => file'[i] = file[i]
                    BY <1>1, <3>1, <3>2, <4>3, ExtendedLines
                <5> QED BY <4>1, <5>1
            <4> QED BY <4>2, <4>3, <4>1
        <3>4. LinesShow(file')
            BY <1>1, <3>1, <3>2, ExtendedShows
        <3>5. EventsKnown'
            <4>1. \A i \in 1..Len(file') : file'[i].event \in used' \cup {None}
                BY <1>1, <2>1, <3>2, <3>3 DEF EventsKnown
            <4>2. ASSUME NEW h \in Gateway, pc'[h] = "write"
                  PROVE  /\ \A i \in 1..Len(file') : file'[i].event # pending'[h]
                         /\ \A k \in Gateway \ {h} :
                               \A n \in DOMAIN tree'[k] : tree'[k][n] # pending'[h]
                <5>1. pc[h] = "write" /\ pending'[h] = pending[h] /\ pending[h] # None
                    BY <1>1, <2>3, <4>2, NextLineType, LedgerAssumption
                <5>2. /\ \A i \in 1..Len(file) : file[i].event # pending[h]
                      /\ \A k \in Gateway \ {h} : \A n \in DOMAIN tree[k] : tree[k][n] # pending[h]
                    BY <1>1, <5>1 DEF EventsKnown
                <5> QED BY <2>1, <3>2, <3>3, <5>1, <5>2
            <4> QED BY <1>1, <2>1, <2>3, <4>1, <4>2 DEF EventsKnown
        <3>6. StaleApart'
            <4>1. Len(file') \in 1..Len(file') /\ Len(file') \in Nat
                BY <3>3
            <4>2. \A h \in Gateway : Apart(file', Len(file'), tree[h], pending'[h])
                BY <2>4, <3>3, <4>1, GarbageMissed
            <4> QED BY <2>1, <4>2 DEF StaleApart
        <3> QED BY <1>1, <3>4, <3>5, <3>6 DEF DamageInv
    <2> QED BY <2>2, <2>5, <2>6 DEF Fault
<1>6. ASSUME NEW g \in Gateway, Close(g) \/ Crash(g)
      PROVE  DamageInv'
    <2>1. Closed({g}) /\ UNCHANGED <<file, used>>
        BY <1>6 DEF Close, Crash
    <2> QED BY <1>1, <2>1, ClosedShows
<1>7. ASSUME PowerLoss
      PROVE  DamageInv'
    <2>1. PICK n \in 0..Len(file) :
              /\ \A i \in 1..n : file'[i] = file[i]
              /\ Len(file') = n \/ (Len(file') = n + 1 /\ file'[n + 1] = Garbage)
        BY <1>1, <1>7, PowerLossFile
    <2>2. file \in Seq(Line) /\ file' \in Seq(Line) /\ used' = used
        BY <1>1, <1>7 DEF TypeOK, PowerLoss
    <2>3. \A h \in Gateway : pc'[h] = "closed" /\ tree'[h] = <<>> /\ pending'[h] = None
        BY <1>7 DEF PowerLoss, Closed
    <2>4. ~Garbage.stale /\ Garbage.event = None
        BY DEF Garbage
    <2>5. \A i \in 1..Len(file') : i \in 1..n \/ file'[i] = Garbage
        BY <2>1, <2>2
    <2>6. ASSUME NEW i \in 1..Len(file'), file'[i].stale
          PROVE  Apart(file', i, file'[i].root, None)
        <3>1. i \in 1..n /\ i \in 1..Len(file) /\ i \in Nat /\ \A j \in 1..i : file'[j] = file[j]
            BY <2>1, <2>2, <2>4, <2>5, <2>6
        <3>2. file'[i] = file[i] /\ Apart(file, i, file[i].root, None)
            BY <1>1, <2>6, <3>1 DEF LinesShow
        <3> QED BY <3>1, <3>2, ApartUnchanged
    <2>7. EventsKnown'
        <3>1. \A i \in 1..Len(file') : file'[i].event \in used \cup {None}
            BY <1>1, <2>1, <2>2, <2>4, <2>5 DEF EventsKnown
        <3> QED BY <2>2, <2>3, <3>1 DEF EventsKnown
    <2> QED BY <1>1, <2>3, <2>6, <2>7 DEF DamageInv, StaleApart, LinesShow
<1>8. ASSUME UNCHANGED vars
      PROVE  DamageInv'
    BY <1>1, <1>8 DEF vars, DamageInv, EventsKnown, StaleApart
<1> QED BY <1>2, <1>3, <1>4, <1>5, <1>6, <1>7, <1>8 DEF Next

\* What the invariant says of the verifier.
LEMMA DamageShows == DamageInv => DamageIsReported
<1> SUFFICES ASSUME DamageInv, VerifyLogFile(file), NEW i \in DOMAIN file
             PROVE  Sound(file[i])
    BY DEF DamageIsReported
<1>1. file \in Seq(Line) /\ i \in 1..Len(file)
    BY DEF DamageInv, TypeOK
<1> DEFINE f == SubSeq(file, 1, i)
<1>2. f \in Seq(Line) /\ Len(f) = i /\ \A k \in 1..i : f[k] = file[k]
    BY <1>1
<1>3. \A k \in 1..i : Readable(file[k])
    BY <1>1 DEF VerifyLogFile, LineVerifies
<1>4. Leaves(f) = Events(f)
    <2>1. AllReadable(f)
        BY <1>2, <1>3 DEF AllReadable
    <2> QED BY <1>2, <2>1, LeavesReadable
<1>5. file[i].root = Events(f)
    BY <1>1, <1>4 DEF VerifyLogFile, LineVerifies
<1>6. DOMAIN file[i].root = 1..i /\ \A k \in 1..i : file[i].root[k] = file[k].event
    BY <1>2, <1>5 DEF Events
<1>7. ~Apart(file, i, file[i].root, None)
    BY <1>6 DEF Apart, Lost, Missed
<1>8. ~file[i].stale
    BY <1>1, <1>7 DEF DamageInv, LinesShow
<1> QED BY <1>1, <1>3, <1>8 DEF Sound

\* krypton audit verify accepts no file with a torn line or with a line of a
\* gateway whose tree and file had gone apart (DamageIsReported).
THEOREM DamageReported == Spec => []DamageIsReported
<1>1. Init => DamageInv
    BY DamageInit
<1>2. DamageInv /\ [Next]_vars => DamageInv'
    BY DamageStep
<1>3. DamageInv => DamageIsReported
    BY DamageShows
<1> QED BY <1>1, <1>2, <1>3, PTL DEF Spec

-------------------------------------------------------------------------------
\* The ledger implements EventLog.

\* A line of the file as an entry of the log.
LEMMA EntryType ==
    ASSUME NEW line \in Line
    PROVE  /\ EntryOf(line) \in Log!Entry
           /\ EntryOf(line).event = line.event /\ EntryOf(line).sound = Sound(line)
BY DEF EntryOf, Log!Entry, Line, Sound, Readable

LEMMA GarbageEntry == EntryOf(Garbage) = Log!Torn
BY DEF EntryOf, Log!Torn, Garbage, Sound, Readable

\* The lines of a file as the entries of the log.
LEMMA EntriesType ==
    ASSUME NEW f \in Seq(Line)
    PROVE  /\ Entries(f) \in Seq(Log!Entry) /\ Len(Entries(f)) = Len(f)
           /\ \A i \in 1..Len(f) : Entries(f)[i] = EntryOf(f[i])
           /\ DOMAIN Entries(f) = 1..Len(f)
<1>1. Len(f) \in Nat /\ DOMAIN f = 1..Len(f) /\ \A i \in 1..Len(f) : f[i] \in Line
    OBVIOUS
<1>2. \A i \in 1..Len(f) : EntryOf(f[i]) \in Log!Entry
    BY <1>1, EntryType
<1>3. Entries(f) = [i \in 1..Len(f) |-> EntryOf(f[i])]
    BY <1>1 DEF Entries
<1> QED BY <1>1, <1>2, <1>3

\* Two sequences of entries with the same elements are the same.
LEMMA SameEntries ==
    ASSUME NEW s \in Seq(Log!Entry), NEW t \in Seq(Log!Entry), Len(s) = Len(t),
           \A i \in 1..Len(s) : s[i] = t[i]
    PROVE  s = t
OBVIOUS

\* A write makes the log grow.
LEMMA EntriesGrow ==
    ASSUME TypeOK, NEW line \in Line
    PROVE  Entries(Extended(line)) = Log!Grown(EntryOf(line))
<1> DEFINE f == Extended(line)
<1>1. file \in Seq(Line) /\ f \in Seq(Line)
    BY ExtendedLines DEF TypeOK
<1>2. /\ Entries(file) \in Seq(Log!Entry) /\ Len(Entries(file)) = Len(file)
      /\ \A i \in 1..Len(file) : Entries(file)[i] = EntryOf(file[i])
    BY <1>1, EntriesType
<1>3. /\ Entries(f) \in Seq(Log!Entry) /\ Len(Entries(f)) = Len(f)
      /\ \A i \in 1..Len(f) : Entries(f)[i] = EntryOf(f[i])
    BY <1>1, EntriesType
<1> HIDE DEF f
<1>4. CASE ended
    <2>1. /\ Len(f) = Len(file) + 1 /\ f[Len(f)] = line
          /\ \A i \in 1..Len(file) : f[i] = file[i]
        BY <1>4, ExtendedLines DEF f
    <2> DEFINE g == Append(Entries(file), EntryOf(line))
    <2>2. g \in Seq(Log!Entry) /\ Len(g) = Len(f) /\ Len(file) \in Nat
        BY <1>1, <1>2, <2>1, EntryType
    <2>3. ASSUME NEW i \in 1..Len(f) PROVE Entries(f)[i] = g[i]
        <3>1. CASE i = Len(f)
            BY <1>2, <1>3, <2>1, <2>2, <3>1, EntryType
        <3>2. CASE i # Len(f)
            <4>1. i \in 1..Len(file)
                BY <2>1, <2>2, <3>2
            <4>2. g[i] = Entries(file)[i]
                BY <1>2, <2>2, <4>1, EntryType
            <4> QED BY <1>2, <1>3, <2>1, <4>1, <4>2
        <3> QED BY <3>1, <3>2
    <2>4. Entries(f) = g
        BY <1>3, <2>2, <2>3, SameEntries
    <2> QED BY <1>4, <2>4 DEF Log!Grown, f
<1>5. CASE ~ended
    <2>1. /\ Len(f) = Len(file) /\ f[Len(f)] = Garbage /\ f # <<>>
          /\ \A i \in 1..Len(file) : i # Len(file) => f[i] = file[i]
        BY <1>5, ExtendedLines DEF f
    <2> DEFINE g == [Entries(file) EXCEPT ![Len(Entries(file))] = Log!Torn]
    <2>2. Log!Torn \in Log!Entry
        BY DEF Log!Torn, Log!Entry
    <2>3. /\ g \in Seq(Log!Entry) /\ Len(g) = Len(f) /\ Len(f) \in 1..Len(f)
          /\ g[Len(f)] = Log!Torn
          /\ \A i \in 1..Len(f) : i # Len(f) => g[i] = Entries(file)[i]
        BY <1>1, <1>2, <2>1, <2>2
    <2>4. ASSUME NEW i \in 1..Len(f) PROVE Entries(f)[i] = g[i]
        BY <1>2, <1>3, <2>1, <2>3, GarbageEntry
    <2>5. Entries(f) = g
        BY <1>3, <2>3, <2>4, SameEntries
    <2> QED BY <1>5, <2>5 DEF Log!Grown, f
<1> QED BY <1>4, <1>5

\* The verdict is whether all entries are sound.
Verdict == VerifyLogFile(file) = \A i \in DOMAIN Entries(file) : Entries(file)[i].sound

LEMMA VerdictJudges ==
    ASSUME TypeOK, SoundLedgerVerifies, DamageIsReported
    PROVE  Verdict
<1>1. file \in Seq(Line)
    BY DEF TypeOK
<1>2. /\ DOMAIN Entries(file) = DOMAIN file
      /\ \A i \in DOMAIN file : Entries(file)[i].sound = Sound(file[i])
    BY <1>1, EntriesType, EntryType
<1>3. VerifyLogFile(file) \in BOOLEAN
    BY DEF VerifyLogFile
<1> QED BY <1>2, <1>3 DEF SoundLedgerVerifies, DamageIsReported, Verdict

LEMMA LogInit == Init => Log!Init
<1> SUFFICES ASSUME Init PROVE Log!Init
    OBVIOUS
<1>1. file = <<>> /\ ended = TRUE /\ durable = 0 /\ acked = {}
    BY DEF Init
<1>2. Entries(file) = <<>>
    BY <1>1 DEF Entries
<1>3. VerifyLogFile(file) = TRUE
    BY <1>1 DEF VerifyLogFile
<1> QED BY <1>1, <1>2, <1>3 DEF Log!Init

\* A loss of power takes entries off the end of the log.
LEMMA LogLosesPower ==
    ASSUME TypeOK, PowerLoss
    PROVE  Log!LosePower
<1>1. file \in Seq(Line) /\ Len(file) \in Nat /\ durable \in 0..Len(file) /\ ended \in BOOLEAN
    BY DEF TypeOK
<1>2. PICK n \in durable..Len(file) :
          \/ /\ file' = SubSeq(file, 1, n)
             /\ ended' = (ended \/ n < Len(file))
             /\ durable' = n
          \/ /\ n < Len(file) /\ "part" \in WriteFaults
             /\ file' = Append(SubSeq(file, 1, n), Garbage)
             /\ ended' = FALSE
             /\ durable' = n + 1
    BY DEF PowerLoss
<1>3. acked' = acked
    BY DEF PowerLoss
<1> DEFINE head == SubSeq(file, 1, n)
           kept == SubSeq(Entries(file), 1, n)
<1>4. /\ Entries(file) \in Seq(Log!Entry) /\ Len(Entries(file)) = Len(file)
      /\ \A i \in 1..Len(file) : Entries(file)[i] = EntryOf(file[i])
    BY <1>1, EntriesType
<1>5. head \in Seq(Line) /\ Len(head) = n /\ \A i \in 1..n : head[i] = file[i]
    BY <1>1, <1>2
<1>6. kept \in Seq(Log!Entry) /\ Len(kept) = n /\ \A i \in 1..n : kept[i] = Entries(file)[i]
    BY <1>1, <1>2, <1>4
<1>7. /\ Entries(head) \in Seq(Log!Entry) /\ Len(Entries(head)) = n
      /\ \A i \in 1..n : Entries(head)[i] = EntryOf(head[i])
    BY <1>5, EntriesType
<1>8. Entries(head) = kept
    <2>1. \A i \in 1..n : i \in 1..Len(file) /\ Entries(head)[i] = kept[i]
        BY <1>1, <1>2, <1>4, <1>5, <1>6, <1>7
    <2> QED BY <1>6, <1>7, <2>1, SameEntries
<1> HIDE DEF head, kept
<1>9. CASE file' = head /\ ended' = (ended \/ n < Len(file)) /\ durable' = n
    BY <1>2, <1>3, <1>4, <1>8, <1>9 DEF Log!LosePower, head, kept
<1>10. CASE n < Len(file) /\ file' = Append(head, Garbage) /\ ended' = FALSE /\ durable' = n + 1
    <2> DEFINE torn == Append(kept, Log!Torn)
               f == Append(head, Garbage)
    <2>1. Garbage \in Line /\ Log!Torn \in Log!Entry
        BY DEF Garbage, Line, Log!Torn, Log!Entry
    <2>2. /\ f \in Seq(Line) /\ Len(f) = n + 1 /\ f[n + 1] = Garbage
          /\ \A i \in 1..n : f[i] = head[i]
        BY <1>1, <1>2, <1>5, <2>1
    <2>3. /\ torn \in Seq(Log!Entry) /\ Len(torn) = n + 1 /\ torn[n + 1] = Log!Torn
          /\ \A i \in 1..n : torn[i] = kept[i]
        BY <1>1, <1>2, <1>6, <2>1
    <2>4. /\ Entries(f) \in Seq(Log!Entry) /\ Len(Entries(f)) = n + 1
          /\ \A i \in 1..n + 1 : Entries(f)[i] = EntryOf(f[i])
        BY <2>2, EntriesType
    <2> HIDE DEF f, torn
    <2>5. \A i \in 1..n : Entries(f)[i] = torn[i]
        BY <1>1, <1>2, <1>7, <1>8, <2>2, <2>3, <2>4
    <2>6. Entries(f)[n + 1] = torn[n + 1]
        BY <1>1, <1>2, <2>2, <2>3, <2>4, GarbageEntry
    <2>7. Entries(f) = torn
        BY <1>1, <1>2, <2>3, <2>4, <2>5, <2>6, SameEntries
    <2>8. Entries(file)' = torn
        BY <1>10, <2>7 DEF f, Entries
    <2> QED BY <1>2, <1>3, <1>4, <1>10, <2>8 DEF Log!LosePower, torn, kept
<1> QED BY <1>2, <1>9, <1>10 DEF head

\* A step of the ledger is a step of the log, or leaves the log as it is.
LEMMA LogStep ==
    ASSUME DamageInv, [Next]_vars, TypeOK', Verdict'
    PROVE  [Log!Next]_(Log!vars)
<1>1. TypeOK /\ EventsKnown
    BY DEF DamageInv
<1>2. Log!Judged
    BY DEF Verdict, Log!Judged
<1>3. ASSUME UNCHANGED <<file, ended, durable, acked>>
      PROVE  UNCHANGED Log!vars
    BY <1>3 DEF Log!vars, Entries, VerifyLogFile
<1>4. ASSUME NEW g \in Gateway,
             NewFileWriter(g) \/ (\E e \in Event : AppendEvent(g, e)) \/ Close(g) \/ Crash(g)
      PROVE  UNCHANGED Log!vars
    BY <1>3, <1>4 DEF NewFileWriter, AppendEvent, Close, Crash
<1>5. ASSUME NEW g \in Gateway, pc[g] = "write"
      PROVE  LET entry == EntryOf(NextLine(g)) IN
             /\ NextLine(g) \in Line
             /\ entry \in Log!Entry /\ entry.event = pending[g] /\ entry.event # None
             /\ Log!Fresh(entry)
             /\ Entries(Extended(NextLine(g))) = Log!Grown(entry)
    <2>1. NextLine(g) \in Line /\ NextLine(g).event = pending[g] /\ pending[g] \in Event
        BY <1>1, <1>5, NextLineType
    <2>2. EntryOf(NextLine(g)) \in Log!Entry /\ EntryOf(NextLine(g)).event = pending[g]
        BY <2>1, EntryType
    <2>3. file \in Seq(Line) /\ \A i \in 1..Len(file) : file[i].event # pending[g]
        BY <1>1, <1>5 DEF EventsKnown, TypeOK
    <2>4. \A i \in DOMAIN Entries(file) : Entries(file)[i].event # pending[g]
        BY <2>3, EntriesType, EntryType
    <2>5. Log!Fresh(EntryOf(NextLine(g)))
        BY <2>2, <2>4 DEF Log!Fresh
    <2>6. pending[g] # None
        BY <2>1, LedgerAssumption
    <2> QED BY <1>1, <2>1, <2>2, <2>5, <2>6, EntriesGrow
<1>6. ASSUME NEW g \in Gateway, WriteLine(g)
      PROVE  Log!Next
    <2> DEFINE entry == EntryOf(NextLine(g))
    <2>1. /\ pc[g] = "write" /\ file' = Extended(NextLine(g)) /\ ended' = TRUE
          /\ acked' = acked \cup {pending[g]}
          /\ durable' \in {Len(file'), durable}
        BY <1>6 DEF WriteLine
    <2>2. /\ entry \in Log!Entry /\ entry.event = pending[g] /\ entry.event # None
          /\ Log!Fresh(entry) /\ Entries(file)' = Log!Grown(entry)
        BY <1>5, <2>1 DEF Entries
    <2>3. Len(Entries(file)') = Len(file')
        <3>1. file' \in Seq(Line)
            BY DEF TypeOK
        <3> QED BY <3>1, EntriesType DEF Entries
    <2> HIDE DEF entry
    <2>4. Log!Record(entry)
        BY <2>1, <2>2, <2>3 DEF Log!Record
    <2> QED BY <1>2, <2>2, <2>4 DEF Log!Next
<1>7. ASSUME NEW g \in Gateway, NEW fault \in Fault, WriteFails(g, fault)
      PROVE  [Log!Next]_(Log!vars)
    <2>1. pc[g] = "write" /\ UNCHANGED <<durable, acked>>
        BY <1>7 DEF WriteFails
    <2>2. CASE fault = "nothing"
        <3>1. UNCHANGED <<file, ended>>
            BY <1>7, <2>2 DEF WriteFails
        <3> QED BY <1>3, <2>1, <3>1
    <2>3. CASE fault = "part"
        <3>1. file' = Extended(Garbage) /\ ended' = FALSE
            BY <1>7, <2>3 DEF WriteFails
        <3>2. Garbage \in Line /\ Log!Torn \in Log!Entry
            BY DEF Garbage, Line, Log!Torn, Log!Entry
        <3>3. Entries(file)' = Log!Grown(Log!Torn)
            BY <1>1, <3>1, <3>2, EntriesGrow, GarbageEntry DEF Entries
        <3>4. Log!Fail(Log!Torn)
            BY <2>1, <3>1, <3>3 DEF Log!Fail
        <3> QED BY <1>2, <3>2, <3>4 DEF Log!Next
    <2>4. CASE fault = "unterminated"
        <3> DEFINE entry == EntryOf(NextLine(g))
        <3>1. file' = Extended(NextLine(g)) /\ ended' = FALSE
            BY <1>7, <2>4 DEF WriteFails
        <3>2. entry \in Log!Entry /\ Log!Fresh(entry) /\ Entries(file)' = Log!Grown(entry)
            BY <1>5, <2>1, <3>1 DEF Entries
        <3> HIDE DEF entry
        <3>3. Log!Fail(entry)
            BY <2>1, <3>1, <3>2 DEF Log!Fail
        <3> QED BY <1>2, <3>2, <3>3 DEF Log!Next
    <2> QED BY <2>2, <2>3, <2>4 DEF Fault
<1>8. CASE PowerLoss
    BY <1>1, <1>2, <1>8, LogLosesPower DEF Log!Next
<1>9. CASE UNCHANGED vars
    BY <1>3, <1>9 DEF vars
<1> QED BY <1>4, <1>6, <1>7, <1>8, <1>9 DEF Next

\* Whatever gateways do, the file behaves as EventLog says: it grows at its end,
\* records no event twice, and the verifier's verdict is always the soundness of
\* its lines.
THEOREM LedgerImplementsEventLog == Spec => ImplementsEventLog
<1>1. Init => Log!Init /\ DamageInv /\ SoundInv
    BY LogInit, DamageInit, SoundInit
<1>2. DamageInv /\ [Next]_vars => DamageInv'
    BY DamageStep
<1>3. SoundInv /\ [Next]_vars => SoundInv'
    BY SoundStep
<1>4. DamageInv /\ SoundInv => TypeOK /\ Verdict
    BY DamageShows, SoundVerifies, VerdictJudges DEF DamageInv
<1>5. DamageInv /\ [Next]_vars /\ TypeOK' /\ Verdict' => [Log!Next]_(Log!vars)
    BY LogStep
<1> QED BY <1>1, <1>2, <1>3, <1>4, <1>5, PTL DEF Spec, ImplementsEventLog, Log!Spec

-------------------------------------------------------------------------------
\* Acknowledged events are kept.

\* Event e is in a line of f; the events of a and not of u that are in none; the
\* lines of f up to d that are spoilt for good, because no text is to follow.
In(f, e) == \E i \in 1..Len(f) : f[i].event = e

Missing(f, a, u) == {e \in a \ u : ~In(f, e)}

Spent(f, whole, d) == {i \in 1..d : ~Readable(f[i]) /\ (whole \/ i # Len(f))}

\* The inductive invariant behind AcknowledgedEventsKept: what may still be lost,
\* a line being written or without its newline, was not acknowledged; what was
\* synced is durable; and an event that is lost has spoilt a durable line.
KeptInv ==
    /\ \A g \in Gateway : pc[g] = "write" => pending[g] \notin acked
    /\ ~ended => file[Len(file)].event \notin acked
    /\ \A e \in acked \ unsynced : In(file, e) => \E i \in 1..durable : file[i].event = e
    /\ IsFiniteSet(Missing(file, acked, unsynced))
    /\ Cardinality(Missing(file, acked, unsynced)) <= Cardinality(Spent(file, ended, durable))

LEMMA SpentFinite ==
    ASSUME NEW f, NEW whole, NEW d \in Nat
    PROVE  IsFiniteSet(Spent(f, whole, d)) /\ Cardinality(Spent(f, whole, d)) \in Nat
<1>1. Spent(f, whole, d) \subseteq 1..d
    BY DEF Spent
<1>2. IsFiniteSet(1..d)
    BY FS_Interval
<1>3. IsFiniteSet(Spent(f, whole, d))
    BY <1>1, <1>2, FS_Subset
<1> QED BY <1>3, FS_CardinalityType

\* An event more that is lost, and a line more that is spoilt.
LEMMA OneMore ==
    ASSUME NEW M, NEW N, NEW S, NEW T, NEW x, NEW y, IsFiniteSet(M), IsFiniteSet(T), S \subseteq T,
           Cardinality(M) <= Cardinality(S),
           N \subseteq M \/ (N \subseteq M \cup {x} /\ y \in T /\ y \notin S)
    PROVE  IsFiniteSet(N) /\ Cardinality(N) <= Cardinality(T)
<1>1. IsFiniteSet(S) /\ Cardinality(S) <= Cardinality(T) /\ Cardinality(S) \in Nat
      /\ Cardinality(T) \in Nat /\ Cardinality(M) \in Nat
    BY FS_Subset, FS_CardinalityType
<1>2. CASE N \subseteq M
    <2>1. IsFiniteSet(N) /\ Cardinality(N) <= Cardinality(M) /\ Cardinality(N) \in Nat
        BY <1>2, FS_Subset, FS_CardinalityType
    <2> QED BY <1>1, <2>1
<1>3. CASE N \subseteq M \cup {x} /\ y \in T /\ y \notin S
    <2>1. IsFiniteSet(M \cup {x}) /\ Cardinality(M \cup {x}) <= Cardinality(M) + 1
          /\ Cardinality(M \cup {x}) \in Nat
        <3>1. IsFiniteSet(M \cup {x})
            BY FS_AddElement
        <3>2. Cardinality(M \cup {x}) = Cardinality(M) \/ Cardinality(M \cup {x}) = Cardinality(M) + 1
            BY FS_AddElement
        <3> QED BY <1>1, <3>1, <3>2
    <2>2. IsFiniteSet(N) /\ Cardinality(N) <= Cardinality(M \cup {x}) /\ Cardinality(N) \in Nat
        BY <1>3, <2>1, FS_Subset, FS_CardinalityType
    <2>3. Cardinality(S \cup {y}) = Cardinality(S) + 1
        BY <1>1, <1>3, FS_AddElement
    <2>4. Cardinality(S \cup {y}) <= Cardinality(T)
        <3>1. S \cup {y} \in SUBSET T
            BY <1>3
        <3> QED BY <3>1, FS_Subset
    <2> QED BY <1>1, <2>1, <2>2, <2>3, <2>4
<1> QED BY <1>2, <1>3

\* What an append does to events and spoilt lines.
LEMMA ExtendedKeeps ==
    ASSUME TypeOK, NEW line \in Line, NEW f, f = Extended(line)
    PROVE  /\ \A i \in 1..Len(file) : ended \/ i # Len(file) => i \in 1..Len(f) /\ f[i] = file[i]
           /\ \A e \in Event : In(f, e) => In(file, e) \/ (ended /\ e = line.event)
           /\ ended => In(f, line.event)
           /\ \A whole \in BOOLEAN : Spent(file, ended, durable) \subseteq Spent(f, whole, durable)
           /\ ~ended => Len(file) \in 1..Len(f) /\ f[Len(file)] = Garbage
           /\ f[Len(f)] \in {line, Garbage} /\ Len(file) <= Len(f) /\ Len(f) \in 1..Len(f)
<1>1. file \in Seq(Line) /\ durable \in 0..Len(file) /\ Len(file) \in Nat
    BY DEF TypeOK
<1>2. Garbage.event \notin Event
    BY LedgerAssumption DEF Garbage
<1>3. CASE ended
    <2>1. /\ f \in Seq(Line) /\ Len(f) = Len(file) + 1 /\ f[Len(f)] = line
          /\ \A i \in 1..Len(file) : f[i] = file[i]
        BY <1>3, ExtendedLines
    <2>2. \A i \in 1..Len(f) : i \in 1..Len(file) \/ i = Len(f)
        BY <1>1, <2>1
    <2>3. \A e \in Event : In(f, e) => In(file, e) \/ e = line.event
        BY <2>1, <2>2 DEF In
    <2>4. \A whole \in BOOLEAN : Spent(file, ended, durable) \subseteq Spent(f, whole, durable)
        BY <1>1, <2>1 DEF Spent
    <2>5. Len(f) \in 1..Len(f) /\ Len(file) <= Len(f) /\ \A i \in 1..Len(file) : i \in 1..Len(f)
        BY <1>1, <2>1
    <2> QED BY <1>3, <2>1, <2>3, <2>4, <2>5 DEF In
<1>4. CASE ~ended
    <2>1. /\ f \in Seq(Line) /\ Len(f) = Len(file) /\ f[Len(f)] = Garbage /\ f # <<>>
          /\ \A i \in 1..Len(file) : i # Len(file) => f[i] = file[i]
        BY <1>4, ExtendedLines
    <2>2. \A e \in Event : In(f, e) => In(file, e)
        BY <1>2, <2>1 DEF In
    <2>3. \A whole \in BOOLEAN : Spent(file, ended, durable) \subseteq Spent(f, whole, durable)
        BY <1>1, <1>4, <2>1 DEF Spent
    <2>4. Len(f) \in 1..Len(f)
        BY <1>1, <2>1
    <2> QED BY <1>1, <1>4, <2>1, <2>2, <2>3, <2>4
<1> QED BY <1>3, <1>4

\* What a loss of power does.
LEMMA PowerLossKeeps ==
    ASSUME TypeOK, PowerLoss
    PROVE  \E n \in durable..Len(file) :
              /\ \A i \in 1..n : file'[i] = file[i]
              /\ \/ Len(file') = n /\ (ended \/ n < Len(file) => ended') /\ durable' = n
                 \/ /\ Len(file') = n + 1 /\ file'[n + 1] = Garbage
                    /\ ended' = FALSE /\ durable' = n + 1
<1>1. PICK n \in durable..Len(file) :
          \/ /\ file' = SubSeq(file, 1, n)
             /\ ended' = (ended \/ n < Len(file))
             /\ durable' = n
          \/ /\ n < Len(file)
             /\ file' = Append(SubSeq(file, 1, n), Garbage)
             /\ ended' = FALSE
             /\ durable' = n + 1
    BY DEF PowerLoss
<1>2. file \in Seq(Line) /\ n \in 0..Len(file) /\ Garbage \in Line
    BY DEF TypeOK, Garbage, Line
<1> DEFINE s == SubSeq(file, 1, n)
<1>3. s \in Seq(Line) /\ Len(s) = n /\ \A i \in 1..n : s[i] = file[i]
    BY <1>2
<1> HIDE DEF s
<1>4. CASE file' = s /\ ended' = (ended \/ n < Len(file)) /\ durable' = n
    BY <1>3, <1>4
<1>5. CASE file' = Append(s, Garbage) /\ ended' = FALSE /\ durable' = n + 1
    <2>1. /\ Len(file') = n + 1 /\ file'[n + 1] = Garbage
          /\ \A i \in 1..n : file'[i] = s[i]
        BY <1>2, <1>3, <1>5
    <2> QED BY <1>3, <1>5, <2>1
<1> QED BY <1>1, <1>4, <1>5 DEF s

\* Two gateways write different events.
LEMMA PendingDiffer ==
    ASSUME DamageInv, NEW g \in Gateway, NEW h \in Gateway, g # h, pc[g] = "write", pc[h] = "write"
    PROVE  pending[g] # pending[h]
<1>1. tree[h] \in Seq(Event) /\ tree[h] # <<>> /\ pending[h] = tree[h][Len(tree[h])]
    BY DEF DamageInv, TypeOK
<1>2. Len(tree[h]) \in DOMAIN tree[h]
    BY <1>1
<1> QED BY <1>1, <1>2 DEF DamageInv, EventsKnown

LEMMA KeptInit == Init => KeptInv
<1> SUFFICES ASSUME Init PROVE KeptInv
    OBVIOUS
<1>1. acked = {} /\ ended = TRUE /\ durable = 0 /\ \A g \in Gateway : pc[g] = "closed"
    BY DEF Init
<1>2. Missing(file, acked, unsynced) = {} /\ Spent(file, ended, durable) = {}
    BY <1>1 DEF Missing, Spent
<1>3. IsFiniteSet({}) /\ Cardinality({}) = 0
    BY FS_EmptySet
<1>4. /\ IsFiniteSet(Missing(file, acked, unsynced))
      /\ Cardinality(Missing(file, acked, unsynced)) <= Cardinality(Spent(file, ended, durable))
    BY <1>2, <1>3
<1> QED BY <1>1, <1>4 DEF KeptInv

\* A step that acknowledges nothing, and keeps every line that is not the one
\* without its newline.
LEMMA KeptWhile ==
    ASSUME TypeOK, TypeOK', KeptInv, UNCHANGED <<acked, unsynced>>,
           \A e \in acked : In(file', e) => In(file, e),
           durable <= durable',
           \A i \in 1..durable : ended \/ i # Len(file) => i \in 1..Len(file') /\ file'[i] = file[i],
           Spent(file, ended, durable) \subseteq Spent(file', ended', durable')
    PROVE  /\ \A e \in acked' \ unsynced' : In(file', e) => \E i \in 1..durable' : file'[i].event = e
           /\ IsFiniteSet(Missing(file', acked', unsynced'))
           /\ Cardinality(Missing(file', acked', unsynced'))
                  <= Cardinality(Spent(file', ended', durable'))
<1>1. durable \in Nat /\ durable' \in Nat /\ durable <= Len(file)
    BY DEF TypeOK
<1>2. ASSUME NEW e \in acked \ unsynced, In(file, e)
      PROVE  \E i \in 1..durable : i \in 1..Len(file') /\ i \in 1..durable' /\ file'[i].event = e
    <2>1. PICK i \in 1..durable : file[i].event = e
        BY <1>2 DEF KeptInv
    <2>2. ended \/ i # Len(file)
        BY <1>2, <2>1 DEF KeptInv
    <2>3. i \in 1..Len(file') /\ file'[i] = file[i] /\ i \in 1..durable'
        BY <1>1, <2>2
    <2> QED BY <2>1, <2>3
<1>3. Missing(file', acked', unsynced') \subseteq Missing(file, acked, unsynced)
    BY <1>2 DEF Missing, In
<1>4. IsFiniteSet(Spent(file', ended', durable'))
    BY <1>1, SpentFinite
<1>5. /\ IsFiniteSet(Missing(file', acked', unsynced'))
      /\ Cardinality(Missing(file', acked', unsynced')) <= Cardinality(Spent(file', ended', durable'))
    BY <1>3, <1>4, OneMore DEF KeptInv
<1> QED BY <1>2, <1>5

LEMMA KeptStep ==
    ASSUME DamageInv, KeptInv, [Next]_vars
    PROVE  KeptInv'
<1>1. TypeOK /\ TypeOK' /\ durable \in Nat /\ durable <= Len(file) /\ file \in Seq(Line)
    BY TypeStep DEF DamageInv, TypeOK
<1> DEFINE Unacked == \A g \in Gateway : pc'[g] = "write" => pending'[g] \notin acked'
           LastUnacked == ~ended' => file'[Len(file')].event \notin acked'
           Durable == \A e \in acked' \ unsynced' :
                          In(file', e) => \E i \in 1..durable' : file'[i].event = e
           Counted == /\ IsFiniteSet(Missing(file', acked', unsynced'))
                      /\ Cardinality(Missing(file', acked', unsynced'))
                             <= Cardinality(Spent(file', ended', durable'))
<1>2. acked \subseteq Event /\ None \notin Event /\ Garbage.event = None
    BY <1>1, LedgerAssumption DEF TypeOK, Garbage
<1>3. ASSUME UNCHANGED <<file, ended, durable, acked, unsynced>>
      PROVE  LastUnacked /\ Durable /\ Counted
    BY <1>3 DEF KeptInv
<1>4. ASSUME NEW g \in Gateway, NewFileWriter(g)
      PROVE  KeptInv'
    <2>1. UNCHANGED <<file, ended, durable, acked, unsynced>>
        BY <1>4 DEF NewFileWriter
    <2>2. Unacked
        BY <1>1, <1>4 DEF NewFileWriter, KeptInv, TypeOK
    <2> QED BY <1>3, <2>1, <2>2 DEF KeptInv
<1>5. ASSUME NEW g \in Gateway, NEW e \in Event, AppendEvent(g, e)
      PROVE  KeptInv'
    <2>1. UNCHANGED <<file, ended, durable, acked, unsynced>>
        BY <1>5 DEF AppendEvent
    <2>2. Unacked
        BY <1>1, <1>5 DEF AppendEvent, KeptInv, TypeOK
    <2> QED BY <1>3, <2>1, <2>2 DEF KeptInv
<1>6. ASSUME NEW g \in Gateway, WriteLine(g)
      PROVE  KeptInv'
    <2> DEFINE p == pending[g]
               line == NextLine(g)
    <2>1. /\ pc[g] = "write" /\ file' = Extended(line) /\ ended' = TRUE
          /\ acked' = acked \cup {p}
          /\ \/ durable' = Len(file') /\ unsynced' = {e \in unsynced : ~Logged(e)}
             \/ unsynced' = unsynced \cup {p} /\ durable' = durable
          /\ pending' = [pending EXCEPT ![g] = None]
          /\ pc' = [pc EXCEPT ![g] = "open"]
        BY <1>6 DEF WriteLine
    <2>2. line \in Line /\ line.event = p /\ p \in Event
        BY <1>1, <2>1, NextLineType
    <2> HIDE DEF line
    <2>3. /\ \A i \in 1..Len(file) : ended \/ i # Len(file) => i \in 1..Len(file') /\ file'[i] = file[i]
          /\ \A e \in Event : In(file', e) => In(file, e) \/ (ended /\ e = p)
          /\ ended => In(file', p)
          /\ Spent(file, ended, durable) \subseteq Spent(file', ended', durable)
          /\ ~ended => Len(file) \in 1..Len(file') /\ file'[Len(file)] = Garbage
          /\ Len(file) <= Len(file') /\ Len(file') \in Nat
        <3>1. TypeOK /\ line \in Line /\ file' = Extended(line) /\ ended' \in BOOLEAN
            BY <1>1, <2>1, <2>2
        <3>2. file' \in Seq(Line)
            BY <1>1 DEF TypeOK
        <3>3. Len(file') \in Nat
            BY <3>2
        <3> QED BY <2>2, <3>1, <3>3, ExtendedKeeps
    <2>4. Unacked
        <3>1. ASSUME NEW h \in Gateway, pc'[h] = "write" PROVE pending'[h] \notin acked'
            <4>1. h # g /\ pc[h] = "write" /\ pending'[h] = pending[h]
                BY <1>1, <2>1, <3>1 DEF TypeOK
            <4>2. pending[h] # p
                BY <2>1, <4>1, PendingDiffer
            <4> QED BY <2>1, <4>1, <4>2 DEF KeptInv
        <3> QED BY <3>1
    <2>5. ASSUME NEW e \in acked, In(file, e)
          PROVE  In(file', e)
        <3>1. PICK i \in 1..Len(file) : file[i].event = e
            BY <2>5 DEF In
        <3>2. ended \/ i # Len(file)
            BY <3>1 DEF KeptInv
        <3> QED BY <2>3, <3>1, <3>2 DEF In
    <2>6. Spent(file, ended, durable) \subseteq Spent(file', ended', durable')
        <3>1. durable <= durable' /\ durable' \in Nat
            BY <1>1, <2>1, <2>3
        <3>2. Spent(file', ended', durable) \subseteq Spent(file', ended', durable')
            BY <1>1, <3>1 DEF Spent
        <3> QED BY <2>3, <3>2
    <2>7. IsFiniteSet(Spent(file', ended', durable'))
        BY <1>1, SpentFinite DEF TypeOK
    <2>8. CASE durable' = Len(file') /\ unsynced' = {e \in unsynced : ~Logged(e)}
        <3>1. Durable
            BY <2>8 DEF In
        <3>2. \A e \in acked \cap unsynced : e \notin unsynced' => In(file, e)
            BY <1>1, <2>8 DEF Logged, Parsed, In
        <3>3. Missing(file', acked', unsynced') \subseteq
                  Missing(file, acked, unsynced) \cup {e \in {p} : ~ended}
            BY <2>1, <2>3, <2>5, <3>2 DEF Missing
        <3>4. ~ended => /\ Len(file) \in Spent(file', ended', durable')
                        /\ Len(file) \notin Spent(file, ended, durable)
            BY <1>2, <2>1, <2>3, <2>8 DEF Spent, Readable
        <3>5. \/ Missing(file', acked', unsynced') \subseteq Missing(file, acked, unsynced)
              \/ /\ Missing(file', acked', unsynced') \subseteq Missing(file, acked, unsynced) \cup {p}
                 /\ Len(file) \in Spent(file', ended', durable')
                 /\ Len(file) \notin Spent(file, ended, durable)
            BY <3>3, <3>4
        <3>6. Counted
            BY <2>6, <2>7, <3>5, OneMore DEF KeptInv
        <3> QED BY <2>1, <2>4, <3>1, <3>6 DEF KeptInv
    <2>9. CASE unsynced' = unsynced \cup {p} /\ durable' = durable
        <3>1. acked' \ unsynced' \subseteq acked \ unsynced /\ p \notin acked' \ unsynced'
            BY <2>1, <2>9
        <3>2. Durable
            <4> SUFFICES ASSUME NEW e \in acked' \ unsynced', In(file', e)
                         PROVE  \E i \in 1..durable : file'[i].event = e
                BY <2>9
            <4>1. e \in acked \ unsynced /\ e # p /\ In(file, e)
                BY <1>2, <2>3, <3>1
            <4>2. PICK i \in 1..durable : file[i].event = e
                BY <4>1 DEF KeptInv
            <4>3. ended \/ i # Len(file)
                BY <4>1, <4>2 DEF KeptInv
            <4>4. i \in 1..Len(file)
                BY <1>1
            <4> QED BY <2>3, <4>2, <4>3, <4>4
        <3>3. Missing(file', acked', unsynced') \subseteq Missing(file, acked, unsynced)
            BY <2>5, <3>1 DEF Missing
        <3>4. Counted
            BY <2>6, <2>7, <3>3, OneMore DEF KeptInv
        <3> QED BY <2>1, <2>4, <3>2, <3>4 DEF KeptInv
    <2> QED BY <2>1, <2>8, <2>9
<1>7. ASSUME NEW g \in Gateway, NEW fault \in Fault, WriteFails(g, fault)
      PROVE  KeptInv'
    <2>1. /\ pc[g] = "write" /\ UNCHANGED <<durable, acked, unsynced>>
          /\ pending' = [pending EXCEPT ![g] = None]
          /\ pc' = [pc EXCEPT ![g] = "open"]
        BY <1>7 DEF WriteFails
    <2>2. Unacked
        BY <1>1, <2>1 DEF KeptInv, TypeOK
    <2>3. CASE fault = "nothing"
        <3>1. UNCHANGED <<file, ended>>
            BY <1>7, <2>3 DEF WriteFails
        <3> QED BY <1>3, <2>1, <2>2, <3>1 DEF KeptInv
    <2>4. CASE fault \in {"part", "unterminated"}
        <3>1. PICK line \in {Garbage, NextLine(g)} : file' = Extended(line) /\ ended' = FALSE
            BY <1>7, <2>4 DEF WriteFails
        <3>2. line \in Line /\ line.event \notin acked
            <4>1. Garbage \in Line /\ Garbage.event \notin acked
                BY <1>2 DEF Garbage, Line
            <4>2. NextLine(g) \in Line /\ NextLine(g).event = pending[g]
                BY <1>1, <2>1, NextLineType
            <4> QED BY <2>1, <4>1, <4>2 DEF KeptInv
        <3>3. /\ \A i \in 1..Len(file) : ended \/ i # Len(file) => i \in 1..Len(file') /\ file'[i] = file[i]
              /\ \A e \in Event : In(file', e) => In(file, e) \/ (ended /\ e = line.event)
              /\ Spent(file, ended, durable) \subseteq Spent(file', ended', durable')
              /\ file'[Len(file')] \in {line, Garbage}
            BY <1>1, <2>1, <3>1, <3>2, ExtendedKeeps
        <3>4. LastUnacked
            BY <1>2, <2>1, <3>2, <3>3
        <3>5. Durable /\ Counted
            <4>1. \A e \in acked : In(file', e) => In(file, e)
                BY <1>2, <3>2, <3>3
            <4>2. \A i \in 1..durable : ended \/ i # Len(file) => i \in 1..Len(file') /\ file'[i] = file[i]
                BY <1>1, <3>3
            <4> QED BY <1>1, <2>1, <3>3, <4>1, <4>2, KeptWhile
        <3> QED BY <2>2, <3>4, <3>5 DEF KeptInv
    <2> QED BY <2>3, <2>4 DEF Fault
<1>8. ASSUME NEW g \in Gateway, Close(g) \/ Crash(g)
      PROVE  KeptInv'
    <2>1. Closed({g}) /\ UNCHANGED <<file, ended, durable, acked, unsynced>>
        BY <1>8 DEF Close, Crash
    <2>2. Unacked
        BY <1>1, <2>1, ClosedType DEF KeptInv
    <2> QED BY <1>3, <2>1, <2>2 DEF KeptInv
<1>9. ASSUME PowerLoss
      PROVE  KeptInv'
    <2>1. /\ UNCHANGED <<acked, unsynced>> /\ \A g \in Gateway : pc'[g] = "closed"
        BY <1>9 DEF PowerLoss, Closed
    <2>2. PICK n \in durable..Len(file) :
              /\ \A i \in 1..n : file'[i] = file[i]
              /\ \/ Len(file') = n /\ (ended \/ n < Len(file) => ended') /\ durable' = n
                 \/ /\ Len(file') = n + 1 /\ file'[n + 1] = Garbage
                    /\ ended' = FALSE /\ durable' = n + 1
        BY <1>1, <1>9, PowerLossKeeps
    <2>3. /\ n \in Nat /\ durable <= n /\ n <= Len(file) /\ Len(file) \in Nat
          /\ Len(file') \in {n, n + 1} /\ durable' = Len(file')
          /\ \A i \in 1..Len(file') : i \in 1..n \/ file'[i] = Garbage
        BY <1>1, <2>2
    <2>4. LastUnacked
        <3> SUFFICES ASSUME ~ended' PROVE file'[Len(file')].event \notin acked
            BY <2>1
        <3>1. CASE Len(file') = n /\ (ended \/ n < Len(file) => ended')
            <4>1. ~ended /\ n = Len(file)
                BY <2>3, <3>1
            <4>2. file # <<>> /\ n \in 1..n
                BY <1>1, <2>3, <4>1 DEF TypeOK
            <4>3. file'[Len(file')] = file[Len(file)]
                BY <2>2, <3>1, <4>1, <4>2
            <4> QED BY <4>1, <4>3 DEF KeptInv
        <3>2. CASE Len(file') = n + 1 /\ file'[n + 1] = Garbage
            BY <1>2, <3>2
        <3> QED BY <2>2, <3>1, <3>2
    <2>5. \A e \in acked : In(file', e) => In(file, e)
        BY <1>2, <2>2, <2>3 DEF In
    <2>6. \A i \in 1..durable : i \in 1..Len(file') /\ i \in 1..durable' /\ file'[i] = file[i]
        BY <1>1, <2>2, <2>3
    <2>7. Spent(file, ended, durable) \subseteq Spent(file', ended', durable')
        <3> SUFFICES ASSUME NEW i \in Spent(file, ended, durable)
                     PROVE  i \in Spent(file', ended', durable')
            OBVIOUS
        <3>1. i \in 1..durable /\ ~Readable(file[i]) /\ (ended \/ i # Len(file))
            BY DEF Spent
        <3>2. i \in 1..durable' /\ file'[i] = file[i]
            BY <2>6, <3>1
        <3>3. ended' \/ i # Len(file')
            BY <1>1, <2>2, <2>3, <3>1
        <3> QED BY <3>1, <3>2, <3>3 DEF Spent
    <2>8. Durable /\ Counted
        <3>1. durable <= durable'
            BY <1>1, <2>3
        <3> QED BY <1>1, <2>1, <2>5, <2>6, <2>7, <3>1, KeptWhile
    <2> QED BY <2>1, <2>4, <2>8 DEF KeptInv
<1>10. ASSUME UNCHANGED vars
      PROVE  KeptInv'
    BY <1>10 DEF vars, KeptInv
<1> QED BY <1>4, <1>5, <1>6, <1>7, <1>8, <1>9, <1>10 DEF Next

\* What WriteEvent acknowledged stays in the file, whatever gateways crash,
\* restart or overlap, but for one event to a line that cannot be read and those
\* whose Sync failed.
THEOREM AcknowledgedKept == Spec => []AcknowledgedEventsKept
<1>1. DamageInv /\ KeptInv => AcknowledgedEventsKept
    <2> SUFFICES ASSUME DamageInv, KeptInv PROVE AcknowledgedEventsKept
        OBVIOUS
    <2>1. file \in Seq(Line) /\ durable \in 0..Len(file) /\ acked \subseteq Event /\ Len(file) \in Nat
        BY DEF DamageInv, TypeOK
    <2>2. Missing(file, acked, unsynced) = {e \in acked \ unsynced : ~Logged(e)}
        <3>1. \A e \in acked : Logged(e) = In(file, e)
            BY <2>1, LedgerAssumption DEF Logged, In, Parsed, Readable
        <3> QED BY <3>1 DEF Missing
    <2> DEFINE Torn == {i \in DOMAIN file : ~Readable(file[i])}
    <2>3. Torn \subseteq 1..Len(file) /\ Spent(file, ended, durable) \in SUBSET Torn
        BY <2>1 DEF Spent
    <2>4. IsFiniteSet(Torn)
        BY <2>1, <2>3, FS_Interval, FS_Subset
    <2>5. /\ Cardinality(Spent(file, ended, durable)) <= Cardinality(Torn)
          /\ Cardinality(Spent(file, ended, durable)) \in Nat /\ Cardinality(Torn) \in Nat
        BY <2>3, <2>4, FS_Subset, FS_CardinalityType
    <2>6. Cardinality(Missing(file, acked, unsynced)) \in Nat
        BY FS_CardinalityType DEF KeptInv
    <2> HIDE DEF Torn
    <2>7. Cardinality(Missing(file, acked, unsynced)) <= Cardinality(Torn)
        BY <2>5, <2>6 DEF KeptInv
    <2> QED BY <2>2, <2>7 DEF AcknowledgedEventsKept, Torn
<1> QED BY DamageInit, DamageStep, KeptInit, KeptStep, <1>1, PTL DEF Spec

-------------------------------------------------------------------------------
\* Edits of a file that verifies.

\* A file that verifies has its line i at position i, and the root of line i is
\* that of the events up to it.
LEMMA VerifiedLines ==
    ASSUME NEW f \in Seq(Line), VerifyLogFile(f), NEW i \in 1..Len(f)
    PROVE  f[i].index = i - 1 /\ f[i].root = Events(SubSeq(f, 1, i))
<1>1. DOMAIN f = 1..Len(f) /\ \A j \in 1..Len(f) : LineVerifies(f, j)
    BY DEF VerifyLogFile
<1> DEFINE head == SubSeq(f, 1, i)
<1>2. head \in Seq(Line) /\ Len(head) = i /\ \A j \in 1..i : head[j] = f[j]
    OBVIOUS
<1>3. AllReadable(head)
    BY <1>1, <1>2 DEF AllReadable, LineVerifies
<1>4. Leaves(head) = Events(head)
    BY <1>2, <1>3, LeavesReadable
<1> QED BY <1>1, <1>4 DEF LineVerifies

\* A file that verifies no longer does when an inner line is deleted, two lines
\* change places or an event is replaced: index and root give it away.
THEOREM EditsReported == Spec => []EditsAreReported
<1>1. TypeOK => EditsAreReported
    <2> SUFFICES ASSUME file \in Seq(Line), VerifyLogFile(file) PROVE EditsAreReported
        BY DEF TypeOK, EditsAreReported
    <2>1. DOMAIN file = 1..Len(file) /\ Len(file) \in Nat
        OBVIOUS
    <2>2. ASSUME NEW i \in 1..Len(file) - 1 PROVE ~VerifyLogFile(Without(file, i))
        <3>1. i \in DOMAIN Without(file, i) /\ Without(file, i)[i] = file[i + 1]
            BY <2>1 DEF Without
        <3>2. file[i + 1].index = i
            BY <2>1, VerifiedLines
        <3> QED BY <2>1, <3>1, <3>2 DEF VerifyLogFile, LineVerifies
    <2>3. ASSUME NEW i \in DOMAIN file, NEW j \in DOMAIN file, i # j
          PROVE  ~VerifyLogFile([file EXCEPT ![i] = file[j], ![j] = file[i]])
        <3> DEFINE f == [file EXCEPT ![i] = file[j], ![j] = file[i]]
        <3>1. i \in DOMAIN f /\ f[i] = file[j]
            BY <2>3
        <3>2. file[j].index = j - 1 /\ i \in Nat /\ j \in Nat
            BY <2>1, VerifiedLines
        <3> HIDE DEF f
        <3>3. ~LineVerifies(f, i)
            BY <2>3, <3>1, <3>2 DEF LineVerifies
        <3>4. ~VerifyLogFile(f)
            BY <3>1, <3>3 DEF VerifyLogFile
        <3> QED BY <3>4 DEF f
    <2>4. ASSUME NEW i \in DOMAIN file, NEW e \in Event, e # file[i].event
          PROVE  ~VerifyLogFile([file EXCEPT ![i].event = e])
        <3> DEFINE f == [file EXCEPT ![i].event = e]
                   new == [file[i] EXCEPT !.event = e]
        <3>1. new \in Line /\ new.root = file[i].root /\ new.event = e
            <4>1. file[i] \in Line
                BY <2>1
            <4> QED BY <4>1 DEF Line
        <3>2. /\ f \in Seq(Line) /\ Len(f) = Len(file) /\ i \in 1..Len(f)
              /\ f[i].root = file[i].root /\ f[i].event = e
            <4>1. f = [file EXCEPT ![i] = new]
                OBVIOUS
            <4> HIDE DEF f, new
            <4>2. f \in Seq(Line) /\ Len(f) = Len(file) /\ i \in 1..Len(f) /\ f[i] = new
                BY <2>1, <3>1, <4>1
            <4> QED BY <3>1, <4>2
        <3> HIDE DEF f
        <3>3. SUFFICES ASSUME VerifyLogFile(f) PROVE FALSE
            BY DEF f
        <3>4. f[i].root = Events(SubSeq(f, 1, i)) /\ file[i].root = Events(SubSeq(file, 1, i))
            BY <2>1, <3>2, <3>3, VerifiedLines
        <3>5. Events(SubSeq(f, 1, i))[i] = f[i].event /\ Events(SubSeq(file, 1, i))[i] = file[i].event
            BY <2>1, <3>2 DEF Events
        <3> QED BY <2>4, <3>2, <3>4, <3>5
    <2> QED BY <2>1, <2>2, <2>3, <2>4 DEF EditsAreReported
<1> QED BY TypeCorrect, <1>1, PTL

-------------------------------------------------------------------------------
(***************************************************************************)
(* The Merkle tree behind the ledger, for leaves of any data and trees of  *)
(* any size (module MerkleTree).  Everything rests on RootSplits: the      *)
(* levels of the two parts into which RFC 6962 splits a list stay side by  *)
(* side until each of them is a single hash.                               *)
(***************************************************************************)
\* A set of numbers has a least one: what an induction over them rests on.
LEMMA LeastNumber ==
    ASSUME NEW T, T \subseteq Nat, T # {}
    PROVE  \E x \in T : \A y \in T : x <= y
<1>1. PICK x \in T : \A y \in T : ~ (<<y, x>> \in OpToRel(<, Nat))
    BY NatLessThanWellFounded, WFMin
<1>2. ASSUME NEW y \in T PROVE x <= y
    <2>1. ~ (y < x)
        BY <1>1 DEF OpToRel
    <2> QED BY <2>1
<1> QED BY <1>2

\* Approximations of a recursive function, each computed from the one value
\* before, agree wherever they are defined.
LEMMA Diagonal ==
    ASSUME NEW A, \A m, n \in Nat : A[m][0] = A[n][0],
           \A m, n, k \in Nat : k < m /\ k < n /\ A[m][k] = A[n][k] => A[m][k + 1] = A[n][k + 1]
    PROVE  \A n \in Nat : \A k \in 0..n : A[n][k] = A[k][k]
<1> DEFINE T == {k \in Nat : \E n \in Nat : k <= n /\ A[n][k] # A[k][k]}
<1>1. SUFFICES ASSUME T # {} PROVE FALSE
    OBVIOUS
<1>2. PICK k \in T : \A j \in T : k <= j
    BY <1>1, LeastNumber
<1>3. PICK n \in Nat : k <= n /\ A[n][k] # A[k][k]
    BY <1>2
<1>4. k # 0
    BY <1>3
<1>5. k - 1 \in Nat /\ k - 1 \notin T
    BY <1>2, <1>4
<1>6. A[n][k - 1] = A[k - 1][k - 1] /\ A[k][k - 1] = A[k - 1][k - 1]
    BY <1>3, <1>5
<1>7. A[n][(k - 1) + 1] = A[k][(k - 1) + 1]
    BY <1>3, <1>5, <1>6
<1> QED BY <1>3, <1>7

-------------------------------------------------------------------------------
\* The recursive functions of MerkleTree satisfy the equations they are defined
\* by.  Each is computed from the one value before, so it exists up to every n (the
\* lemma ...Exist), and the diagonal of these is the function (...Defined).
LevelsTo(x, n, g) == g = [k \in 0..n |-> IF k = 0 THEN x ELSE Up(g[k - 1])]

LEMMA LevelsExist ==
    ASSUME NEW x, NEW n \in Nat
    PROVE  \E g : LevelsTo(x, n, g)
<1> DEFINE T == {j \in Nat : ~\E g : LevelsTo(x, j, g)}
<1>1. SUFFICES ASSUME T # {} PROVE FALSE
    OBVIOUS
<1>2. PICK j \in T : \A i \in T : j <= i
    BY <1>1, LeastNumber
<1>3. CASE j = 0
    <2>1. LevelsTo(x, 0, [k \in 0..0 |-> x])
        BY DEF LevelsTo
    <2> QED BY <1>2, <1>3, <2>1
<1>4. CASE j # 0
    <2>1. j - 1 \in Nat /\ j - 1 \notin T
        BY <1>2, <1>4
    <2>2. PICK g : LevelsTo(x, j - 1, g)
        BY <2>1
    <2> DEFINE h == [k \in 0..j |-> IF k = j THEN Up(g[j - 1]) ELSE g[k]]
    <2>3. \A k \in 0..j - 1 : g[k] = IF k = 0 THEN x ELSE Up(g[k - 1])
        BY <2>2 DEF LevelsTo
    <2>4. ASSUME NEW k \in 0..j PROVE h[k] = IF k = 0 THEN x ELSE Up(h[k - 1])
        BY <1>2, <1>4, <2>3, <2>4
    <2>5. LevelsTo(x, j, h)
        BY <2>4 DEF LevelsTo
    <2> QED BY <1>2, <2>5
<1> QED BY <1>3, <1>4

LEMMA LevelsDefined ==
    ASSUME NEW x
    PROVE  /\ Levels(x)[0] = x
           /\ \A k \in Nat : Levels(x)[k + 1] = Up(Levels(x)[k])
<1> DEFINE A == [n \in Nat |-> CHOOSE g : LevelsTo(x, n, g)]
           f == [n \in Nat |-> A[n][n]]
<1>1. \A n \in Nat : LevelsTo(x, n, A[n])
    BY LevelsExist
<1> HIDE DEF A
<1>2. \A n \in Nat : A[n][0] = x /\ \A k \in Nat : k < n => A[n][k + 1] = Up(A[n][k])
    <2> SUFFICES ASSUME NEW n \in Nat
                 PROVE  A[n][0] = x /\ \A k \in Nat : k < n => A[n][k + 1] = Up(A[n][k])
        OBVIOUS
    <2>1. \A k \in 0..n : A[n][k] = IF k = 0 THEN x ELSE Up(A[n][k - 1])
        BY <1>1 DEF LevelsTo
    <2>2. ASSUME NEW k \in Nat, k < n PROVE A[n][k + 1] = Up(A[n][k])
        BY <2>1, <2>2, k + 1 \in 0..n, k + 1 # 0, (k + 1) - 1 = k
    <2> QED BY <2>1, <2>2
<1>3. \A n \in Nat : \A k \in 0..n : A[n][k] = A[k][k]
    BY <1>2, Diagonal
<1>4. ASSUME NEW n \in Nat PROVE f[n] = IF n = 0 THEN x ELSE Up(f[n - 1])
    <2>1. CASE n # 0
        <3>1. n - 1 \in Nat /\ n - 1 < n /\ n - 1 \in 0..n /\ (n - 1) + 1 = n
            BY <2>1
        <3>2. A[n][n] = Up(A[n][n - 1]) /\ A[n][n - 1] = A[n - 1][n - 1]
            BY <1>2, <1>3, <3>1
        <3> QED BY <2>1, <3>1, <3>2
    <2> QED BY <1>2, <2>1
<1>5. f = [k \in Nat |-> IF k = 0 THEN x ELSE Up(f[k - 1])]
    BY <1>4
<1> HIDE DEF f
<1>6. Levels(x) = [k \in Nat |-> IF k = 0 THEN x ELSE Up(Levels(x)[k - 1])]
    BY <1>5 DEF Levels
<1>7. ASSUME NEW k \in Nat PROVE Levels(x)[k + 1] = Up(Levels(x)[k])
    BY <1>6, k + 1 \in Nat, k + 1 # 0, (k + 1) - 1 = k
<1> QED BY <1>6, <1>7

StepsFrom(hashes, index) == [level |-> hashes, index |-> index, path |-> <<>>]

StepsTo(hashes, index, n, g) ==
    g = [k \in 0..n |-> IF k = 0 THEN StepsFrom(hashes, index) ELSE Step(g[k - 1])]

LEMMA StepsExist ==
    ASSUME NEW hashes, NEW index, NEW n \in Nat
    PROVE  \E g : StepsTo(hashes, index, n, g)
<1> DEFINE T == {j \in Nat : ~\E g : StepsTo(hashes, index, j, g)}
<1>1. SUFFICES ASSUME T # {} PROVE FALSE
    OBVIOUS
<1>2. PICK j \in T : \A i \in T : j <= i
    BY <1>1, LeastNumber
<1>3. CASE j = 0
    <2>1. StepsTo(hashes, index, 0, [k \in 0..0 |-> StepsFrom(hashes, index)])
        BY DEF StepsTo
    <2> QED BY <1>2, <1>3, <2>1
<1>4. CASE j # 0
    <2>1. j - 1 \in Nat /\ j - 1 \notin T
        BY <1>2, <1>4
    <2>2. PICK g : StepsTo(hashes, index, j - 1, g)
        BY <2>1
    <2> DEFINE h == [k \in 0..j |-> IF k = j THEN Step(g[j - 1]) ELSE g[k]]
    <2>3. \A k \in 0..j - 1 : g[k] = IF k = 0 THEN StepsFrom(hashes, index) ELSE Step(g[k - 1])
        BY <2>2 DEF StepsTo
    <2>4. ASSUME NEW k \in 0..j
          PROVE  h[k] = IF k = 0 THEN StepsFrom(hashes, index) ELSE Step(h[k - 1])
        BY <1>2, <1>4, <2>3, <2>4
    <2>5. StepsTo(hashes, index, j, h)
        BY <2>4 DEF StepsTo
    <2> QED BY <1>2, <2>5
<1> QED BY <1>3, <1>4

LEMMA StepsDefined ==
    ASSUME NEW hashes, NEW index
    PROVE  /\ Steps(hashes, index)[0] = StepsFrom(hashes, index)
           /\ \A k \in Nat : Steps(hashes, index)[k + 1] = Step(Steps(hashes, index)[k])
<1> DEFINE A == [n \in Nat |-> CHOOSE g : StepsTo(hashes, index, n, g)]
           f == [n \in Nat |-> A[n][n]]
<1>1. \A n \in Nat : StepsTo(hashes, index, n, A[n])
    BY StepsExist
<1> HIDE DEF A
<1>2. \A n \in Nat : /\ A[n][0] = StepsFrom(hashes, index)
                     /\ \A k \in Nat : k < n => A[n][k + 1] = Step(A[n][k])
    <2> SUFFICES ASSUME NEW n \in Nat
                 PROVE  /\ A[n][0] = StepsFrom(hashes, index)
                        /\ \A k \in Nat : k < n => A[n][k + 1] = Step(A[n][k])
        OBVIOUS
    <2>1. \A k \in 0..n : A[n][k] = IF k = 0 THEN StepsFrom(hashes, index) ELSE Step(A[n][k - 1])
        BY <1>1 DEF StepsTo
    <2>2. ASSUME NEW k \in Nat, k < n PROVE A[n][k + 1] = Step(A[n][k])
        BY <2>1, <2>2, k + 1 \in 0..n, k + 1 # 0, (k + 1) - 1 = k
    <2> QED BY <2>1, <2>2
<1>3. \A n \in Nat : \A k \in 0..n : A[n][k] = A[k][k]
    BY <1>2, Diagonal
<1>4. ASSUME NEW n \in Nat PROVE f[n] = IF n = 0 THEN StepsFrom(hashes, index) ELSE Step(f[n - 1])
    <2>1. CASE n # 0
        <3>1. n - 1 \in Nat /\ n - 1 < n /\ n - 1 \in 0..n /\ (n - 1) + 1 = n
            BY <2>1
        <3>2. A[n][n] = Step(A[n][n - 1]) /\ A[n][n - 1] = A[n - 1][n - 1]
            BY <1>2, <1>3, <3>1
        <3> QED BY <2>1, <3>1, <3>2
    <2> QED BY <1>2, <2>1
<1>5. f = [k \in Nat |-> IF k = 0 THEN StepsFrom(hashes, index) ELSE Step(f[k - 1])]
    BY <1>4
<1> HIDE DEF f
<1>6. Steps(hashes, index) =
        [k \in Nat |-> IF k = 0 THEN StepsFrom(hashes, index)
                       ELSE Step(Steps(hashes, index)[k - 1])]
    BY <1>5 DEF Steps, StepsFrom
<1>7. ASSUME NEW k \in Nat PROVE Steps(hashes, index)[k + 1] = Step(Steps(hashes, index)[k])
    BY <1>6, k + 1 \in Nat, k + 1 # 0, (k + 1) - 1 = k
<1> QED BY <1>6, <1>7

ClimbingTo(leaf, path, n, g) == g = [k \in 0..n |-> IF k = 0 THEN leaf ELSE Join(g[k - 1], path[k])]

LEMMA ClimbingExist ==
    ASSUME NEW leaf, NEW path, NEW n \in Nat
    PROVE  \E g : ClimbingTo(leaf, path, n, g)
<1> DEFINE T == {j \in Nat : ~\E g : ClimbingTo(leaf, path, j, g)}
<1>1. SUFFICES ASSUME T # {} PROVE FALSE
    OBVIOUS
<1>2. PICK j \in T : \A i \in T : j <= i
    BY <1>1, LeastNumber
<1>3. CASE j = 0
    <2>1. ClimbingTo(leaf, path, 0, [k \in 0..0 |-> leaf])
        BY DEF ClimbingTo
    <2> QED BY <1>2, <1>3, <2>1
<1>4. CASE j # 0
    <2>1. j - 1 \in Nat /\ j - 1 \notin T
        BY <1>2, <1>4
    <2>2. PICK g : ClimbingTo(leaf, path, j - 1, g)
        BY <2>1
    <2> DEFINE h == [k \in 0..j |-> IF k = j THEN Join(g[j - 1], path[j]) ELSE g[k]]
    <2>3. \A k \in 0..j - 1 : g[k] = IF k = 0 THEN leaf ELSE Join(g[k - 1], path[k])
        BY <2>2 DEF ClimbingTo
    <2>4. ASSUME NEW k \in 0..j PROVE h[k] = IF k = 0 THEN leaf ELSE Join(h[k - 1], path[k])
        BY <1>2, <1>4, <2>3, <2>4
    <2>5. ClimbingTo(leaf, path, j, h)
        BY <2>4 DEF ClimbingTo
    <2> QED BY <1>2, <2>5
<1> QED BY <1>3, <1>4

LEMMA ClimbingDefined ==
    ASSUME NEW leaf, NEW path
    PROVE  /\ Climbing(leaf, path)[0] = leaf
           /\ \A k \in Nat :
                 Climbing(leaf, path)[k + 1] = Join(Climbing(leaf, path)[k], path[k + 1])
<1> DEFINE A == [n \in Nat |-> CHOOSE g : ClimbingTo(leaf, path, n, g)]
           f == [n \in Nat |-> A[n][n]]
<1>1. \A n \in Nat : ClimbingTo(leaf, path, n, A[n])
    BY ClimbingExist
<1> HIDE DEF A
<1>2. \A n \in Nat : /\ A[n][0] = leaf
                     /\ \A k \in Nat : k < n => A[n][k + 1] = Join(A[n][k], path[k + 1])
    <2> SUFFICES ASSUME NEW n \in Nat
                 PROVE  /\ A[n][0] = leaf
                        /\ \A k \in Nat : k < n => A[n][k + 1] = Join(A[n][k], path[k + 1])
        OBVIOUS
    <2>1. \A k \in 0..n : A[n][k] = IF k = 0 THEN leaf ELSE Join(A[n][k - 1], path[k])
        BY <1>1 DEF ClimbingTo
    <2>2. ASSUME NEW k \in Nat, k < n PROVE A[n][k + 1] = Join(A[n][k], path[k + 1])
        BY <2>1, <2>2, k + 1 \in 0..n, k + 1 # 0, (k + 1) - 1 = k
    <2> QED BY <2>1, <2>2
<1>3. \A n \in Nat : \A k \in 0..n : A[n][k] = A[k][k]
    BY <1>2, Diagonal
<1>4. ASSUME NEW n \in Nat PROVE f[n] = IF n = 0 THEN leaf ELSE Join(f[n - 1], path[n])
    <2>1. CASE n # 0
        <3>1. n - 1 \in Nat /\ n - 1 < n /\ n - 1 \in 0..n /\ (n - 1) + 1 = n
            BY <2>1
        <3>2. A[n][n] = Join(A[n][n - 1], path[n]) /\ A[n][n - 1] = A[n - 1][n - 1]
            BY <1>2, <1>3, <3>1
        <3> QED BY <2>1, <3>1, <3>2
    <2> QED BY <1>2, <2>1
<1>5. f = [k \in Nat |-> IF k = 0 THEN leaf ELSE Join(f[k - 1], path[k])]
    BY <1>4
<1> HIDE DEF f
<1>6. Climbing(leaf, path) =
        [k \in Nat |-> IF k = 0 THEN leaf ELSE Join(Climbing(leaf, path)[k - 1], path[k])]
    BY <1>5 DEF Climbing
<1>7. ASSUME NEW k \in Nat
      PROVE  Climbing(leaf, path)[k + 1] = Join(Climbing(leaf, path)[k], path[k + 1])
    BY <1>6, k + 1 \in Nat, k + 1 # 0, (k + 1) - 1 = k
<1> QED BY <1>6, <1>7

PowerTo(n, g) == g = [k \in 0..n |-> IF k = 0 THEN 1 ELSE 2 * g[k - 1]]

LEMMA PowerExist ==
    ASSUME NEW n \in Nat
    PROVE  \E g : PowerTo(n, g)
<1> DEFINE T == {j \in Nat : ~\E g : PowerTo(j, g)}
<1>1. SUFFICES ASSUME T # {} PROVE FALSE
    OBVIOUS
<1>2. PICK j \in T : \A i \in T : j <= i
    BY <1>1, LeastNumber
<1>3. CASE j = 0
    <2>1. PowerTo(0, [k \in 0..0 |-> 1])
        BY DEF PowerTo
    <2> QED BY <1>2, <1>3, <2>1
<1>4. CASE j # 0
    <2>1. j - 1 \in Nat /\ j - 1 \notin T
        BY <1>2, <1>4
    <2>2. PICK g : PowerTo(j - 1, g)
        BY <2>1
    <2> DEFINE h == [k \in 0..j |-> IF k = j THEN 2 * g[j - 1] ELSE g[k]]
    <2>3. \A k \in 0..j - 1 : g[k] = IF k = 0 THEN 1 ELSE 2 * g[k - 1]
        BY <2>2 DEF PowerTo
    <2>4. ASSUME NEW k \in 0..j PROVE h[k] = IF k = 0 THEN 1 ELSE 2 * h[k - 1]
        BY <1>2, <1>4, <2>3, <2>4
    <2>5. PowerTo(j, h)
        BY <2>4 DEF PowerTo
    <2> QED BY <1>2, <2>5
<1> QED BY <1>3, <1>4

LEMMA PowerDefined ==
    /\ Power[0] = 1
    /\ \A k \in Nat : Power[k + 1] = 2 * Power[k]
<1> DEFINE A == [n \in Nat |-> CHOOSE g : PowerTo(n, g)]
           f == [n \in Nat |-> A[n][n]]
<1>1. \A n \in Nat : PowerTo(n, A[n])
    BY PowerExist
<1> HIDE DEF A
<1>2. \A n \in Nat : A[n][0] = 1 /\ \A k \in Nat : k < n => A[n][k + 1] = 2 * A[n][k]
    <2> SUFFICES ASSUME NEW n \in Nat
                 PROVE  A[n][0] = 1 /\ \A k \in Nat : k < n => A[n][k + 1] = 2 * A[n][k]
        OBVIOUS
    <2>1. \A k \in 0..n : A[n][k] = IF k = 0 THEN 1 ELSE 2 * A[n][k - 1]
        BY <1>1 DEF PowerTo
    <2>2. ASSUME NEW k \in Nat, k < n PROVE A[n][k + 1] = 2 * A[n][k]
        BY <2>1, <2>2, k + 1 \in 0..n, k + 1 # 0, (k + 1) - 1 = k
    <2> QED BY <2>1, <2>2
<1>3. \A n \in Nat : \A k \in 0..n : A[n][k] = A[k][k]
    BY <1>2, Diagonal
<1>4. ASSUME NEW n \in Nat PROVE f[n] = IF n = 0 THEN 1 ELSE 2 * f[n - 1]
    <2>1. CASE n # 0
        <3>1. n - 1 \in Nat /\ n - 1 < n /\ n - 1 \in 0..n /\ (n - 1) + 1 = n
            BY <2>1
        <3>2. A[n][n] = 2 * A[n][n - 1] /\ A[n][n - 1] = A[n - 1][n - 1]
            BY <1>2, <1>3, <3>1
        <3> QED BY <2>1, <3>1, <3>2
    <2> QED BY <1>2, <2>1
<1>5. f = [k \in Nat |-> IF k = 0 THEN 1 ELSE 2 * f[k - 1]]
    BY <1>4
<1> HIDE DEF f
<1>6. Power = [k \in Nat |-> IF k = 0 THEN 1 ELSE 2 * Power[k - 1]]
    BY <1>5 DEF Power
<1>7. ASSUME NEW k \in Nat PROVE Power[k + 1] = 2 * Power[k]
    BY <1>6, k + 1 \in Nat, k + 1 # 0, (k + 1) - 1 = k
<1> QED BY <1>6, <1>7

-------------------------------------------------------------------------------
\* Lists of hashes, of whatever kind.
IsList(s) == s \in Seq({s[i] : i \in DOMAIN s})

LEMMA ListShape ==
    ASSUME NEW s, IsList(s)
    PROVE  /\ Len(s) \in Nat /\ DOMAIN s = 1..Len(s)
           /\ s = [i \in 1..Len(s) |-> s[i]]
BY DEF IsList

LEMMA ListFrom ==
    ASSUME NEW n \in Nat, NEW s, s = [i \in 1..n |-> s[i]]
    PROVE  IsList(s) /\ Len(s) = n
BY DEF IsList

LEMMA ListOf ==
    ASSUME NEW S, NEW s \in Seq(S)
    PROVE  IsList(s)
<1>1. Len(s) \in Nat /\ s = [i \in 1..Len(s) |-> s[i]]
    OBVIOUS
<1> QED BY <1>1, ListFrom

LEMMA SameList ==
    ASSUME NEW s, NEW t, IsList(s), IsList(t), Len(s) = Len(t),
           \A i \in 1..Len(s) : s[i] = t[i]
    PROVE  s = t
<1>1. /\ s = [i \in 1..Len(s) |-> s[i]] /\ t = [i \in 1..Len(s) |-> t[i]]
    BY ListShape
<1> QED BY <1>1

\* One level up is a list of half the length, rounded up; Up is NextLevel, at
\* the top too.
LEMMA UpShape ==
    ASSUME NEW x, IsList(x)
    PROVE  /\ Up(x) = NextLevel(x) /\ IsList(Up(x))
           /\ Len(Up(x)) = (Len(x) + 1) \div 2
           /\ \A i \in 1..(Len(x) + 1) \div 2 :
                 Up(x)[i] = IF 2 * i <= Len(x) THEN HashNode(x[2 * i - 1], x[2 * i])
                            ELSE x[2 * i - 1]
<1> DEFINE n == Len(x)
           y == NextLevel(x)
           m == (n + 1) \div 2
<1>1. n \in Nat /\ x = [i \in 1..n |-> x[i]]
    BY ListShape
<1>2. m \in Nat
    BY <1>1
<1>3. \A i \in 1..m : y[i] = IF 2 * i <= n THEN HashNode(x[2 * i - 1], x[2 * i]) ELSE x[2 * i - 1]
    BY DEF NextLevel
<1>4. y = [i \in 1..m |-> y[i]]
    BY DEF NextLevel
<1> HIDE DEF y
<1>5. IsList(y) /\ Len(y) = m
    BY <1>2, <1>4, ListFrom
<1>6. Up(x) = y
    <2>1. CASE n <= 1
        <3>1. n = 0 \/ n = 1
            BY <1>1, <2>1
        <3>2. m = n
            <4>1. (0 + 1) \div 2 = 0 /\ (1 + 1) \div 2 = 1
                OBVIOUS
            <4> HIDE DEF n
            <4> QED BY <3>1, <4>1
        <3>3. ASSUME NEW i \in 1..n PROVE y[i] = x[i]
            <4>1. i = 1 /\ n = 1 /\ i \in 1..m /\ 2 * i - 1 = i /\ ~(2 * i <= n)
                BY <3>1, <3>2
            <4> HIDE DEF n, m
            <4> QED BY <1>3, <4>1
        <3>4. y = x
            BY <1>5, <3>2, <3>3, SameList
        <3> QED BY <2>1, <3>4 DEF Up
    <2>2. CASE ~(n <= 1)
        BY <2>2 DEF Up, y
    <2> QED BY <2>1, <2>2
<1> HIDE DEF n, m
<1> QED BY <1>3, <1>5, <1>6 DEF y, n, m

\* A level has at least one element, and fewer the higher it is.
LEMMA LevelShape ==
    ASSUME NEW x, IsList(x), NEW k \in Nat
    PROVE  /\ IsList(Levels(x)[k])
           /\ x # <<>> => /\ Len(Levels(x)[k]) >= 1
                          /\ Len(Levels(x)[k]) = 1 \/ Len(Levels(x)[k]) + k <= Len(x)
<1> DEFINE L(j) == Levels(x)[j]
           P(j) == /\ IsList(L(j))
                   /\ x # <<>> => Len(L(j)) >= 1 /\ (Len(L(j)) = 1 \/ Len(L(j)) + j <= Len(x))
           T == {j \in Nat : ~P(j)}
<1>1. SUFFICES ASSUME T # {} PROVE FALSE
    OBVIOUS
<1>2. PICK j \in T : \A i \in T : j <= i
    BY <1>1, LeastNumber
<1>3. CASE j = 0
    <2>1. L(0) = x
        BY LevelsDefined
    <2>2. Len(x) \in Nat /\ (x # <<>> => Len(x) # 0)
        BY ListShape DEF IsList
    <2> QED BY <1>2, <1>3, <2>1, <2>2
<1>4. CASE j # 0
    <2>1. j - 1 \in Nat /\ P(j - 1) /\ (j - 1) + 1 = j
        BY <1>2, <1>4
    <2>2. L(j) = Up(L(j - 1))
        BY <2>1, LevelsDefined
    <2> DEFINE m == Len(L(j - 1))
    <2>3. IsList(L(j)) /\ Len(L(j)) = (m + 1) \div 2 /\ m \in Nat
        BY <2>1, <2>2, UpShape, ListShape
    <2>4. ASSUME x # <<>> PROVE Len(L(j)) >= 1 /\ (Len(L(j)) = 1 \/ Len(L(j)) + j <= Len(x))
        <3>1. m >= 1 /\ (m = 1 \/ m + (j - 1) <= Len(x))
            BY <2>1, <2>4
        <3>2. Len(x) \in Nat
            BY ListShape
        <3> HIDE DEF L, m
        <3> QED BY <1>2, <2>3, <3>1, <3>2
    <2> QED BY <1>2, <2>3, <2>4
<1> QED BY <1>3, <1>4

\* Once a single hash is left it stays, and it is the root.
LEMMA RootAt ==
    ASSUME NEW x, IsList(x), x # <<>>, NEW j \in Nat, Len(Levels(x)[j]) = 1
    PROVE  ComputeRoot(x) = Levels(x)[j][1]
<1> DEFINE L(k) == Levels(x)[k]
<1>1. ASSUME NEW i \in Nat, Len(L(i)) = 1, NEW k \in Nat, i <= k
      PROVE  L(k) = L(i)
    <2> DEFINE T == {m \in Nat : i <= m /\ L(m) # L(i)}
    <2>1. SUFFICES ASSUME T # {} PROVE FALSE
        BY <1>1
    <2>2. PICK m \in T : \A p \in T : m <= p
        BY <2>1, LeastNumber
    <2>3. m - 1 \in Nat /\ i <= m - 1 /\ m - 1 \notin T /\ (m - 1) + 1 = m
        BY <2>2
    <2>4. L(m - 1) = L(i)
        BY <2>3
    <2>5. L(m) = Up(L(m - 1))
        BY <2>3, LevelsDefined
    <2>6. Up(L(i)) = L(i)
        BY <1>1 DEF Up
    <2> QED BY <2>2, <2>4, <2>5, <2>6
<1>2. Len(x) \in Nat
    BY ListShape
<1>3. Len(L(Len(x))) = 1
    <2>1. Len(L(Len(x))) >= 1 /\ (Len(L(Len(x))) = 1 \/ Len(L(Len(x))) + Len(x) <= Len(x))
        BY <1>2, LevelShape
    <2>2. Len(L(Len(x))) \in Nat
        BY <1>2, LevelShape, ListShape
    <2> QED BY <1>2, <2>1, <2>2
<1>4. L(Len(x)) = L(j)
    BY <1>1, <1>2, <1>3, j <= Len(x) \/ Len(x) <= j
<1> QED BY <1>4 DEF ComputeRoot

-------------------------------------------------------------------------------
\* The root of a list is the hash of the roots of its two parts, when it is split
\* as in RFC 6962.
LEMMA PowerGrows ==
    \A j \in Nat : Power[j] \in Nat /\ j < Power[j]
<1> DEFINE T == {j \in Nat : ~(Power[j] \in Nat /\ j < Power[j])}
<1>1. SUFFICES ASSUME T # {} PROVE FALSE
    OBVIOUS
<1>2. PICK j \in T : \A i \in T : j <= i
    BY <1>1, LeastNumber
<1>3. j # 0
    BY <1>2, PowerDefined
<1>4. j - 1 \in Nat /\ j - 1 \notin T /\ (j - 1) + 1 = j
    BY <1>2, <1>3
<1>5. Power[j] = 2 * Power[j - 1] /\ Power[j - 1] \in Nat /\ j - 1 < Power[j - 1]
    BY <1>4, PowerDefined
<1>6. Power[j] \in Nat /\ j < Power[j]
    BY <1>4, <1>5
<1> QED BY <1>2, <1>6

\* The split point is a power of two smaller than the length, and at least half
\* of it.
LEMMA SplitPointIs ==
    ASSUME NEW n \in Nat, n >= 2
    PROVE  \E j \in Nat : SplitPoint(n) = Power[j] /\ Power[j] < n /\ n <= 2 * Power[j]
<1> DEFINE T == {j \in Nat : n <= 2 * Power[j]}
<1>1. n \in T
    BY PowerGrows
<1>2. PICK j \in T : \A i \in T : j <= i
    BY <1>1, LeastNumber
<1>3. j \in 0..n /\ n <= 2 * Power[j]
    BY <1>1, <1>2
<1>4. Power[j] < n
    <2>1. CASE j = 0
        BY <2>1, PowerDefined
    <2>2. CASE j # 0
        <3>1. j - 1 \in Nat /\ j - 1 \notin T /\ (j - 1) + 1 = j
            BY <1>2, <2>2
        <3>2. Power[j] = 2 * Power[j - 1] /\ ~(n <= 2 * Power[j - 1]) /\ Power[j - 1] \in Nat
            BY <3>1, PowerDefined, PowerGrows
        <3> QED BY <3>2
    <2> QED BY <2>1, <2>2
<1> DEFINE S == {Power[i] : i \in 0..n}
<1>5. \E k \in S : k < n /\ n <= 2 * k
    BY <1>3, <1>4
<1>6. SplitPoint(n) \in S /\ SplitPoint(n) < n /\ n <= 2 * SplitPoint(n)
    BY <1>5 DEF SplitPoint
<1>7. PICK i \in 0..n : SplitPoint(n) = Power[i]
    BY <1>6
<1> QED BY <1>6, <1>7

\* The elements of x from a to b.
Part(x, a, b) == [i \in 1..b - a + 1 |-> x[a + i - 1]]

LEMMA PartShape ==
    ASSUME NEW x, NEW k \in Nat, NEW n \in Nat
    PROVE  /\ IsList(Part(x, k + 1, k + n)) /\ Len(Part(x, k + 1, k + n)) = n
           /\ \A i \in 1..n : Part(x, k + 1, k + n)[i] = x[k + i]
<1> DEFINE p == Part(x, k + 1, k + n)
<1>1. (k + n) - (k + 1) + 1 = n /\ \A i \in 1..n : k + 1 + i - 1 = k + i
    OBVIOUS
<1>2. p = [i \in 1..n |-> x[k + i]]
    BY <1>1 DEF Part
<1> HIDE DEF p
<1>3. p = [i \in 1..n |-> p[i]] /\ \A i \in 1..n : p[i] = x[k + i]
    BY <1>2
<1>4. IsList(p) /\ Len(p) = n
    BY <1>3, ListFrom
<1> QED BY <1>3, <1>4 DEF p

LEMMA FirstShape ==
    ASSUME NEW x, NEW n \in Nat
    PROVE  /\ IsList(Part(x, 1, n)) /\ Len(Part(x, 1, n)) = n
           /\ \A i \in 1..n : Part(x, 1, n)[i] = x[i]
<1> DEFINE p == Part(x, 0 + 1, 0 + n)
<1>1. /\ IsList(p) /\ Len(p) = n
      /\ \A i \in 1..n : p[i] = x[0 + i]
    BY PartShape, 0 \in Nat
<1>2. p = Part(x, 1, n) /\ \A i \in 1..n : 0 + i = i
    BY 0 + 1 = 1, 0 + n = n
<1> HIDE DEF p
<1> QED BY <1>1, <1>2

\* A level above the even number 2q of hashes is two levels side by side.
LEMMA UpSplits ==
    ASSUME NEW x, IsList(x), NEW q \in Nat, q >= 1, 2 * q < Len(x)
    PROVE  /\ q < Len(Up(x)) /\ Len(Up(x)) \in Nat
           /\ Up(Part(x, 1, 2 * q)) = Part(Up(x), 1, q)
           /\ Up(Part(x, 2 * q + 1, Len(x))) = Part(Up(x), q + 1, Len(Up(x)))
<1> DEFINE n == Len(x)
           y == Up(x)
           m == Len(y)
           a == Part(x, 1, 2 * q)
           b == Part(x, 2 * q + 1, n)
           c == Part(y, 1, q)
           d == Part(y, q + 1, m)
<1>1. /\ n \in Nat /\ 2 * q < n /\ m = (n + 1) \div 2
      /\ \A i \in 1..m : y[i] = IF 2 * i <= n THEN HashNode(x[2 * i - 1], x[2 * i])
                                ELSE x[2 * i - 1]
    BY UpShape, ListShape
<1> HIDE DEF n, y, m
<1>2. m \in Nat /\ q < m /\ (n - 2 * q + 1) \div 2 = m - q
    BY <1>1
<1>3. /\ IsList(a) /\ Len(a) = 2 * q /\ \A i \in 1..2 * q : a[i] = x[i]
    BY 2 * q \in Nat, FirstShape
<1>4. /\ IsList(b) /\ Len(b) = n - 2 * q /\ \A i \in 1..n - 2 * q : b[i] = x[2 * q + i]
    <2>1. n - 2 * q \in Nat /\ 2 * q \in Nat /\ n = 2 * q + (n - 2 * q)
        <3>1. n \in Nat /\ q \in Nat /\ 2 * q < n
            BY <1>1
        <3> QED BY ONLY <3>1
    <2>2. b = Part(x, 2 * q + 1, 2 * q + (n - 2 * q))
        BY <2>1
    <2> HIDE DEF b
    <2> QED BY <2>1, <2>2, PartShape
<1>5. /\ IsList(c) /\ Len(c) = q /\ \A i \in 1..q : c[i] = y[i]
    BY ONLY q \in Nat, FirstShape
<1>6. /\ IsList(d) /\ Len(d) = m - q /\ \A i \in 1..m - q : d[i] = y[q + i]
    <2>1. m - q \in Nat /\ m = q + (m - q)
        BY <1>2
    <2>2. d = Part(y, q + 1, q + (m - q))
        BY <2>1
    <2> HIDE DEF d
    <2> QED BY <2>1, <2>2, PartShape
<1> HIDE DEF a, b, c, d
<1>7. Up(a) = c
    <2>1. /\ IsList(Up(a)) /\ Len(Up(a)) = (2 * q + 1) \div 2
          /\ \A i \in 1..(2 * q + 1) \div 2 :
                Up(a)[i] = IF 2 * i <= 2 * q THEN HashNode(a[2 * i - 1], a[2 * i]) ELSE a[2 * i - 1]
        BY <1>3, UpShape
    <2>2. (2 * q + 1) \div 2 = q
        OBVIOUS
    <2>3. ASSUME NEW i \in 1..q PROVE Up(a)[i] = c[i]
        <3>1. /\ 2 * i - 1 \in 1..2 * q /\ 2 * i \in 1..2 * q /\ 2 * i <= 2 * q
              /\ 2 * i <= n /\ i \in 1..m
            BY <1>1, <1>2
        <3>2. a[2 * i - 1] = x[2 * i - 1] /\ a[2 * i] = x[2 * i]
            BY <1>3, <3>1
        <3> QED BY <1>1, <1>5, <2>1, <2>2, <3>1, <3>2
    <2> QED BY <1>5, <2>1, <2>2, <2>3, SameList
<1>8. Up(b) = d
    <2>1. /\ IsList(Up(b)) /\ Len(Up(b)) = (n - 2 * q + 1) \div 2
          /\ \A i \in 1..(n - 2 * q + 1) \div 2 :
                Up(b)[i] = IF 2 * i <= n - 2 * q THEN HashNode(b[2 * i - 1], b[2 * i])
                           ELSE b[2 * i - 1]
        BY <1>4, UpShape
    <2>2. ASSUME NEW i \in 1..m - q PROVE Up(b)[i] = d[i]
        <3>1. /\ q + i \in 1..m /\ 2 * i - 1 \in 1..n - 2 * q
              /\ 2 * i <= n - 2 * q <=> 2 * (q + i) <= n
              /\ 2 * i <= n - 2 * q => 2 * i \in 1..n - 2 * q
              /\ 2 * (q + i) - 1 = 2 * q + (2 * i - 1) /\ 2 * (q + i) = 2 * q + 2 * i
            <4>1. n <= 2 * m /\ 2 * m <= n + 1 /\ n \in Nat /\ q \in Nat
                BY <1>1, <1>2
            <4>2. i \in Nat /\ 1 <= i /\ i <= m - q
                BY <1>2
            <4> QED BY ONLY <1>2, <4>1, <4>2
        <3>2. b[2 * i - 1] = x[2 * (q + i) - 1]
            BY <1>4, <3>1
        <3>3. 2 * i <= n - 2 * q => b[2 * i] = x[2 * (q + i)]
            BY <1>4, <3>1
        <3>4. Up(b)[i] = IF 2 * i <= n - 2 * q THEN HashNode(b[2 * i - 1], b[2 * i])
                         ELSE b[2 * i - 1]
            BY <1>2, <2>1
        <3>5. d[i] = y[q + i]
            BY <1>6
        <3>6. y[q + i] = IF 2 * (q + i) <= n THEN HashNode(x[2 * (q + i) - 1], x[2 * (q + i)])
                         ELSE x[2 * (q + i) - 1]
            BY <1>1, <3>1
        <3> QED BY <3>1, <3>2, <3>3, <3>4, <3>5, <3>6
    <2> QED BY <1>2, <1>6, <2>1, <2>2, SameList
<1> QED BY <1>2, <1>7, <1>8 DEF a, b, c, d, n, m, y

LEMMA OneShape ==
    ASSUME NEW x, NEW i \in Nat, i >= 1
    PROVE  Len(Part(x, i, i)) = 1 /\ Part(x, i, i)[1] = x[i]
<1> DEFINE p == Part(x, (i - 1) + 1, (i - 1) + 1)
<1>1. Len(p) = 1 /\ p[1] = x[(i - 1) + 1]
    BY PartShape, i - 1 \in Nat, 1 \in Nat, 1 \in 1..1
<1>2. p = Part(x, i, i) /\ (i - 1) + 1 = i
    BY (i - 1) + 1 = i
<1> HIDE DEF p
<1> QED BY <1>1, <1>2

\* The two parts stay apart until each is a single hash.
SplitsAt(x, j, i) ==
    LET y == Levels(x)[i]
        q == Power[j - i]
    IN  /\ q < Len(y) /\ Len(y) <= 2 * q
        /\ Levels(Part(x, 1, Power[j]))[i] = Part(y, 1, q)
        /\ Levels(Part(x, Power[j] + 1, Len(x)))[i] = Part(y, q + 1, Len(y))

LEMMA LevelsSplit ==
    ASSUME NEW x, IsList(x), NEW j \in Nat, Power[j] < Len(x), Len(x) <= 2 * Power[j]
    PROVE  \A i \in 0..j : SplitsAt(x, j, i)
<1> DEFINE T == {i \in Nat : i <= j /\ ~SplitsAt(x, j, i)}
<1>1. SUFFICES ASSUME T # {} PROVE FALSE
    OBVIOUS
<1>2. PICK i \in T : \A h \in T : i <= h
    BY <1>1, LeastNumber
<1>3. CASE i = 0
    <2>1. Levels(x)[i] = x /\ Power[j - i] = Power[j]
        BY <1>3, LevelsDefined, j - 0 = j
    <2>2. SplitsAt(x, j, i)
        BY <1>3, <2>1, LevelsDefined DEF SplitsAt
    <2> QED BY <1>2, <2>2
<1>4. CASE i # 0
    <2> DEFINE y == Levels(x)[i - 1]
               z == Levels(x)[i]
               q == Power[j - i]
               a == Part(x, 1, Power[j])
               b == Part(x, Power[j] + 1, Len(x))
    <2>1. /\ i - 1 \in Nat /\ i - 1 \notin T /\ i - 1 <= j /\ (i - 1) + 1 = i
          /\ j - i \in Nat /\ (j - i) + 1 = j - (i - 1)
        BY <1>2, <1>4
    <2>2. /\ Power[j - (i - 1)] = 2 * q /\ q \in Nat /\ q >= 1
        <3>1. Power[(j - i) + 1] = 2 * Power[j - i]
            BY <2>1, PowerDefined
        <3>2. Power[j - i] \in Nat /\ j - i < Power[j - i]
            BY <2>1, PowerGrows
        <3> QED BY <2>1, <3>1, <3>2
    <2>3. SplitsAt(x, j, i - 1)
        BY <2>1
    <2>4. /\ 2 * q < Len(y) /\ Len(y) <= 2 * (2 * q)
          /\ Levels(a)[i - 1] = Part(y, 1, 2 * q)
          /\ Levels(b)[i - 1] = Part(y, 2 * q + 1, Len(y))
        BY <2>2, <2>3 DEF SplitsAt
    <2>5. IsList(y) /\ Len(y) \in Nat
        BY <2>1, LevelShape, ListShape
    <2>6. z = Up(y) /\ Levels(a)[i] = Up(Levels(a)[i - 1]) /\ Levels(b)[i] = Up(Levels(b)[i - 1])
        <3>1. \A u : Levels(u)[(i - 1) + 1] = Up(Levels(u)[i - 1])
            BY <2>1, LevelsDefined
        <3> QED BY <2>1, <3>1
    <2> HIDE DEF y, z, q, a, b
    <2>7. /\ q < Len(z) /\ Levels(a)[i] = Part(z, 1, q)
          /\ Levels(b)[i] = Part(z, q + 1, Len(z))
        BY <2>2, <2>4, <2>5, <2>6, UpSplits
    <2>8. Len(z) <= 2 * q
        <3>1. Len(z) = (Len(y) + 1) \div 2
            BY <2>5, <2>6, UpShape
        <3> QED BY <2>2, <2>4, <2>5, <3>1
    <2>9. SplitsAt(x, j, i)
        BY <2>7, <2>8 DEF SplitsAt, z, q, a, b
    <2> QED BY <1>2, <2>9
<1> QED BY <1>3, <1>4

\* The root of one hash is that hash; that of more is the node hash of the roots
\* of the two parts.
LEMMA RootOfOne ==
    ASSUME NEW x, IsList(x), Len(x) = 1
    PROVE  ComputeRoot(x) = x[1]
<1>1. x # <<>>
    OBVIOUS
<1>2. Levels(x)[0] = x
    BY LevelsDefined
<1>3. Len(Levels(x)[0]) = 1 /\ 0 \in Nat
    BY <1>2
<1> QED BY <1>1, <1>2, <1>3, RootAt

LEMMA RootSplits ==
    ASSUME NEW x, IsList(x), Len(x) >= 2
    PROVE  /\ SplitPoint(Len(x)) \in 1..Len(x) - 1
           /\ ComputeRoot(x) = HashNode(ComputeRoot(Part(x, 1, SplitPoint(Len(x)))),
                                        ComputeRoot(Part(x, SplitPoint(Len(x)) + 1, Len(x))))
<1> DEFINE n == Len(x)
           k == SplitPoint(n)
           a == Part(x, 1, k)
           b == Part(x, k + 1, n)
<1>1. n \in Nat /\ n >= 2
    BY ListShape
<1>2. PICK j \in Nat : k = Power[j] /\ Power[j] < n /\ n <= 2 * Power[j]
    BY <1>1, SplitPointIs
<1>3. k \in Nat /\ k >= 1
    BY <1>2, PowerGrows
<1> DEFINE y == Levels(x)[j]
<1>4. SplitsAt(x, j, j)
    BY <1>2, LevelsSplit
<1>5. IsList(y) /\ Len(y) \in Nat
    BY LevelShape, ListShape
<1>6. Len(y) = 2 /\ Levels(a)[j] = Part(y, 1, 1) /\ Levels(b)[j] = Part(y, 2, 2)
    <2>1. Power[j - j] = 1
        BY PowerDefined, j - j = 0
    <2>2. /\ 1 < Len(y) /\ Len(y) <= 2 * 1
          /\ Levels(a)[j] = Part(y, 1, 1) /\ Levels(b)[j] = Part(y, 1 + 1, Len(y))
        BY <1>2, <1>4, <2>1 DEF SplitsAt
    <2> HIDE DEF y, a, b
    <2>3. Len(y) = 2
        <3> DEFINE m == Len(y)
        <3>1. m \in Nat /\ 1 < m /\ m <= 2 * 1
            BY <1>5, <2>2
        <3> HIDE DEF m
        <3>2. m = 2
            BY ONLY <3>1
        <3> QED BY <3>2 DEF m
    <2>4. 1 + 1 = 2
        OBVIOUS
    <2> QED BY <2>2, <2>3, <2>4
<1>7. ComputeRoot(a) = y[1]
    <2>1. IsList(a) /\ Len(a) = k
        BY <1>3, FirstShape
    <2>2. a # <<>>
        BY <1>3, <2>1
    <2>3. Len(Part(y, 1, 1)) = 1 /\ Part(y, 1, 1)[1] = y[1]
        BY OneShape, 1 \in Nat, 1 >= 1
    <2> HIDE DEF a, y
    <2>4. Len(Levels(a)[j]) = 1 /\ Levels(a)[j][1] = y[1]
        BY <1>6, <2>3
    <2> QED BY <2>1, <2>2, <2>4, RootAt
<1>8. ComputeRoot(b) = y[2]
    <2>1. n - k \in Nat /\ n - k >= 1 /\ n = k + (n - k)
        BY <1>1, <1>2, <1>3
    <2>2. b = Part(x, k + 1, k + (n - k))
        BY <2>1
    <2>3. IsList(b) /\ Len(b) = n - k
        BY <1>3, <2>1, <2>2, PartShape
    <2>4. b # <<>>
        BY <2>1, <2>3
    <2>5. Len(Part(y, 2, 2)) = 1 /\ Part(y, 2, 2)[1] = y[2]
        BY OneShape, 2 \in Nat, 2 >= 1
    <2> HIDE DEF b, y
    <2>6. Len(Levels(b)[j]) = 1 /\ Levels(b)[j][1] = y[2]
        BY <1>6, <2>5
    <2> QED BY <2>3, <2>4, <2>6, RootAt
<1>9. ComputeRoot(x) = HashNode(y[1], y[2])
    <2>1. Levels(x)[j + 1] = Up(y) /\ j + 1 \in Nat
        BY LevelsDefined
    <2>2. (2 + 1) \div 2 = 1 /\ 2 * 1 <= 2 /\ 1 \in 1..1 /\ 2 * 1 - 1 = 1 /\ 2 * 1 = 2
        OBVIOUS
    <2>3. Len(Up(y)) = 1 /\ Up(y)[1] = HashNode(y[1], y[2])
        BY <1>5, <1>6, <2>2, UpShape
    <2>4. x # <<>>
        BY <1>1
    <2> QED BY <2>1, <2>3, <2>4, RootAt
<1>10. k \in 1..n - 1
    BY <1>1, <1>2, <1>3
<1> QED BY <1>7, <1>8, <1>9, <1>10

-------------------------------------------------------------------------------
\* What a hash hashes.
LEMMA NodeHash ==
    ASSUME NEW a, NEW b
    PROVE  /\ HashNode(a, b) # <<>> /\ HashNode(a, b)[1] = 1
           /\ \A c, d : HashNode(a, b) = HashNode(c, d) => a = c /\ b = d
<1>1. \A c, d : Len(HashNode(c, d)) = 3 /\ HashNode(c, d)[1] = 1 /\ HashNode(c, d)[2] = c
                /\ HashNode(c, d)[3] = d
    BY DEF HashNode, nodePrefix
<1>2. Len(<<>>) = 0
    OBVIOUS
<1> QED BY <1>1, <1>2, 3 # 0

LEMMA LeafHash ==
    ASSUME NEW h \in Hashes
    PROVE  h # <<>> /\ h[1] = 0
<1>1. PICK data \in Data : h = <<0>> \o data
    BY DEF Hashes, HashLeaf, leafPrefix
<1>2. data \in Seq({data[i] : i \in DOMAIN data})
    BY TreeAssumption
<1> DEFINE S == {data[i] : i \in DOMAIN data} \cup {0}
<1>3. data \in Seq(S) /\ <<0>> \in Seq(S)
    BY <1>2
<1> HIDE DEF S
<1>4. Len(h) = 1 + Len(data) /\ h[1] = 0 /\ Len(data) \in Nat
    BY <1>1, <1>3
<1> QED BY <1>4

LEMMA Sizes ==
    ASSUME NEW n \in Nat
    PROVE  (n = 0 \/ n = 1 \/ n >= 2) /\ (n >= 2 => n # 0 /\ n # 1)
OBVIOUS

\* The prefix tells what a root was made of.
LEMMA RootKind ==
    ASSUME NEW x \in Seq(Hashes)
    PROVE  /\ Len(x) = 0 => ComputeRoot(x) = <<>>
           /\ Len(x) = 1 => ComputeRoot(x) # <<>> /\ ComputeRoot(x)[1] = 0
           /\ Len(x) >= 2 => ComputeRoot(x) # <<>> /\ ComputeRoot(x)[1] = 1
<1>1. IsList(x)
    BY ListOf
<1>2. CASE Len(x) = 0
    BY <1>2 DEF ComputeRoot, ZeroHash
<1>3. CASE Len(x) = 1
    <2>1. x[1] \in Hashes
        BY <1>3
    <2> QED BY <1>1, <1>3, <2>1, RootOfOne, LeafHash
<1>4. CASE Len(x) >= 2
    <2>1. PICK a, b : ComputeRoot(x) = HashNode(a, b)
        BY <1>1, <1>4, RootSplits
    <2>2. ComputeRoot(x) # <<>> /\ ComputeRoot(x)[1] = 1
        BY <2>1, NodeHash
    <2>3. Len(x) # 0 /\ Len(x) # 1
        BY <1>4, Sizes
    <2> QED BY <1>4, <2>2, <2>3
<1>5. Len(x) \in Nat
    OBVIOUS
<1> QED BY <1>2, <1>3, <1>4, <1>5, Sizes

\* The part of a list of hashes.
LEMMA PartOf ==
    ASSUME NEW S, NEW x \in Seq(S), NEW k \in Nat, NEW n \in Nat, k + n <= Len(x)
    PROVE  Part(x, k + 1, k + n) \in Seq(S)
<1> DEFINE p == Part(x, k + 1, k + n)
<1>1. IsList(p) /\ Len(p) = n /\ \A i \in 1..n : p[i] = x[k + i]
    BY PartShape
<1>2. \A i \in 1..n : k + i \in 1..Len(x)
    OBVIOUS
<1> HIDE DEF p
<1>3. p = [i \in 1..n |-> p[i]]
    BY <1>1, ListShape
<1>4. \A i \in 1..n : p[i] \in S
    BY <1>1, <1>2
<1>5. p \in [1..n -> S]
    BY <1>3, <1>4
<1>6. p \in Seq(S)
    BY <1>5
<1> QED BY <1>6 DEF p

\* The two parts RootSplits speaks of.
Left(x) == Part(x, 1, SplitPoint(Len(x)))
Right(x) == Part(x, SplitPoint(Len(x)) + 1, Len(x))

LEMMA TwoParts ==
    ASSUME NEW x \in Seq(Hashes), Len(x) >= 2
    PROVE  /\ Left(x) \in Seq(Hashes) /\ Right(x) \in Seq(Hashes)
           /\ Len(Left(x)) \in 1..Len(x) - 1 /\ Len(Right(x)) \in 1..Len(x) - 1
           /\ Len(Left(x)) + Len(Right(x)) = Len(x)
           /\ \A i \in 1..Len(x) : x[i] = IF i <= Len(Left(x)) THEN Left(x)[i]
                                          ELSE Right(x)[i - Len(Left(x))]
           /\ ComputeRoot(x) = HashNode(ComputeRoot(Left(x)), ComputeRoot(Right(x)))
<1> DEFINE n == Len(x)
           k == SplitPoint(n)
           a == Left(x)
           b == Right(x)
<1>1. IsList(x) /\ n \in Nat
    BY ListOf
<1>2. k \in 1..n - 1 /\ ComputeRoot(x) = HashNode(ComputeRoot(a), ComputeRoot(b))
    BY <1>1, RootSplits DEF Left, Right
<1>3. /\ a = Part(x, 1, k) /\ a = Part(x, 0 + 1, 0 + k) /\ b = Part(x, k + 1, k + (n - k))
    <2>1. 0 + 1 = 1 /\ 0 + k = k /\ n = k + (n - k)
        BY <1>1, <1>2
    <2> QED BY <2>1 DEF Left, Right
<1> HIDE DEF n, k, a, b
<1>4. k \in Nat /\ n - k \in Nat /\ 0 + k <= n /\ k + (n - k) <= n
    BY <1>1, <1>2
<1>5. a \in Seq(Hashes) /\ b \in Seq(Hashes)
    BY <1>3, <1>4, PartOf DEF n
<1>6. Len(a) = k /\ \A i \in 1..k : a[i] = x[i]
    BY <1>3, <1>4, FirstShape
<1>7. Len(b) = n - k /\ \A i \in 1..n - k : b[i] = x[k + i]
    BY <1>3, <1>4, PartShape
<1>8. ASSUME NEW i \in 1..n PROVE x[i] = IF i <= k THEN a[i] ELSE b[i - k]
    <2>1. CASE i <= k
        BY <1>4, <1>6, <2>1, i \in 1..k
    <2>2. CASE ~(i <= k)
        <3>1. i - k \in 1..n - k /\ k + (i - k) = i
            BY <1>1, <1>4, <2>2
        <3> QED BY <1>7, <2>2, <3>1
    <2> QED BY <2>1, <2>2
<1>9. k \in 1..n - 1 /\ n - k \in 1..n - 1 /\ k + (n - k) = n
    BY <1>1, <1>2
<1> QED BY <1>2, <1>5, <1>6, <1>7, <1>8, <1>9 DEF n, a, b

\* A root commits to the leaves below it, in their order and number: no two lists
\* of leaf hashes have the same root.  So a root may be represented by the list of
\* leaves it was computed from, as AuditLedger does with the hashes of its lines.
THEOREM RootCommits ==
    \A x, y \in Seq(Hashes) : ComputeRoot(x) = ComputeRoot(y) => x = y
<1> DEFINE Clash(x, y) == ComputeRoot(x) = ComputeRoot(y) /\ x # y
           T == {n \in Nat : \E x, y \in Seq(Hashes) : Len(x) = n /\ Clash(x, y)}
<1>1. SUFFICES ASSUME T # {} PROVE FALSE
    <2>1. \A x \in Seq(Hashes) : Len(x) \in Nat
        OBVIOUS
    <2> QED BY <2>1
<1>2. PICK n \in T : \A m \in T : n <= m
    BY <1>1, LeastNumber
<1>3. PICK x \in Seq(Hashes), y \in Seq(Hashes) : Len(x) = n /\ Clash(x, y)
    BY <1>2
<1>4. Len(x) \in Nat /\ Len(y) \in Nat /\ IsList(x) /\ IsList(y) /\ 0 # 1
    BY ListOf
<1> DEFINE rx == ComputeRoot(x)
           ry == ComputeRoot(y)
<1>5. rx = ry
    BY <1>3
<1>6. /\ Len(x) = 0 => rx = <<>>
      /\ Len(x) = 1 => rx # <<>> /\ rx[1] = 0
      /\ Len(x) >= 2 => rx # <<>> /\ rx[1] = 1
    BY RootKind
<1>7. /\ Len(y) = 0 => ry = <<>>
      /\ Len(y) = 1 => ry # <<>> /\ ry[1] = 0
      /\ Len(y) >= 2 => ry # <<>> /\ ry[1] = 1
    BY RootKind
<1> HIDE DEF rx, ry
<1>8. \/ Len(x) = 0 /\ Len(y) = 0
      \/ Len(x) = 1 /\ Len(y) = 1
      \/ Len(x) >= 2 /\ Len(y) >= 2
    <2>1. (Len(x) = 0 \/ Len(x) = 1 \/ Len(x) >= 2) /\ (Len(y) = 0 \/ Len(y) = 1 \/ Len(y) >= 2)
        BY <1>4, Sizes
    <2> QED BY <1>4, <1>5, <1>6, <1>7, <2>1
<1>9. CASE Len(x) = 0 /\ Len(y) = 0
    BY <1>3, <1>9
<1>10. CASE Len(x) = 1 /\ Len(y) = 1
    <2>1. x[1] = y[1]
        BY <1>3, <1>4, <1>10, RootOfOne
    <2>2. \A i \in 1..Len(x) : x[i] = y[i]
        BY <1>10, <2>1
    <2> QED BY <1>3, <1>4, <1>10, <2>2, SameList
<1>11. CASE Len(x) >= 2 /\ Len(y) >= 2
    <2> DEFINE a == Left(x)
               b == Right(x)
               c == Left(y)
               d == Right(y)
    <2>1. /\ a \in Seq(Hashes) /\ b \in Seq(Hashes) /\ Len(a) \in 1..n - 1 /\ Len(b) \in 1..n - 1
          /\ Len(a) + Len(b) = Len(x)
          /\ \A i \in 1..Len(x) : x[i] = IF i <= Len(a) THEN a[i] ELSE b[i - Len(a)]
          /\ ComputeRoot(x) = HashNode(ComputeRoot(a), ComputeRoot(b))
        BY <1>3, <1>11, TwoParts
    <2>2. /\ c \in Seq(Hashes) /\ d \in Seq(Hashes)
          /\ Len(c) + Len(d) = Len(y)
          /\ \A i \in 1..Len(y) : y[i] = IF i <= Len(c) THEN c[i] ELSE d[i - Len(c)]
          /\ ComputeRoot(y) = HashNode(ComputeRoot(c), ComputeRoot(d))
        BY <1>11, TwoParts
    <2> HIDE DEF a, b, c, d
    <2>3. ComputeRoot(a) = ComputeRoot(c) /\ ComputeRoot(b) = ComputeRoot(d)
        <3> DEFINE ra == ComputeRoot(a)
                   rb == ComputeRoot(b)
                   rc == ComputeRoot(c)
                   rd == ComputeRoot(d)
        <3>1. HashNode(ra, rb) = HashNode(rc, rd)
            BY <1>3, <2>1, <2>2
        <3> HIDE DEF ra, rb, rc, rd
        <3>2. ra = rc /\ rb = rd
            BY <3>1, NodeHash
        <3> QED BY <3>2 DEF ra, rb, rc, rd
    <2>4. Len(a) \notin T /\ Len(b) \notin T /\ Len(a) \in Nat /\ Len(b) \in Nat
        BY <1>2, <2>1
    <2>5. a = c /\ b = d
        BY <2>1, <2>2, <2>3, <2>4
    <2>6. Len(x) = Len(y) /\ \A i \in 1..Len(x) : x[i] = y[i]
        BY <2>1, <2>2, <2>5
    <2>7. x = y
        BY <1>4, <2>6, SameList
    <2> QED BY <1>3, <2>7
<1> QED BY <1>8, <1>9, <1>10, <1>11

-------------------------------------------------------------------------------
\* The root is that of the leaves, and the recorded roots those of the tree at
\* each earlier size.
TreeInv ==
    /\ leaves \in Seq(Hashes)
    /\ root = ComputeRoot(leaves)
    /\ IsList(roots) /\ Len(roots) = Len(leaves)
    /\ \A n \in 1..Len(leaves) : roots[n] = ComputeRoot(Part(leaves, 1, n))

LEMMA WholePart ==
    ASSUME NEW x, IsList(x)
    PROVE  Part(x, 1, Len(x)) = x
<1> DEFINE n == Len(x)
<1>1. n \in Nat
    BY ListShape
<1>2. /\ IsList(Part(x, 1, n)) /\ Len(Part(x, 1, n)) = n
      /\ \A i \in 1..n : Part(x, 1, n)[i] = x[i]
    BY <1>1, FirstShape
<1> QED BY <1>2, SameList

LEMMA PartOfLonger ==
    ASSUME NEW x, NEW y, NEW n \in Nat, \A i \in 1..n : x[i] = y[i]
    PROVE  Part(x, 1, n) = Part(y, 1, n)
<1>1. /\ IsList(Part(x, 1, n)) /\ Len(Part(x, 1, n)) = n
      /\ \A i \in 1..n : Part(x, 1, n)[i] = x[i]
    BY FirstShape
<1>2. /\ IsList(Part(y, 1, n)) /\ Len(Part(y, 1, n)) = n
      /\ \A i \in 1..n : Part(y, 1, n)[i] = y[i]
    BY FirstShape
<1>3. \A i \in 1..Len(Part(x, 1, n)) : Part(x, 1, n)[i] = Part(y, 1, n)[i]
    BY <1>1, <1>2
<1> QED BY <1>1, <1>2, <1>3, SameList

LEMMA ListAppend ==
    ASSUME NEW s, IsList(s), NEW e
    PROVE  /\ IsList(Append(s, e)) /\ Len(Append(s, e)) = Len(s) + 1
           /\ Append(s, e)[Len(s) + 1] = e
           /\ \A i \in 1..Len(s) : Append(s, e)[i] = s[i]
<1> DEFINE S == {s[i] : i \in DOMAIN s} \cup {e}
<1>1. s \in Seq(S)
    BY DEF IsList
<1> HIDE DEF S
<1>2. e \in S
    BY DEF S
<1>3. Append(s, e) \in Seq(S)
    BY <1>1, <1>2
<1>4. IsList(Append(s, e))
    BY <1>3, ListOf
<1> QED BY <1>1, <1>2, <1>4

LEMMA TreeInvStep ==
    ASSUME TreeInv, NEW data \in Data, AppendLeafHash(HashLeaf(data))
    PROVE  TreeInv'
<1> DEFINE h == HashLeaf(data)
           m == Len(leaves)
<1>1. /\ leaves \in Seq(Hashes) /\ root = ComputeRoot(leaves)
      /\ IsList(roots) /\ Len(roots) = m
      /\ \A n \in 1..m : roots[n] = ComputeRoot(Part(leaves, 1, n))
    BY DEF TreeInv
<1>2. leaves' = Append(leaves, h) /\ root' = ComputeRoot(leaves') /\ roots' = Append(roots, root')
    BY DEF AppendLeafHash
<1>3. h \in Hashes
    BY DEF Hashes
<1> HIDE DEF h
<1>4. leaves' \in Seq(Hashes) /\ Len(leaves') = m + 1 /\ \A i \in 1..m : leaves'[i] = leaves[i]
    BY <1>1, <1>2, <1>3
<1>5. m \in Nat
    BY <1>1
<1> HIDE DEF m
<1>6. /\ IsList(roots') /\ Len(roots') = m + 1 /\ roots'[m + 1] = root'
      /\ \A i \in 1..m : roots'[i] = roots[i]
    BY <1>1, <1>2, ListAppend
<1>7. ASSUME NEW n \in 1..m + 1
      PROVE  roots'[n] = ComputeRoot(Part(leaves', 1, n))
    <2>1. CASE n = m + 1
        <3>1. Part(leaves', 1, n) = leaves'
            BY <1>4, <2>1, WholePart, ListOf
        <3> QED BY <1>2, <1>6, <2>1, <3>1
    <2>2. CASE n # m + 1
        <3>1. n \in 1..m /\ n \in Nat
            BY <1>5, <2>2
        <3>2. \A i \in 1..n : leaves'[i] = leaves[i]
            BY <1>4, <1>5, <3>1
        <3>3. Part(leaves', 1, n) = Part(leaves, 1, n)
            BY <3>1, <3>2, PartOfLonger
        <3> QED BY <1>1, <1>6, <3>1, <3>3
    <2> QED BY <2>1, <2>2
<1> QED BY <1>2, <1>4, <1>6, <1>7 DEF TreeInv

\* The roots that the log lines record are those of the tree at each size.
THEOREM RootsAreRecorded == TreeSpec => []TreeInv
<1>1. TreeInit => TreeInv
    <2> SUFFICES ASSUME TreeInit PROVE TreeInv
        OBVIOUS
    <2>1. leaves = <<>> /\ root = <<>> /\ roots = <<>>
        BY DEF TreeInit, ZeroHash
    <2>2. IsList(roots) /\ Len(roots) = 0 /\ Len(leaves) = 0 /\ leaves \in Seq(Hashes)
        BY <2>1 DEF IsList
    <2>3. ComputeRoot(leaves) = <<>>
        BY <2>1 DEF ComputeRoot, ZeroHash
    <2> QED BY <2>1, <2>2, <2>3 DEF TreeInv
<1>2. TreeInv /\ [TreeNext]_treeVars => TreeInv'
    <2> SUFFICES ASSUME TreeInv, [TreeNext]_treeVars PROVE TreeInv'
        OBVIOUS
    <2>1. ASSUME NEW data \in Data, AppendLeafHash(HashLeaf(data)) PROVE TreeInv'
        BY <2>1, TreeInvStep
    <2>2. CASE UNCHANGED treeVars
        BY <2>2 DEF TreeInv, treeVars
    <2> QED BY <2>1, <2>2 DEF TreeNext
<1> QED BY <1>1, <1>2, PTL DEF TreeSpec

\* The state of the tree keeps its type.
THEOREM TreeTypeCorrect == TreeSpec => []TreeTypeOK
<1>1. TreeInv => TreeTypeOK
    <2> SUFFICES ASSUME TreeInv PROVE TreeTypeOK
        OBVIOUS
    <2>1. /\ leaves \in Seq(Hashes) /\ root = ComputeRoot(leaves)
          /\ IsList(roots) /\ Len(roots) = Len(leaves)
          /\ \A n \in 1..Len(leaves) : roots[n] = ComputeRoot(Part(leaves, 1, n))
        BY DEF TreeInv
    <2>2. CASE Len(leaves) = 0
        <3>1. roots = <<>> /\ leaves = <<>>
            BY <2>1, <2>2 DEF IsList
        <3> QED BY <2>1, <3>1 DEF TreeTypeOK, ComputeRoot, ZeroHash, Hashes
    <2>3. CASE Len(leaves) # 0
        <3>1. Len(leaves) \in 1..Len(leaves) /\ roots # <<>>
            BY <2>1, <2>3
        <3>2. Part(leaves, 1, Len(leaves)) = leaves
            BY <2>1, WholePart, ListOf
        <3>3. root = roots[Len(roots)]
            BY <2>1, <3>1, <3>2
        <3> QED BY <2>1, <3>1, <3>3 DEF TreeTypeOK, Hashes
    <2> QED BY <2>2, <2>3
<1> QED BY <1>1, RootsAreRecorded, PTL

\* No other log has the root of the tree (computeRoot): for trees of any size.
THEOREM LogsHaveOwnRoots == TreeSpec => []RootsDiffer
<1>1. TreeInv => RootsDiffer
    <2> SUFFICES ASSUME TreeInv, NEW log \in Logs, ComputeRoot(log) = root PROVE log = leaves
        BY DEF RootsDiffer
    <2>1. leaves \in Seq(Hashes) /\ root = ComputeRoot(leaves)
        BY DEF TreeInv
    <2>2. log \in Seq(Hashes)
        <3>1. PICK n \in 0..MaxCompared : log \in [1..n -> Hashes]
            BY DEF Logs
        <3> QED BY <3>1, TreeAssumption
    <2> QED BY <2>1, <2>2, RootCommits
<1> QED BY <1>1, RootsAreRecorded, PTL

-------------------------------------------------------------------------------
\* A proof climbs along the levels of the tree.
LEMMA JoinBinds ==
    ASSUME NEW a, NEW b, NEW s, NEW t
    PROVE  /\ Join(a, s) = Join(b, s) => a = b
           /\ Join(a, s) = Join(a, t) /\ s.right = t.right => s.hash = t.hash
BY NodeHash DEF Join

\* The climb up to some level only needs the elements of the path up to there.
LEMMA SameClimb ==
    ASSUME NEW leaf, NEW p, NEW q, NEW n \in Nat, \A i \in 1..n : p[i] = q[i]
    PROVE  Climbing(leaf, p)[n] = Climbing(leaf, q)[n]
<1> DEFINE T == {k \in Nat : k <= n /\ Climbing(leaf, p)[k] # Climbing(leaf, q)[k]}
<1>1. SUFFICES ASSUME T # {} PROVE FALSE
    OBVIOUS
<1>2. PICK k \in T : \A j \in T : k <= j
    BY <1>1, LeastNumber
<1>3. k # 0
    BY <1>2, ClimbingDefined
<1>4. k - 1 \in Nat /\ k - 1 \notin T /\ k - 1 <= n /\ (k - 1) + 1 = k /\ k \in 1..n
    BY <1>2, <1>3
<1>5. Climbing(leaf, p)[k - 1] = Climbing(leaf, q)[k - 1] /\ p[k] = q[k]
    BY <1>4
<1>6. /\ Climbing(leaf, p)[(k - 1) + 1] = Join(Climbing(leaf, p)[k - 1], p[(k - 1) + 1])
      /\ Climbing(leaf, q)[(k - 1) + 1] = Join(Climbing(leaf, q)[k - 1], q[(k - 1) + 1])
    BY <1>4, ClimbingDefined
<1>7. Climbing(leaf, p)[k] = Climbing(leaf, q)[k]
    BY <1>4, <1>5, <1>6
<1> QED BY <1>2, <1>7

\* Equal results were equal at every level since the paths were the same.
SameFrom(p, q, m, n) == \A i \in m + 1..n : p[i] = q[i]

LEMMA ClimbBinds ==
    ASSUME NEW a, NEW b, NEW p, NEW q, NEW n \in Nat, NEW m \in 0..n, SameFrom(p, q, m, n),
           Climbing(a, p)[n] = Climbing(b, q)[n]
    PROVE  Climbing(a, p)[m] = Climbing(b, q)[m]
<1> DEFINE T == {k \in Nat : m <= k /\ k <= n /\ Climbing(a, p)[k] = Climbing(b, q)[k]}
<1>1. n \in T
    OBVIOUS
<1>2. PICK k \in T : \A j \in T : k <= j
    BY <1>1, LeastNumber
<1>3. SUFFICES ASSUME k # m PROVE FALSE
    BY <1>2
<1>4. k - 1 \in Nat /\ k - 1 \notin T /\ m <= k - 1 /\ k - 1 <= n /\ (k - 1) + 1 = k
      /\ k \in m + 1..n
    BY <1>2, <1>3
<1>5. Climbing(a, p)[k] = Climbing(b, q)[k] /\ p[k] = q[k]
    BY <1>2, <1>4 DEF SameFrom
<1>6. /\ Climbing(a, p)[(k - 1) + 1] = Join(Climbing(a, p)[k - 1], p[(k - 1) + 1])
      /\ Climbing(b, q)[(k - 1) + 1] = Join(Climbing(b, q)[k - 1], q[(k - 1) + 1])
    BY <1>4, ClimbingDefined
<1>7. Climbing(a, p)[k - 1] = Climbing(b, q)[k - 1]
    BY <1>4, <1>5, <1>6, JoinBinds
<1> QED BY <1>4, <1>7

\* What the loop of GenerateProof has after k levels.
StepInv(x, index, k) ==
    LET s == Steps(x, index)[k] IN
    /\ s.level = Levels(x)[k]
    /\ s.index \in 0..Len(s.level) - 1
    /\ IsList(s.path)
    /\ \A i \in 1..Len(s.path) : s.path[i] = [hash |-> s.path[i].hash, right |-> s.path[i].right]
    /\ Climb(x[index + 1], s.path) = s.level[s.index + 1]

\* A path that is one element longer climbs one join further.
LEMMA ClimbOn ==
    ASSUME NEW leaf, NEW p, IsList(p), NEW s
    PROVE  Climb(leaf, Append(p, s)) = Join(Climb(leaf, p), s)
<1> DEFINE q == Append(p, s)
           n == Len(p)
<1>1. n \in Nat
    BY ListShape
<1>2. IsList(q) /\ Len(q) = n + 1 /\ q[n + 1] = s /\ \A i \in 1..n : q[i] = p[i]
    BY ListAppend
<1> HIDE DEF q, n
<1>3. Climbing(leaf, q)[n + 1] = Join(Climbing(leaf, q)[n], q[n + 1])
    BY <1>1, ClimbingDefined
<1>4. Climbing(leaf, q)[n] = Climbing(leaf, p)[n]
    BY <1>1, <1>2, SameClimb
<1> QED BY <1>2, <1>3, <1>4 DEF Climb, n, q

\* One level of the loop: the element above is the join with the sibling, or the
\* promoted element itself.
LEMMA StepUp ==
    ASSUME NEW y, IsList(y), NEW i \in Nat, i <= Len(y) - 1
    PROVE  /\ i \div 2 \in 0..Len(Up(y)) - 1
           /\ \/ Sibling(y, i) = <<>> /\ Up(y)[(i \div 2) + 1] = y[i + 1]
              \/ \E s : /\ Sibling(y, i) = <<s>> /\ s = [hash |-> s.hash, right |-> s.right]
                        /\ Up(y)[(i \div 2) + 1] = Join(y[i + 1], s)
<1> DEFINE n == Len(y)
           m == (n + 1) \div 2
           h == i \div 2
<1>1. /\ n \in Nat /\ Len(Up(y)) = m
      /\ \A j \in 1..m : Up(y)[j] = IF 2 * j <= n THEN HashNode(y[2 * j - 1], y[2 * j])
                                    ELSE y[2 * j - 1]
    BY UpShape, ListShape
<1>2. h \in Nat /\ (i % 2 = 1 => i = 2 * h + 1) /\ (i % 2 # 1 => i = 2 * h)
    OBVIOUS
<1>3. h + 1 \in 1..m
    BY <1>1, <1>2
<1>4. h \in 0..Len(Up(y)) - 1
    BY <1>1, <1>2, <1>3
<1>5. Up(y)[h + 1] = IF 2 * (h + 1) <= n THEN HashNode(y[2 * (h + 1) - 1], y[2 * (h + 1)])
                     ELSE y[2 * (h + 1) - 1]
    BY <1>1, <1>3
<1>6. CASE i % 2 = 1
    <2> DEFINE s == [hash |-> y[i], right |-> FALSE]
    <2>1. 2 * (h + 1) <= n /\ 2 * (h + 1) - 1 = i /\ 2 * (h + 1) = i + 1
        BY <1>1, <1>2, <1>6
    <2>2. Sibling(y, i) = <<s>>
        BY <1>6 DEF Sibling
    <2>3. s = [hash |-> s.hash, right |-> s.right] /\ Join(y[i + 1], s) = HashNode(y[i], y[i + 1])
        BY DEF Join
    <2>4. Up(y)[h + 1] = HashNode(y[i], y[i + 1])
        BY <1>5, <2>1
    <2> HIDE DEF s, h
    <2>5. Up(y)[h + 1] = Join(y[i + 1], s)
        BY <2>3, <2>4
    <2> QED BY <1>4, <2>2, <2>3, <2>5 DEF h
<1>7. CASE i % 2 # 1 /\ i + 1 < n
    <2> DEFINE s == [hash |-> y[i + 2], right |-> TRUE]
    <2>1. 2 * (h + 1) <= n /\ 2 * (h + 1) - 1 = i + 1 /\ 2 * (h + 1) = i + 2
        BY <1>1, <1>2, <1>7
    <2>2. Sibling(y, i) = <<s>>
        BY <1>7 DEF Sibling
    <2>3. /\ s = [hash |-> s.hash, right |-> s.right]
          /\ Join(y[i + 1], s) = HashNode(y[i + 1], y[i + 2])
        BY DEF Join
    <2>4. Up(y)[h + 1] = HashNode(y[i + 1], y[i + 2])
        BY <1>5, <2>1
    <2> HIDE DEF s, h
    <2>5. Up(y)[h + 1] = Join(y[i + 1], s)
        BY <2>3, <2>4
    <2> QED BY <1>4, <2>2, <2>3, <2>5 DEF h
<1>8. CASE i % 2 # 1 /\ ~(i + 1 < n)
    <2>1. ~(2 * (h + 1) <= n) /\ 2 * (h + 1) - 1 = i + 1
        BY <1>1, <1>2, <1>8
    <2>2. Sibling(y, i) = <<>>
        BY <1>8 DEF Sibling
    <2>3. Up(y)[h + 1] = y[i + 1]
        BY <1>5, <2>1
    <2> QED BY <1>4, <2>2, <2>3
<1> QED BY <1>6, <1>7, <1>8

\* The loop of GenerateProof keeps that invariant.
LEMMA StepInvHolds ==
    ASSUME NEW x, IsList(x), NEW index \in Nat, index < Len(x)
    PROVE  \A k \in Nat : StepInv(x, index, k)
<1> DEFINE T == {k \in Nat : ~StepInv(x, index, k)}
<1>1. SUFFICES ASSUME T # {} PROVE FALSE
    OBVIOUS
<1>2. PICK k \in T : \A j \in T : k <= j
    BY <1>1, LeastNumber
<1>3. Len(x) \in Nat
    BY ListShape
<1>4. CASE k = 0
    <2> DEFINE s == Steps(x, index)[0]
    <2>1. s = [level |-> x, index |-> index, path |-> <<>>]
        BY StepsDefined DEF StepsFrom
    <2> HIDE DEF s
    <2>2. s.level = x /\ s.index = index /\ s.path = <<>> /\ Levels(x)[0] = x
        BY <2>1, LevelsDefined
    <2>3. s.index \in 0..Len(s.level) - 1
        BY <1>3, <2>2
    <2>4. IsList(<<>>) /\ Len(<<>>) = 0
        BY DEF IsList
    <2>5. Climb(x[index + 1], <<>>) = x[index + 1]
        BY <2>4, ClimbingDefined DEF Climb
    <2>6. StepInv(x, index, 0)
        BY <2>2, <2>3, <2>4, <2>5 DEF StepInv, s
    <2> QED BY <1>2, <1>4, <2>6
<1>5. CASE k # 0
    <2> DEFINE s == Steps(x, index)[k - 1]
               t == Steps(x, index)[k]
               y == Levels(x)[k - 1]
               i == s.index
               leaf == x[index + 1]
    <2>1. k - 1 \in Nat /\ k - 1 \notin T /\ (k - 1) + 1 = k
        BY <1>2, <1>5
    <2>2. StepInv(x, index, k - 1)
        BY <2>1
    <2>3. /\ s.level = y /\ i \in 0..Len(y) - 1 /\ IsList(s.path)
          /\ \A j \in 1..Len(s.path) :
                s.path[j] = [hash |-> s.path[j].hash, right |-> s.path[j].right]
          /\ Climb(leaf, s.path) = y[i + 1]
        BY <2>2 DEF StepInv
    <2>4. IsList(y) /\ Len(y) \in Nat
        BY <2>1, LevelShape, ListShape
    <2>5. t = Step(s)
        <3>1. Steps(x, index)[(k - 1) + 1] = Step(s)
            BY <2>1, StepsDefined
        <3> QED BY <2>1, <3>1
    <2>6. Levels(x)[k] = Up(y)
        <3>1. Levels(x)[(k - 1) + 1] = Up(y)
            BY <2>1, LevelsDefined
        <3> QED BY <2>1, <3>1
    <2> HIDE DEF s, t, y, i, leaf
    <2>7. t.level = Up(y) /\ t.index = i \div 2 /\ t.path = s.path \o Sibling(y, i)
        BY <2>3, <2>5 DEF Step, i
    <2>8. i \in Nat /\ i <= Len(y) - 1
        BY <2>3, <2>4
    <2>9. /\ i \div 2 \in 0..Len(Up(y)) - 1
          /\ \/ Sibling(y, i) = <<>> /\ Up(y)[(i \div 2) + 1] = y[i + 1]
             \/ \E e : /\ Sibling(y, i) = <<e>> /\ e = [hash |-> e.hash, right |-> e.right]
                       /\ Up(y)[(i \div 2) + 1] = Join(y[i + 1], e)
        BY <2>4, <2>8, StepUp
    <2> DEFINE Good(p) == /\ IsList(p)
                          /\ \A j \in 1..Len(p) : p[j] = [hash |-> p[j].hash, right |-> p[j].right]
                          /\ Climb(leaf, p) = Up(y)[(i \div 2) + 1]
    <2>10. ASSUME Sibling(y, i) = <<>>, Up(y)[(i \div 2) + 1] = y[i + 1]
           PROVE  Good(t.path)
        <3>1. t.path = s.path
            BY <2>3, <2>7, <2>10 DEF IsList
        <3> QED BY <2>3, <2>10, <3>1
    <2>11. ASSUME NEW e, Sibling(y, i) = <<e>>, e = [hash |-> e.hash, right |-> e.right],
                  Up(y)[(i \div 2) + 1] = Join(y[i + 1], e)
           PROVE  Good(t.path)
        <3> DEFINE p == s.path
                   q == Append(p, e)
        <3>1. t.path = q
            <4>1. p \in Seq({p[j] : j \in DOMAIN p} \cup {e})
                BY <2>3 DEF IsList
            <4> QED BY <2>7, <2>11, <4>1
        <3>2. /\ IsList(q) /\ Len(q) = Len(p) + 1 /\ q[Len(p) + 1] = e
              /\ \A j \in 1..Len(p) : q[j] = p[j]
            BY <2>3, ListAppend
        <3>3. Climb(leaf, q) = Join(y[i + 1], e)
            BY <2>3, ClimbOn
        <3>4. Len(p) \in Nat
            BY <2>3, ListShape
        <3> HIDE DEF p, q
        <3>5. ASSUME NEW j \in 1..Len(q) PROVE q[j] = [hash |-> q[j].hash, right |-> q[j].right]
            <4>1. CASE j = Len(p) + 1
                BY <2>11, <3>2, <4>1
            <4>2. CASE j # Len(p) + 1
                <5>1. j \in 1..Len(p)
                    BY <3>2, <3>4, <4>2
                <5>2. p[j] = [hash |-> p[j].hash, right |-> p[j].right]
                    BY <2>3, <5>1 DEF p
                <5> QED BY <3>2, <5>1, <5>2
            <4> QED BY <4>1, <4>2
        <3>6. Good(q)
            BY <2>11, <3>2, <3>3, <3>5
        <3> QED BY <3>1, <3>6
    <2>12. Good(t.path)
        BY <2>9, <2>10, <2>11
    <2>13. StepInv(x, index, k)
        BY <2>6, <2>7, <2>9, <2>12 DEF StepInv, t, leaf
    <2> QED BY <1>2, <2>13
<1> QED BY <1>4, <1>5

\* The whole proof leads to the root.
LEMMA PathIs ==
    ASSUME NEW x, IsList(x), NEW index \in Nat, index < Len(x)
    PROVE  LET p == AuditPath(x, index) IN
           /\ IsList(p) /\ \A i \in 1..Len(p) : p[i] = [hash |-> p[i].hash, right |-> p[i].right]
           /\ Climb(x[index + 1], p) = ComputeRoot(x)
<1> DEFINE n == Len(x)
           s == Steps(x, index)[n]
<1>1. n \in Nat
    BY ListShape
<1>2. StepInv(x, index, n)
    BY <1>1, StepInvHolds
<1>3. /\ s.level = Levels(x)[n] /\ s.index \in 0..Len(s.level) - 1
      /\ IsList(s.path)
      /\ \A i \in 1..Len(s.path) : s.path[i] = [hash |-> s.path[i].hash, right |-> s.path[i].right]
      /\ Climb(x[index + 1], s.path) = s.level[s.index + 1]
    BY <1>2 DEF StepInv
<1>4. x # <<>> /\ n >= 1
    BY <1>1
<1>5. Len(Levels(x)[n]) = 1
    <2>1. IsList(Levels(x)[n]) /\ Len(Levels(x)[n]) >= 1
          /\ (Len(Levels(x)[n]) = 1 \/ Len(Levels(x)[n]) + n <= n)
        BY <1>1, <1>4, LevelShape
    <2>2. Len(Levels(x)[n]) \in Nat
        BY <2>1, ListShape
    <2> HIDE DEF n
    <2> QED BY <1>1, <2>1, <2>2
<1>6. ComputeRoot(x) = Levels(x)[n][1]
    BY <1>1, <1>4, <1>5, RootAt
<1> HIDE DEF s, n
<1>7. s.index = 0 /\ s.index + 1 = 1
    BY <1>3, <1>5
<1> QED BY <1>3, <1>6, <1>7 DEF AuditPath, s, n

\* A path that differs in the hash of one sibling leads elsewhere.
SameBut(p, q, k, n) == \A j \in 1..n : j # k => q[j] = p[j]

LEMMA SiblingBinds ==
    ASSUME NEW leaf, NEW p, NEW q, NEW n \in Nat, NEW k \in 1..n,
           SameBut(p, q, k, n), q[k].right = p[k].right,
           Climbing(leaf, q)[n] = Climbing(leaf, p)[n]
    PROVE  q[k].hash = p[k].hash
<1>1. /\ k \in 0..n /\ k - 1 \in Nat /\ (k - 1) + 1 = k
      /\ \A j \in 1..k - 1 : j \in 1..n /\ j # k
      /\ \A j \in k + 1..n : j \in 1..n /\ j # k
    OBVIOUS
<1>2. Climbing(leaf, q)[k] = Climbing(leaf, p)[k]
    <2>1. SameFrom(q, p, k, n)
        BY <1>1 DEF SameFrom, SameBut
    <2>2. k \in 0..n
        BY <1>1
    <2>3. Climbing(leaf, q)[n] = Climbing(leaf, p)[n]
        OBVIOUS
    <2> QED BY ONLY n \in Nat, <2>1, <2>2, <2>3, ClimbBinds
<1>3. Climbing(leaf, q)[k - 1] = Climbing(leaf, p)[k - 1]
    BY <1>1, SameClimb DEF SameBut
<1>4. /\ Climbing(leaf, q)[(k - 1) + 1] = Join(Climbing(leaf, q)[k - 1], q[(k - 1) + 1])
      /\ Climbing(leaf, p)[(k - 1) + 1] = Join(Climbing(leaf, p)[k - 1], p[(k - 1) + 1])
    BY <1>1, ClimbingDefined
<1>5. Join(Climbing(leaf, p)[k - 1], q[k]) = Join(Climbing(leaf, p)[k - 1], p[k])
    BY <1>1, <1>2, <1>3, <1>4
<1> QED BY <1>5, JoinBinds

\* The root of an earlier size is another one.
LEMMA RootsNeverRepeat ==
    ASSUME TreeInv, NEW n \in 1..Len(roots) - 1
    PROVE  roots[n] # root
<1> DEFINE p == Part(leaves, 1, n)
<1>1. /\ leaves \in Seq(Hashes) /\ root = ComputeRoot(leaves) /\ Len(roots) = Len(leaves)
      /\ roots[n] = ComputeRoot(p)
    BY DEF TreeInv
<1>2. /\ n \in Nat /\ 0 \in Nat /\ 0 + n <= Len(leaves) /\ n # Len(leaves)
      /\ p = Part(leaves, 0 + 1, 0 + n)
    BY <1>1
<1>3. Len(p) = n
    BY <1>2, FirstShape
<1> HIDE DEF p
<1>4. p \in Seq(Hashes)
    BY <1>1, <1>2, PartOf
<1>5. p # leaves
    BY <1>2, <1>3
<1> QED BY <1>1, <1>4, <1>5, RootCommits

\* Every inclusion proof that GenerateProof returns verifies, and for its own leaf,
\* path and root only (VerifyProof): for every leaf of a tree of any size.
THEOREM ProofsHoldForTheirLeaf == TreeSpec => []ProofsBindLeaf
<1>1. TreeInv => ProofsBindLeaf
    <2> SUFFICES ASSUME TreeInv, NEW i \in 0..Len(leaves) - 1
                 PROVE  LET p == GenerateProof(i) IN
                        /\ VerifyProof(p)
                        /\ \A h \in Hashes \ {p.leafHash} : ~VerifyProof([p EXCEPT !.leafHash = h])
                        /\ \A k \in DOMAIN p.auditPath : \A h \in Hashes \ {p.auditPath[k].hash} :
                              ~VerifyProof([p EXCEPT !.auditPath[k].hash = h])
                        /\ \A n \in 1..Len(roots) - 1 :
                              ~VerifyProof([p EXCEPT !.rootHash = roots[n]])
        BY DEF ProofsBindLeaf
    <2> DEFINE p == GenerateProof(i)
               path == AuditPath(leaves, i)
               leaf == leaves[i + 1]
    <2>1. leaves \in Seq(Hashes) /\ root = ComputeRoot(leaves) /\ IsList(leaves)
        BY ListOf DEF TreeInv
    <2>2. i \in Nat /\ i < Len(leaves)
        BY <2>1
    <2>3. /\ IsList(path)
          /\ \A k \in 1..Len(path) : path[k] = [hash |-> path[k].hash, right |-> path[k].right]
          /\ Climb(leaf, path) = root
        BY <2>1, <2>2, PathIs
    <2>4. p = [leafIndex |-> i, leafHash |-> leaf, auditPath |-> path, rootHash |-> root,
               treeSize |-> Len(leaves)]
        BY DEF GenerateProof
    <2>5. Len(path) \in Nat /\ DOMAIN path = 1..Len(path)
        BY <2>3, ListShape
    <2> HIDE DEF p, path, leaf
    <2>6. VerifyProof(p)
        BY <2>3, <2>4 DEF VerifyProof
    <2>7. ASSUME NEW h \in Hashes \ {p.leafHash} PROVE ~VerifyProof([p EXCEPT !.leafHash = h])
        <3>1. SUFFICES ASSUME Climb(h, path) = root PROVE FALSE
            BY <2>4 DEF VerifyProof
        <3>2. Climbing(h, path)[Len(path)] = Climbing(leaf, path)[Len(path)]
            BY <2>3, <3>1 DEF Climb
        <3>3. Climbing(h, path)[0] = Climbing(leaf, path)[0]
            BY <2>5, <3>2, 0 \in 0..Len(path), ClimbBinds DEF SameFrom
        <3>4. h = leaf
            BY <3>3, ClimbingDefined
        <3> QED BY <2>4, <2>7, <3>4
    <2>8. ASSUME NEW k \in DOMAIN p.auditPath, NEW h \in Hashes \ {p.auditPath[k].hash}
          PROVE  ~VerifyProof([p EXCEPT !.auditPath[k].hash = h])
        <3> DEFINE other == [path EXCEPT ![k].hash = h]
                   n == Len(path)
        <3>1. p.auditPath = path /\ k \in 1..n /\ n \in Nat /\ h # path[k].hash
            BY <2>4, <2>5, <2>8
        <3>2. Len(other) = n /\ \A j \in 1..n : j # k => other[j] = path[j]
            <4>1. path = [j \in 1..n |-> path[j]]
                BY <2>3, ListShape
            <4>2. other = [j \in 1..n |-> IF j = k THEN [path[k] EXCEPT !.hash = h] ELSE path[j]]
                BY <3>1, <4>1
            <4>3. other = [j \in 1..n |-> other[j]]
                BY <4>2
            <4>4. Len(other) = n
                BY <3>1, <4>3, ListFrom
            <4> QED BY <3>1, <4>2, <4>4
        <3>3. other[k].hash = h /\ other[k].right = path[k].right
            BY <2>3, <2>5, <3>1
        <3> DEFINE changed == [p EXCEPT !.auditPath[k].hash = h]
        <3>4. changed.auditPath = other /\ changed.leafHash = leaf /\ changed.rootHash = root
            BY <2>4
        <3> HIDE DEF other, changed, n
        <3>5. SUFFICES ASSUME Climb(leaf, other) = root PROVE FALSE
            BY <3>4 DEF VerifyProof, changed
        <3>6. Climbing(leaf, other)[n] = Climbing(leaf, path)[n]
            BY <2>3, <3>2, <3>5 DEF Climb, n
        <3>7. other[k].hash = path[k].hash
            <4>1. k \in 1..n /\ n \in Nat
                BY <3>1
            <4>2. SameBut(path, other, k, n)
                BY <3>2 DEF SameBut
            <4>3. other[k].right = path[k].right
                BY <3>3
            <4> QED BY ONLY <4>1, <4>2, <4>3, <3>6, SiblingBinds
        <3> QED BY <3>1, <3>3, <3>7
    <2>9. ASSUME NEW n \in 1..Len(roots) - 1 PROVE ~VerifyProof([p EXCEPT !.rootHash = roots[n]])
        <3>1. roots[n] # root
            BY RootsNeverRepeat
        <3> QED BY <2>3, <2>4, <3>1 DEF VerifyProof
    <2> QED BY <2>6, <2>7, <2>8, <2>9 DEF p
<1> QED BY <1>1, RootsAreRecorded, PTL

-------------------------------------------------------------------------------
\* Level by level and by splitting, the root is the same.
IsPart(p, x, a, n) == IsList(p) /\ Len(p) = n /\ \A i \in 1..n : p[i] = x[a + i - 1]

LEMMA PartFrom ==
    ASSUME NEW x, NEW a \in Nat, a >= 1, NEW b \in Nat, a <= b
    PROVE  IsPart(Part(x, a, b), x, a, b - a + 1)
<1> DEFINE k == a - 1
           n == b - a + 1
<1>1. k \in Nat /\ n \in Nat /\ a = k + 1 /\ b = k + n /\ \A i \in 1..n : a + i - 1 = k + i
    OBVIOUS
<1> HIDE DEF k, n
<1>2. IsList(Part(x, k + 1, k + n)) /\ Len(Part(x, k + 1, k + n)) = n
      /\ \A i \in 1..n : Part(x, k + 1, k + n)[i] = x[k + i]
    BY <1>1, PartShape
<1>3. IsPart(Part(x, a, b), x, a, n)
    BY <1>1, <1>2 DEF IsPart
<1> QED BY <1>3 DEF n

Root(x, a, b) == ComputeRoot(Part(x, a, b))

LEMMA SpanOfOne ==
    ASSUME NEW x, NEW a \in Nat, a >= 1
    PROVE  Root(x, a, a) = x[a]
<1>1. a <= a /\ a - a + 1 = 1 /\ a + 1 - 1 = a /\ 1 \in 1..1
    OBVIOUS
<1>2. IsList(Part(x, a, a)) /\ Len(Part(x, a, a)) = a - a + 1
      /\ \A i \in 1..a - a + 1 : Part(x, a, a)[i] = x[a + i - 1]
    BY <1>1, PartFrom DEF IsPart
<1>3. Len(Part(x, a, a)) = 1 /\ Part(x, a, a)[1] = x[a]
    BY <1>1, <1>2
<1> QED BY <1>2, <1>3, RootOfOne DEF Root

\* The hash of a span is the node hash of the two spans it is split into.
LEMMA SpanSplits ==
    ASSUME NEW x, NEW a \in Nat, a >= 1, NEW b \in Nat, a < b
    PROVE  LET m == Split(<<a, b>>) IN
           /\ m \in a..b - 1
           /\ Root(x, a, b) = HashNode(Root(x, a, m), Root(x, m + 1, b))
<1> DEFINE y == Part(x, a, b)
           l == b - a + 1
           k == SplitPoint(l)
           m == a + k - 1
<1>1. IsList(y) /\ Len(y) = l /\ \A i \in 1..l : y[i] = x[a + i - 1]
    BY PartFrom, a <= b DEF IsPart
<1>2. l \in Nat /\ l >= 2
    OBVIOUS
<1>3. /\ k \in 1..l - 1
      /\ ComputeRoot(y) = HashNode(ComputeRoot(Part(y, 1, k)), ComputeRoot(Part(y, k + 1, l)))
    <2> HIDE DEF y, l
    <2> QED BY <1>1, <1>2, RootSplits
<1>4. Split(<<a, b>>) = m
    BY DEF Split
<1> HIDE DEF y, k
<1>5. /\ k \in Nat /\ k >= 1 /\ m \in Nat /\ m \in a..b - 1 /\ a <= m /\ m + 1 >= 1 /\ m + 1 <= b
      /\ m - a + 1 = k /\ b - (m + 1) + 1 = l - k /\ l - (k + 1) + 1 = l - k /\ k + 1 <= l
      /\ \A i \in 1..k : i \in 1..l /\ 1 + i - 1 = i
      /\ \A i \in 1..l - k : k + 1 + i - 1 \in 1..l /\ a + (k + 1 + i - 1) - 1 = m + 1 + i - 1
    BY <1>3
<1> HIDE DEF l, m
<1>6. Part(y, 1, k) = Part(x, a, m)
    <2>1. IsList(Part(y, 1, k)) /\ Len(Part(y, 1, k)) = k /\ \A i \in 1..k : Part(y, 1, k)[i] = y[i]
        BY <1>5, FirstShape
    <2>2. IsPart(Part(x, a, m), x, a, m - a + 1)
        BY <1>5, PartFrom
    <2>3. IsPart(Part(x, a, m), x, a, k)
        BY <1>5, <2>2
    <2>4. /\ IsList(Part(x, a, m)) /\ Len(Part(x, a, m)) = k
          /\ \A i \in 1..k : Part(x, a, m)[i] = x[a + i - 1]
        BY <2>3 DEF IsPart
    <2>5. \A i \in 1..k : Part(y, 1, k)[i] = Part(x, a, m)[i]
        BY <1>1, <1>5, <2>1, <2>4
    <2> QED BY <2>1, <2>4, <2>5, SameList
<1>7. Part(y, k + 1, l) = Part(x, m + 1, b)
    <2> DEFINE c == k + 1
               d == m + 1
    <2>1. c \in Nat /\ d \in Nat /\ c >= 1 /\ d >= 1 /\ c <= l /\ d <= b /\ l - c + 1 = l - k
          /\ b - d + 1 = l - k
        BY <1>5
    <2>2. \A i \in 1..l - k : c + i - 1 \in 1..l /\ a + (c + i - 1) - 1 = d + i - 1
        BY <1>5
    <2> HIDE DEF c, d
    <2>3. IsPart(Part(y, c, l), y, c, l - c + 1) /\ IsPart(Part(x, d, b), x, d, b - d + 1)
        BY <1>2, <2>1, PartFrom
    <2>4. IsPart(Part(y, c, l), y, c, l - k) /\ IsPart(Part(x, d, b), x, d, l - k)
        BY <2>1, <2>3
    <2>5. ASSUME NEW i \in 1..l - k PROVE Part(y, c, l)[i] = Part(x, d, b)[i]
        <3>1. Part(y, c, l)[i] = y[c + i - 1] /\ Part(x, d, b)[i] = x[d + i - 1]
            BY <2>4 DEF IsPart
        <3>2. y[c + i - 1] = x[a + (c + i - 1) - 1]
            BY <1>1, <2>2
        <3> QED BY <2>2, <3>1, <3>2
    <2>6. Part(y, c, l) = Part(x, d, b)
        BY <2>4, <2>5, SameList DEF IsPart
    <2> QED BY <2>6 DEF c, d
<1> QED BY <1>3, <1>4, <1>5, <1>6, <1>7 DEF Root, y

HashesTo(x, g) ==
    g = [s \in Spans(Len(x)) |->
          IF s[1] = s[2] THEN x[s[1]]
          ELSE HashNode(g[<<s[1], Split(s)>>], g[<<Split(s) + 1, s[2]>>])]

\* The equation of TreeHashes has a solution, the roots of the spans.
LEMMA TreeHashesDefined ==
    ASSUME NEW x, IsList(x)
    PROVE  HashesTo(x, TreeHashes(x))
<1> DEFINE n == Len(x)
           f == [s \in Spans(n) |-> Root(x, s[1], s[2])]
<1>1. n \in Nat
    BY ListShape
<1>2. ASSUME NEW s \in Spans(n)
      PROVE  f[s] = IF s[1] = s[2] THEN x[s[1]]
                    ELSE HashNode(f[<<s[1], Split(s)>>], f[<<Split(s) + 1, s[2]>>])
    <2> DEFINE a == s[1]
               b == s[2]
    <2>1. a \in 1..n /\ b \in 1..n /\ a <= b /\ s = <<a, b>>
        BY DEF Spans
    <2> HIDE DEF a, b
    <2>2. a \in Nat /\ a >= 1 /\ b \in Nat /\ b <= n
        BY <1>1, <2>1
    <2>3. CASE a = b
        BY <2>1, <2>2, <2>3, SpanOfOne DEF a, b
    <2>4. CASE a # b
        <3> DEFINE m == Split(<<a, b>>)
        <3>1. m \in a..b - 1 /\ Root(x, a, b) = HashNode(Root(x, a, m), Root(x, m + 1, b))
            BY <2>1, <2>2, <2>4, SpanSplits
        <3> HIDE DEF m
        <3>2. <<a, m>> \in Spans(n) /\ <<m + 1, b>> \in Spans(n)
            BY <1>1, <2>1, <2>2, <3>1 DEF Spans
        <3>3. /\ f[s] = Root(x, a, b) /\ f[<<a, m>>] = Root(x, a, m)
              /\ f[<<m + 1, b>>] = Root(x, m + 1, b)
            BY <3>2 DEF a, b
        <3> HIDE DEF f
        <3> QED BY <2>1, <2>4, <3>1, <3>3 DEF m, a, b
    <2> QED BY <2>3, <2>4
<1>3. f = [s \in Spans(n) |-> f[s]]
    OBVIOUS
<1> HIDE DEF f
<1>4. HashesTo(x, f)
    BY <1>2, <1>3 DEF HashesTo
<1> QED BY <1>4 DEF HashesTo, TreeHashes

\* The root that computeRoot makes level by level is the recursive tree hash of
\* RFC 6962, for every list of hashes that is not empty.
THEOREM TreeHashIsRoot ==
    ASSUME NEW x, IsList(x), x # <<>>
    PROVE  TreeHash(x) = ComputeRoot(x)
<1> DEFINE n == Len(x)
           g == TreeHashes(x)
           T == {d \in Nat : \E s \in Spans(n) : s[2] - s[1] = d /\ g[s] # Root(x, s[1], s[2])}
<1>1. n \in Nat /\ n >= 1
    BY ListShape DEF IsList
<1>2. T = {}
    <2>1. SUFFICES ASSUME T # {} PROVE FALSE
        OBVIOUS
    <2>2. PICK d \in T : \A e \in T : d <= e
        BY <2>1, LeastNumber
    <2>3. PICK s \in Spans(n) : s[2] - s[1] = d /\ g[s] # Root(x, s[1], s[2])
        BY <2>2
    <2> DEFINE a == s[1]
               b == s[2]
               m == Split(<<a, b>>)
    <2>4. g[s] = IF a = b THEN x[a] ELSE HashNode(g[<<a, Split(s)>>], g[<<Split(s) + 1, b>>])
        BY <2>3, TreeHashesDefined DEF HashesTo
    <2> HIDE DEF g
    <2>5. a \in 1..n /\ b \in 1..n /\ a <= b /\ s = <<a, b>> /\ b - a = d
        BY <2>3 DEF Spans
    <2>6. g[s] # Root(x, a, b)
        BY <2>3
    <2> HIDE DEF a, b
    <2>7. a \in Nat /\ a >= 1 /\ b \in Nat /\ b <= n
        BY <1>1, <2>5
    <2>8. CASE a = b
        BY <2>4, <2>6, <2>7, <2>8, SpanOfOne
    <2>9. CASE a # b
        <3>1. m \in a..b - 1 /\ Root(x, a, b) = HashNode(Root(x, a, m), Root(x, m + 1, b))
            BY <2>5, <2>7, <2>9, SpanSplits
        <3>2. Split(s) = m
            BY <2>5
        <3> HIDE DEF m
        <3>3. /\ <<a, m>> \in Spans(n) /\ <<m + 1, b>> \in Spans(n)
              /\ <<a, m>>[1] = a /\ <<a, m>>[2] = m
              /\ <<m + 1, b>>[1] = m + 1 /\ <<m + 1, b>>[2] = b
            BY <1>1, <2>5, <2>7, <3>1 DEF Spans
        <3>4. /\ m - a \in Nat /\ m - a < d /\ b - (m + 1) \in Nat /\ b - (m + 1) < d
            BY <2>5, <2>7, <3>1
        <3>5. m - a \notin T /\ b - (m + 1) \notin T
            BY <2>2, <3>4
        <3>6. g[<<a, m>>] = Root(x, a, m) /\ g[<<m + 1, b>>] = Root(x, m + 1, b)
            BY <3>3, <3>4, <3>5
        <3> QED BY <2>4, <2>6, <2>9, <3>1, <3>2, <3>6
    <2> QED BY <2>8, <2>9
<1>3. <<1, n>> \in Spans(n) /\ <<1, n>>[1] = 1 /\ <<1, n>>[2] = n /\ n - 1 \in Nat
    BY <1>1 DEF Spans
<1>4. g[<<1, n>>] = Root(x, 1, n)
    BY <1>2, <1>3
<1>5. Part(x, 1, n) = x
    BY WholePart
<1> QED BY <1>4, <1>5 DEF TreeHash, Root

\* The root of the tree is the tree hash of its leaves, after every append.
THEOREM RootsAreTreeHashes == TreeSpec => []RootIsTreeHash
<1>1. TreeInv => RootIsTreeHash
    BY TreeHashIsRoot, ListOf DEF TreeInv, RootIsTreeHash
<1> QED BY <1>1, RootsAreRecorded, PTL

===============================================================================
