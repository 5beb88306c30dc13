------------------------------ MODULE AuditLedger ------------------------------
(***************************************************************************)
(* The audit ledger of pkg/audit: LogWriter appends audit events to a      *)
(* JSONL file and to a Merkle tree in memory, NewFileWriter rebuilds the   *)
(* tree from the file, VerifyLogFile checks a file.                        *)
(*                                                                         *)
(* Gateways come and go: each NewFileWriter call of a process on the same  *)
(* path is a gateway here.  w.mu makes WriteEvent of one gateway atomic    *)
(* for its own goroutines, but not for another gateway on the same file,   *)
(* nor for a crash: the tree is appended to before the line is written.    *)
(*                                                                         *)
(* A Merkle root is represented by the sequence of events it commits to    *)
(* (no two sequences of leaves of MerkleTree have one root: RootCommits),  *)
(* and a leaf hash by its event.                                           *)
(***************************************************************************)
EXTENDS Integers, Sequences, FiniteSets

CONSTANTS
    Event,        \* audit events; NewAuditEvent gives every event its own id
    Gateway,      \* LogWriters on the path, in any order of time
    MaxOpen,      \* bound: how many of them are open at once
    WriteFaults,  \* what a failing Write may leave in the file, see Fault
    SyncMayFail,  \* Sync may return an error
    PowerMayFail, \* the machine may lose what was not synced
    None

Fault == {"nothing", "part", "unterminated"}

ASSUME LedgerAssumption ==
    /\ MaxOpen \in Nat \ {0}
    /\ WriteFaults \subseteq Fault
    /\ SyncMayFail \in BOOLEAN
    /\ PowerMayFail \in BOOLEAN
    /\ None \notin Event

VARIABLES
    file,      \* the lines of the log file
    ended,     \* the file is empty or its last line ends with a newline
    durable,   \* how many of the lines survive a loss of power
    pc,        \* of each gateway
    tree,      \* w.tree: the leaves
    pending,   \* the event of the WriteEvent call under way
    stale,     \* history: tree and file have gone apart since the gateway opened
    used,      \* history: events handed to WriteEvent
    acked,     \* history: events for which WriteEvent returned nil
    unsynced   \* history: acknowledged events not followed by a successful Sync

vars == <<file, ended, durable, pc, tree, pending, stale, used, acked, unsynced>>

-------------------------------------------------------------------------------
\* A line is the JSON of an event with its index and root, or not JSON at all;
\* stale records that the gateway that wrote it was stale.
Line == [event: Event \cup {None}, index: Nat, root: Seq(Event), stale: BOOLEAN]

Garbage == [event |-> None, index |-> 0, root |-> <<>>, stale |-> FALSE]

Readable(line) == line.event # None

\* The positions of the lines of f that parse, in order, give the leaves of the
\* tree that NewFileWriter builds: it skips the lines that do not parse.
Parsed(f) == {i \in DOMAIN f : Readable(f[i])}

Rank(f, i) == Cardinality({j \in Parsed(f) : j <= i})

Leaves(f) ==
    [n \in 1..Cardinality(Parsed(f)) |-> f[CHOOSE i \in Parsed(f) : Rank(f, i) = n].event]

\* Mutant: the recorded root is not compared.
LineVerifiesByIndex(f, i) == Readable(f[i]) /\ f[i].index = i - 1

\* What VerifyLogFile finds for line i, its leaf hash being that of its event.
LineVerifies(f, i) ==
    /\ Readable(f[i])
    /\ f[i].index = i - 1
    /\ f[i].root = Leaves(SubSeq(f, 1, i))

\* VerifyLogFile reports the file as valid; the last root is checked again at
\* the end, against the same tree.
VerifyLogFile(f) == \A i \in DOMAIN f : LineVerifies(f, i)

\* The file after an append of line: text after a line without its newline
\* merges with that line, which then is not JSON.
Extended(line) ==
    IF ended THEN Append(file, line) ELSE [file EXCEPT ![Len(file)] = Garbage]

Logged(e) == \E i \in Parsed(file) : file[i].event = e

OpenGateways == {g \in Gateway : pc[g] # "closed"}

\* The line that g is about to write.
NextLine(g) == [event |-> pending[g], index |-> Len(tree[g]) - 1, root |-> tree[g],
                stale |-> stale[g]]

\* The other open gateways do not see what is written to the file.
Outdated(g) == [h \in Gateway |-> stale[h] \/ (h # g /\ pc[h] # "closed")]

-------------------------------------------------------------------------------
Init ==
    /\ file = <<>>
    /\ ended = TRUE
    /\ durable = 0
    /\ pc = [g \in Gateway |-> "closed"]
    /\ tree = [g \in Gateway |-> <<>>]
    /\ pending = [g \in Gateway |-> None]
    /\ stale = [g \in Gateway |-> FALSE]
    /\ used = {}
    /\ acked = {}
    /\ unsynced = {}

\* Mutant: the tree is not rebuilt.
NewFileWriterEmpty(g) ==
    /\ pc[g] = "closed"
    /\ Cardinality(OpenGateways) < MaxOpen
    /\ pc' = [pc EXCEPT ![g] = "open"]
    /\ stale' = [stale EXCEPT ![g] = FALSE]
    /\ UNCHANGED <<file, ended, durable, tree, pending, used, acked, unsynced>>

\* Mutant: the file is opened with O_TRUNC.
NewFileWriterTruncating(g) ==
    /\ pc[g] = "closed"
    /\ Cardinality(OpenGateways) < MaxOpen
    /\ pc' = [pc EXCEPT ![g] = "open"]
    /\ file' = <<>> /\ ended' = TRUE /\ durable' = 0
    /\ tree' = [tree EXCEPT ![g] = <<>>]
    /\ stale' = [stale EXCEPT ![g] = FALSE]
    /\ UNCHANGED <<pending, used, acked, unsynced>>

NewFileWriter(g) ==
    /\ pc[g] = "closed"
    /\ Cardinality(OpenGateways) < MaxOpen
    /\ pc' = [pc EXCEPT ![g] = "open"]
    /\ tree' = [tree EXCEPT ![g] = Leaves(file)]
    /\ stale' = [stale EXCEPT ![g] = FALSE]
    /\ UNCHANGED <<file, ended, durable, pending, used, acked, unsynced>>

\* The first half of WriteEvent, with w.mu held.
AppendEvent(g, e) ==
    /\ pc[g] = "open"
    /\ e \notin used
    /\ used' = used \cup {e}
    /\ tree' = [tree EXCEPT ![g] = Append(@, e)]
    /\ pending' = [pending EXCEPT ![g] = e]
    /\ pc' = [pc EXCEPT ![g] = "write"]
    /\ UNCHANGED <<file, ended, durable, stale, acked, unsynced>>

\* Mutant: the line is not synced.
WriteLineWithoutSync(g) ==
    /\ pc[g] = "write"
    /\ file' = Extended(NextLine(g))
    /\ ended' = TRUE
    /\ acked' = acked \cup {pending[g]}
    /\ stale' = Outdated(g)
    /\ pending' = [pending EXCEPT ![g] = None]
    /\ pc' = [pc EXCEPT ![g] = "open"]
    /\ UNCHANGED <<durable, unsynced, tree, used>>

\* The second half when Write succeeds; an error of Sync is discarded.  A Sync
\* that succeeds also saves the earlier lines that are still in the file.
WriteLine(g) ==
    /\ pc[g] = "write"
    /\ file' = Extended(NextLine(g))
    /\ ended' = TRUE
    /\ acked' = acked \cup {pending[g]}
    /\ \/ durable' = Len(file') /\ unsynced' = {e \in unsynced : ~Logged(e)}
       \/ SyncMayFail /\ unsynced' = unsynced \cup {pending[g]} /\ UNCHANGED durable
    /\ stale' = Outdated(g)
    /\ pending' = [pending EXCEPT ![g] = None]
    /\ pc' = [pc EXCEPT ![g] = "open"]
    /\ UNCHANGED <<tree, used>>

\* The second half when Write fails, having written nothing, a part of the line
\* or all of it but the newline.  The leaf stays in the tree.
WriteFails(g, fault) ==
    /\ pc[g] = "write"
    /\ fault \in WriteFaults
    /\ CASE fault = "nothing" ->
              /\ stale' = [stale EXCEPT ![g] = TRUE]
              /\ UNCHANGED <<file, ended>>
         [] fault = "part" ->
              /\ file' = Extended(Garbage)
              /\ ended' = FALSE
              /\ stale' = [Outdated(g) EXCEPT ![g] = TRUE]
         [] fault = "unterminated" ->
              /\ file' = Extended(NextLine(g))
              /\ ended' = FALSE
              /\ stale' = Outdated(g)
    /\ pending' = [pending EXCEPT ![g] = None]
    /\ pc' = [pc EXCEPT ![g] = "open"]
    /\ UNCHANGED <<durable, tree, used, acked, unsynced>>

\* Close, or the end of the process, also between the halves of WriteEvent.
Closed(G) ==
    /\ pc' = [g \in Gateway |-> IF g \in G THEN "closed" ELSE pc[g]]
    /\ tree' = [g \in Gateway |-> IF g \in G THEN <<>> ELSE tree[g]]
    /\ pending' = [g \in Gateway |-> IF g \in G THEN None ELSE pending[g]]
    /\ stale' = [g \in Gateway |-> g \notin G /\ stale[g]]

Close(g) ==
    /\ pc[g] = "open"
    /\ Closed({g})
    /\ UNCHANGED <<file, ended, durable, used, acked, unsynced>>

Crash(g) ==
    /\ pc[g] = "write"
    /\ Closed({g})
    /\ UNCHANGED <<file, ended, durable, used, acked, unsynced>>

\* The machine stops.  Lines beyond the durable ones may be missing afterwards,
\* and the first missing one may be there in part.
PowerLoss ==
    /\ PowerMayFail
    /\ Closed(Gateway)
    /\ \E n \in durable..Len(file) :
          \/ /\ file' = SubSeq(file, 1, n)
             /\ ended' = (ended \/ n < Len(file))
             /\ durable' = n
          \/ /\ n < Len(file) /\ "part" \in WriteFaults
             /\ file' = Append(SubSeq(file, 1, n), Garbage)
             /\ ended' = FALSE
             /\ durable' = n + 1
    /\ UNCHANGED <<used, acked, unsynced>>

Next ==
    \/ \E g \in Gateway :
          \/ NewFileWriter(g)
          \/ \E e \in Event : AppendEvent(g, e)
          \/ WriteLine(g)
          \/ \E fault \in Fault : WriteFails(g, fault)
          \/ Close(g)
          \/ Crash(g)
    \/ PowerLoss

Spec == Init /\ [][Next]_vars

-------------------------------------------------------------------------------
\* Types of the variables, and: a gateway writes the event it appended last.
TypeOK ==
    /\ file \in Seq(Line)
    /\ ended \in BOOLEAN
    /\ durable \in 0..Len(file)
    /\ pc \in [Gateway -> {"closed", "open", "write"}]
    /\ tree \in [Gateway -> Seq(Event)]
    /\ pending \in [Gateway -> Event \cup {None}]
    /\ stale \in [Gateway -> BOOLEAN]
    /\ used \subseteq Event
    /\ acked \subseteq used
    /\ unsynced \subseteq acked
    /\ ~ended => file # <<>>
    /\ \A g \in Gateway : pc[g] = "write" => /\ tree[g] # <<>>
                                             /\ pending[g] = tree[g][Len(tree[g])]
                                             /\ pending[g] \in used

\* A line is sound when it can be read and was written by a gateway whose tree
\* held all that the file held.
Sound(line) == Readable(line) /\ ~line.stale

\* krypton audit verify accepts every file of sound lines, after any number of
\* restarts, crashes between the two halves of WriteEvent and lost tails
\* (NewFileWriter, WriteEvent, VerifyLogFile).
SoundLedgerVerifies == (\A i \in DOMAIN file : Sound(file[i])) => VerifyLogFile(file)

\* krypton audit verify accepts nothing else: a torn line, or a line written by
\* a gateway that missed a line of another one or kept a leaf whose line was
\* never written, is always reported.
DamageIsReported == VerifyLogFile(file) => \A i \in DOMAIN file : Sound(file[i])

\* An event that WriteEvent acknowledged stays in the file and can be read,
\* whatever gateways crash, restart or overlap: a torn line costs the one event
\* that was written onto it, and a loss of power those whose Sync failed.
AcknowledgedEventsKept ==
    Cardinality({e \in acked \ unsynced : ~Logged(e)})
        <= Cardinality({i \in DOMAIN file : ~Readable(file[i])})

\* What the file is to those who read it.
EntryOf(line) == [event |-> line.event, sound |-> Sound(line)]

Entries(f) == [i \in DOMAIN f |-> EntryOf(f[i])]

Log == INSTANCE EventLog WITH
    log     <- Entries(file),
    whole   <- ended,
    saved   <- durable,
    verdict <- VerifyLogFile(file)

\* Gateways that fail, overlap, crash and restart only ever add to the ledger: no
\* line is changed or removed but by text behind a torn line or a loss of power,
\* no event is recorded twice, and the verdict of VerifyLogFile is at every
\* moment whether all lines are sound.
ImplementsEventLog == Log!Spec

\* A file that verifies no longer does when a line other than the last ones is
\* deleted, two lines change places or an event is replaced by another one.
Without(f, i) == [j \in 1..Len(f) - 1 |-> IF j < i THEN f[j] ELSE f[j + 1]]

EditsAreReported ==
    VerifyLogFile(file) =>
        /\ \A i \in 1..Len(file) - 1 : ~VerifyLogFile(Without(file, i))
        /\ \A i, j \in DOMAIN file :
              i # j => ~VerifyLogFile([file EXCEPT ![i] = file[j], ![j] = file[i]])
        /\ \A i \in DOMAIN file, e \in Event :
              e # file[i].event => ~VerifyLogFile([file EXCEPT ![i].event = e])

===============================================================================
