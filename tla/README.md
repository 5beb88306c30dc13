# Formal model of KryptonMCP

TLA+ models of the KryptonMCP gateway (`src/`), TLC runs on small instances of
them, and TLAPS proofs for every instance. KryptonMCP stands between an AI
client and MCP tool servers: it forwards JSON-RPC messages, refuses those its
guardrails reject, masks sensitive text, issues short-lived credentials and
writes every message to a tamper-evident ledger.

Line numbers refer to the files under `src/`. Every definition that models code
has an entry in `PROJECT.json` under "map"; definitions whose comment begins
with "Mutant:" are plausible faults, used to show that the properties can fail.

## 1. The system

| Component | State | Operations | Shared with | Hard because |
|---|---|---|---|---|
| Credential broker (`pkg/credentials/broker.go`) | `drivers`, `leases`, `timers`, `closed` under `b.mu`; `Lease` objects with a lock of their own | `RegisterDriver`, `IssueLease`, `RevokeLease`, `RenewLease`, `ActiveLeases`, `Shutdown`; timers that call `RevokeLease` | drivers, the credential tools, the signal handler | every call gives the lock up for the driver call; timers, callers and Shutdown cross; a lease may be in memory as two objects |
| Drivers (`broker.go:253-320`, `postgres.go`, `redis.go`) | tokens; roles and users in a backend | `Generate`, `Revoke`, `Renew` | the broker | each may fail; PostgreSQL and Redis renew a clone, the generic driver the object itself |
| Audit ledger (`pkg/audit/writer.go`, `verifier.go`) | the JSONL file, a Merkle tree in memory | `NewFileWriter`, `WriteEvent`, `Close`, `VerifyLogFile` | the file, with other processes | the tree changes before the file; crashes, torn lines, unsynced data, two gateways on one file |
| Merkle tree (`pkg/audit/merkle.go`) | `leaves`, `root` | `AppendLeafHash`, `AppendEvent`, `GenerateProof`, `VerifyProof` | the ledger | trees whose size is not a power of two |
| Stdio gateway (`internal/proxy/proxy.go`) | two forwarding loops, a context, the interceptors | `Start`, `forwardClientToDownstream`, `forwardDownstreamToClient` | pipes, ledger, client stdout | two goroutines, bounded pipes, deferred shutdown while both are at work |
| Process supervisor (`internal/proxy/process.go`) | `cmd`, `stdin`, `running` | `Start`, `Wait`, `Stop`, `IsRunning` | the gateway | `Stop` kills after two seconds; `running` can be stale |
| SSE server (`pkg/mcp/sse_server.go`) with `HandleClientRequest` (`proxy.go:349-428`) | `sessions`, one channel for each stream | `handleSSE`, `handleMessage`, `handleDirectRPC`, `Start`, health | the proxy, the downstream server | one goroutine per request; channels are used outside the lock and may be closed or full |
| Framing (`pkg/mcp/framing.go`) | a `bufio.Reader` | `ReadRawLine`, `ReadMessage`, `WriteRaw` | every loop | a cancelled read leaves its goroutine behind; lines at and above the limit |
| Dispatcher and standalone server (`pkg/mcp/dispatcher.go`, `internal/cli/start.go`) | handler and middleware tables | the start command: load, flags, wiring, the loop of `start.go:218-239`, deferred calls; `Dispatch` | configuration, broker, ledger, SSE server | middlewares run twice for a tool call; the loop ends in the middle of a session; over HTTP handlers outlive the end |
| Credential tools (`pkg/credentials/tools.go`) | none | `krypton_request_credential`, `krypton_revoke_credential`, `krypton_list_leases`, `tools/list`, `tools/call` | dispatcher, broker | `tools/call` dispatches again; an answer promises what the broker has done |
| Policy engine (`pkg/guardrails/policy.go`) | `callHistory` under a lock | `EvaluateToolCall` | every request | a sliding window pruned as it is used |
| Injection detector (`pkg/guardrails/injection.go`) | none | `ScanText`, `ScanArguments` | the guardrail interceptor | weights, a threshold, and what is scanned |
| Masking (`pkg/masker`) | the vault: two maps and two keys | `MaskText`, `UnmaskText`, `Put`, `Get`, `Clear` | all handlers share one vault | overlapping matches, `Get` decrypts outside the lock, 32-bit tokens |
| Configuration (`internal/config/config.go`) | a `Config` while the program starts | `Load`, `applyEnvOverrides`, `Validate`, the flags of `start` | the start command | four layers for one field, each with values that count as absent |
| Other commands, signer, types | none that changes while requests run | | | |

What makes them correct, in a sentence each:

- *Broker*: no lease is ever forgotten; a lease is shown revoked only when its
  secret was destroyed; Shutdown leaves nothing behind; in the end every lease
  is revoked.
- *Ledger*: a file that nothing happened to verifies, one with damage does not,
  and what `WriteEvent` acknowledged stays.
- *Merkle tree*: the root is that of RFC 6962; exactly the leaves have proofs.
- *Gateways*: messages pass in order and once, nothing passes unlogged, each
  request has one answer, and the gateway ends when its peers do (but for a jam
  of the pipes, section 4).
- *Standalone server*: the last layer that says something of a field decides; with
  guardrails no request that they look for reaches a tool; the ledger names the tool
  that ran; an answer that says "revoked" is true; the exit leaves no secret.
- *Framing*: a line is returned whole, once, in order.
- *Policy*: the limit holds for every window of a minute, and no call is refused
  without need.
- *Masker*: what is masked can be restored, to nothing but its own value, and no
  match leaves whole.

The hazards of the code are listed, each at its line, under "hazards" in
`PROJECT.json`; the properties below were chosen for them.

## 2. The modules

A module `X` is the specification, `MCX` gives its constants values for TLC, and
`X_proofs` holds the theorems.

### CredentialBroker

`closed`, `drivers`, `leases` and `timers` are the fields of `Broker`. A `Lease`
is a pointer in the code: `object[l][v]` is version `v` of lease `l` in memory,
and `leases[l]` the version in the map, since `RenewLease` may replace the entry
by a clone while `RevokeLease` marks the object it read. `credential` is the
backend: which driver made the secret and whether it works. `op[g]` is the point
of goroutine `g`, a caller or the goroutine of a timer.

Each broker call is a sequence of actions cut where `b.mu` is free:
`IssueLease`, `Generate`, `RecordLease`; `RevokeLease` (or `RevokeNothing`),
`DropCredential`, `MarkRevoked`; `RenewLease`, `ExtendCredential`
(`ExtendInPlace`, `ExtendRole` and `CloneLease`, `ExtendUser`, `RefuseRenewal`),
`Rearm`; `Shutdown`, then `RevokeLease` for each lease it collected, then
`ShutdownReturns`. `Fire` starts the goroutine of a timer.

`LeaseService` is what the broker is to those who hold leases: a secret is
minted, listed, destroyed, and only then shown as revoked. `ImplementsLeaseService`
maps the backend to `secret`, the map `b.leases` with the mark of the object in
it to `listed`, and the refusals of backends to `refused`; goroutines, timers,
clones and critical sections are hidden. It holds where every name keeps the
driver it stands for (`StableNames`): `RevokeLease` looks the driver up by the
target of the lease, so a name that is bound to another driver between issue and
revocation sends the revocation to the wrong backend. The runs check the
assumption for their drivers (`NamesAreStable`).

Abstractions: `GenerateLeaseID` never repeats an id; a driver call returns,
with or without an error; `GenericTokenDriver.Renew` writes the shared lease
without the lock of the lease (a data race with `Clone`), which is modelled as
one step.

### AuditLedger

`file` is the list of lines, `ended` whether the last one has its newline,
`durable` how many survive a loss of power. Each `NewFileWriter` of a process is
a gateway with its own `tree`. `WriteEvent` is two actions, `AppendEvent` (the
tree) and `WriteLine` or `WriteFails` (the file), as a crash, or another
gateway, may come between them. A root is represented by the sequence of events
that it commits to; that different sequences have different roots is a theorem
about `MerkleTree` (`RootCommits`). `stale` is history: the tree and the file have gone apart.

`EventLog` is what a ledger promises: it grows at its end, an event is in it
once, only a loss of power takes entries away and only such as were not synced,
and its verdict tells whether every entry is sound. `ImplementsEventLog` maps a
line to the event it records and to whether it verifies, and hides gateways,
trees and roots.

### MerkleTree

The tree, its proofs and their verification over symbolic hashes: `HashLeaf` and
`HashNode` are sequences that begin with the prefix of the code, so two hashes
are equal only if what was hashed is (SHA-256 without collisions). The recursion of
`computeRoot` and the loops of `GenerateProof` and `VerifyProof` are recursive
functions of the number of levels passed: `Levels`, `Steps` (currentLevel,
currentIndex, auditPath) and `Climbing` (current). `TreeHash`, the reference, is the
definition of RFC 6962, by recursion on the part of the list that is hashed. The
theorems about it are in `AuditLedger_proofs`, with those of the ledger it serves.

### GatewayProxy

`GatewayProxy.Start` with a subprocess. `up` and `down` are the two loops, at
the points `top` (context looked at), `read`, `audit` (first interceptor) and
`deliver`; `start` is where `Start` is: launching the subprocess, waiting, then
its deferred calls in reverse order (ledger, context, subprocess). `Stop` closes
the input of the subprocess, and either `Reap`s it or, after two seconds,
`Kill`s it. `forwarded`, `consumed`, `written` and `received` are what went
through the pipes, `logged` the ledger. Client and subprocess are the
environment: `peer`, chosen at the start, says what they may do. The verdict of
the guardrails is an input: the kind of a message, whether or not a policy could
be built (`proxy.go:141`).

Abstractions: a result that the masker fails on, which the code would relay as it
is (`proxy.go:547-550`), takes a token that cannot be made for want of random bytes
or a JSON value that cannot be marshalled again, and is left out; the client reads what it is sent (when it does not, the process
dies of SIGPIPE or waits for it); read errors other than the end of the input do
not persist; a "failing" request stands for an interceptor that returns an error.

### SSEGateway

The users of `HandleClientRequest`, by `mode`: `SSEServer` in front of a remote
server ("sse"), the loop `startHTTPDownstreamStdioLoop` in front of one
("stdio"), and `SSEServer` with the proxy of a subprocess that nobody started
("unstarted", `start.go:109`), where every request is logged, guarded and
answered with an error. A stream and a POST are goroutines; over stdio one
message is handled at a time. `Lookup` and `SendEvent` are two steps because the
channel is used after `s.mu` was released. The channel holds `Capacity` events
instead of 64; a `Forward` returns within its timeout of 60 seconds with a
result or an error.

### Configuration, InjectionDetector

Two modules of operators, used by `StandaloneServer`. `Load` and `ApplyFlags`
overlay the layers of the configuration as functions from fields, with the
spellings and numbers that the environment may hold; `Valid` is `Validate`. A
text for the detector is the set of the rules that match it, and the sequence of its
Base64 words, each the set of the rules that match it; only the first ten words
count (`injection.go:230`). Weights and threshold are those of the code.

### StandaloneServer

The start command when no other server is behind it. `boot` is the configuration
until the program serves, `task[h]` the dispatch that goroutine `h` is in: Main
over stdio, one handler for each POST over HTTP. `Enter` is `dispatchRequest` up
to the handler (unknown method, guardrails, audit), `Handle` the handler, `Leave`
the audit middleware after it, `Return` the end of the dispatch; `inner` says
that the tool of a `tools/call` is being dispatched inside of it. The tools call
the broker: `Broker == INSTANCE CredentialBroker`, whose actions are the steps of
the handler, of the timers, and of the deferred `Shutdown`. `notes` are the
records of the message at hand; `server.guard` and `server.audit` say which
middlewares there are, none over HTTP, as in `start.go:114-130`, and
`server.policy` whether `NewPolicyEngine` succeeded: `Wire` may go on without a
policy (`start.go:162`), and `Blocked` then looks at neither the arguments nor the
tool of a call (`interceptor.go:37`).

Abstractions: a client names one lease; `tools/call` does not name itself;
drivers other than the generic one are not registered by the program; a POST
that is running when the five seconds of Shutdown are over goes on beside the
deferred calls, until the program exits.

### FramingReader

`ReadRawLine` with its goroutine over a `bufio.Reader` of `Buffer` bytes and a
limit of `MaxSize`. Only the length of a line matters, and whether it is blank.
The caller behaves as the loops of the gateway: it goes on after a line that is
too large, and does not read again after it was cancelled. An unterminated last
line whose length is a multiple of the buffer is dropped at the end of the input,
as the code does; `Readable` excludes it from `ReadsEveryLine`.

### PolicyEngine

`EvaluateToolCall` for tools on the lists and with limits. `callHistory` holds
the calls that are remembered, `slots` is history: when each call was allowed.
A call that the constraints refuse after the rate check has taken its slot, as
in the code.

### Masker

Texts are sequences of letters and tokens; `Pattern` and `Valid` say which words
a rule finds and which of them its validator accepts. `MaskText` scans, then
calls `Put` for one match at a time, so that handlers interleave; `UnmaskText`
calls `Get` for one token at a time, in two steps, since the vault is unlocked
before it decrypts. `Clear` zeroes the keys: the HMAC key is used as it is
afterwards (hence two hashes for each value), the AES key is not read again.
Ties between matches are broken arbitrarily, which is more than `sort.Slice`
does. Values are not empty (`TextsAndWords`: no built-in pattern of `rules.go`
matches the empty word; a custom rule that does is not modelled) and the random
source does not fail. The modes
`redact` and `hash` keep no state and are left out. Nothing in the program calls
`Clear`; it is part of the exported interface.

### How they compose

`StandaloneServer` composes the configuration, the detector and the broker, whose
module it instantiates. `CredentialBroker` implements `LeaseService` and
`AuditLedger` implements `EventLog`, by refinement mappings stated in the
detailed modules. `GatewayProxy` and `SSEGateway` contain the pipeline (audit, guardrails, masker)
as steps of a message whose verdict is an input; `PolicyEngine` and `Masker`
are what is behind such a step. `AuditLedger` is what is behind `logged`,
`MerkleTree` what is behind its roots, `FramingReader` what is behind a read.

## 3. The runs

`tlc -workers 2 -config <run>.cfg <module>` in this directory. The two runs
marked V are expected to fail: each checks one sentence of the documentation
that the code contradicts (section 4).

| Run | Module | Question | Bounds |
|---|---|---|---|
| BrokerSafety | MCCredentialBroker | is a lease ever forgotten, does Shutdown cover what it should, is a lease marked revoked whose secret works, is the broker a `LeaseService`? | 1 lease, 2 callers, all drivers, failing backends, 1 renewal, the generic driver bound to `prod_db` at any time |
| BrokerLiveness | MCCredentialBroker | is every lease revoked, and its secret dropped if the driver can, in the end? | 1 lease, 2 callers, 1 renewal, generic and (failing) Redis driver |
| BrokerRenewRace V | MCCredentialBroker | are active leases valid? | as BrokerLiveness, no failures |
| LedgerFaults | MCAuditLedger | does exactly the undamaged ledger verify, is an edit reported, does what was acknowledged stay, is the file an `EventLog`? | 4 events, 2 gateways that may be open at once and restart, every kind of failed write, failing syncs, crashes, power losses |
| MerkleProofs | MCMerkleTree | is the root that of RFC 6962, do exactly the leaves have proofs, do different logs have different roots? | logs of up to 9 leaves over 3 data, one of which looks like an inner node; roots compared up to 4 leaves |
| ProxySafety | MCGatewayProxy | what passes, in which order, is it logged, is every request answered, and does the gateway end with its peers, unless its pipes are jammed? | pipes of 1, and three pairs of peers: 4 requests to a subprocess that handles one at a time, and a client that ends; the same with a subprocess that logs to stderr, exits, or ignores SIGTERM, and signals; 2 messages of every kind, an unasked line, and all of this with a subprocess that reads on while it works |
| ProxyLateTraffic V | MCGatewayProxy | is everything that passes logged? | 2 messages, 1 notification |
| PolicyWindow | MCPolicyEngine | is the limit kept in every window, and is no call refused without need? | 5 tools, limit 2, a minute of 3 ticks, 5 calls, 7 ticks |
| SSEStreams | MCSSEGateway | do responses reach their stream, once, in order, and does every message end, in all three modes? | 1 stream, 2 messages of every kind, a channel of 1, Shutdown |
| MaskVault | MCMasker | is masking deterministic and reversible, across handlers and a `Clear`? | 2 handlers, 2 texts of 4 letters, one with a foreign token, 2 rules with common and overlapping words, 1 `Clear` |
| FramingLines | MCFramingReader | are lines returned whole, once, in order, and what does a cancelled read cost? | 3 lines of 0 to 7 bytes, buffer 2, limit 4, cancellation at every point |
| Standalone | MCStandaloneServer | which layer of the configuration decides, which requests reach a tool, what does the ledger tell of them, may a client rely on "revoked", and what does the exit leave? | 11 files, 9 environments and 7 sets of flags; 22 messages over stdio and 4 over HTTP, of which 3 arrive; 1 lease, 2 HTTP handlers; with a policy and without |

Why the bounds are enough. The races of the broker are between two goroutines
and a timer over one lease; a second renewal adds a timer that is treated as the
first, and leases share nothing but the maps and `closed`. That any number of
leases and callers makes no difference is what the theorems of
`CredentialBroker_proofs` add. Two gateways are enough for one to miss a line of
the other, and four events for damage that is followed by good lines; theorems
cover all numbers. Nine leaves include every shape of an odd level up to depth
four; theorems cover all trees. Pipes of one message block soonest,
and four requests fill both and the two loops between them: one in work, one in
the pipe, one in the hands of the loop that waits to write it, and one answered
before, which left its log line in stderr. A window of three ticks lets calls be
at its edge, inside and outside; theorems cover every window. Two POSTs are
enough to fill a channel of one, to race for it, and to lose it to a leaving
client; that a response crosses to no other stream is left to the theorem
`StreamsCarryTheirResponses`, as the run has one stream. Three messages are an issue, a
revocation and one more that races with either. A buffer of two and a limit of four put lines below, at and above both,
and at a multiple of the buffer. In the broker time runs on only to the
deadlines of armed timers (`MaxTime` bounds what is left of it).

Every module with variables has a `TypeOK` (`TreeTypeOK` in `MerkleTree`), which
documents its domains; those of the components are theorems (section 5), and each
run still passes when it is added to its configuration as an INVARIANT.

Deadlock is not checked where the system may really stop: an idle, jammed or ended
gateway or server (`Proxy*`, `SSE*`, `Standalone`), a caller that ended
(`Framing*`) and a tree of the greatest size (`MerkleProofs`). Symmetry is used
in runs without liveness properties only. `PROJECT.json` gives with every property
a mutant: a plausible fault of the code under which the run finds it violated.

### Fairness

Runs without liveness properties use `Spec`, which assumes none. `FairSpec` of
the broker is weakly fair to each goroutine under way, to each due timer and to
the clock: the Go scheduler runs what can run, the runtime fires timers, drivers
return (`context.Background()` sets no deadline, so a driver that never returns
would falsify this). Nobody is obliged to call. `GatewayProxy` is fair to its
three goroutines and to the subprocess, which reads and answers; the client is
free, and the subprocess need not obey SIGTERM: that the gateway ends all the
same rests on the timer of `Stop`. `SSEGateway` is fair to streams, POSTs and the end of Shutdown after five
seconds. In `FramingReader` only the caller is fair: its peer may be silent for
ever.

## 4. Findings and observations

Two sentences of the documentation are contradicted by the code, each shown by
a run:

- **BrokerRenewRace.** `RenewLease` reads the lease, calls the driver without the
  lock and stores the driver's clone afterwards. When the lease was revoked in
  between, the clone, which is not marked, brings it back to the list of active
  leases, with a secret that no longer works.
- **ProxyLateTraffic.** The deferred calls of `Start` close the ledger first and
  cancel the loops afterwards; a message that passes in between reaches its
  receiver and not the ledger.

The following are part of the models because the code has them; no run is
devoted to them. They qualify the properties as said.

- A Shutdown leaves the timer that an `IssueLease` or `RenewLease` under way arms
  after it (`ShutdownCoversSettledLeases` speaks of settled leases). A failed
  revocation is never tried again (`RevokedMeansDropped` and
  `CredentialsEndDropped` exempt it). A lease of the PostgreSQL or Redis driver
  carries the driver's own name, under which it is looked up at revocation; when
  the driver is bound under another name only, the generic driver is asked, which
  finds nothing. The runs therefore bind these drivers under their own names, as
  `tests/integration/gateway_e2e_test.go:268` does. A renewal is not held to the TTL
  bounds.
- Deleting the last lines of the ledger goes unnoticed, since the roots are in
  the file itself (`EditsAreReported` leaves out the deletion of the last line);
  the event written after a torn line is unreadable (`AcknowledgedEventsKept`
  counts one for each unreadable line); a failed write leaves its leaf in the
  tree, so all later roots are wrong (`DamageIsReported`).
- The gateway logs results before they are masked. Nobody reads the stderr of
  the subprocess, which blocks when the pipe is full. If it handles one request at a
  time and the client has sent more than its stdin holds, the loop from the client
  is then blocked at `proxy.go:513` and cannot see the client's end: `Start` does
  not return until the context is cancelled or the subprocess is gone.
  `EndsWithItsPeers` names this state (`Jammed`), its only exception. The end of
  the client's input drops the answers that are outstanding.
- A POST may send on a channel that its stream has just closed, which panics in
  the handler; `LostOnlyToLeavers` says whom this can hit. A full channel drops
  the event, though the POST is answered. The SSE mode never calls `Start`, so a
  subprocess is not reached in it, and its health is always "stopped".
- Where two matches overlap, the end of the dropped one stays in the clear
  (`NoMatchLeavesWhole` says what is left). Token suffixes have 32 bits and `Put`
  does not look for collisions; the model assumes there are none.
- After a line above the limit its rest is returned as a line.
- The standalone server has no middlewares over HTTP, whatever the configuration
  enables (`OnlyCleanRequestsRun` and `RecordsTellTheCall` speak of servers that
  have them). It records nothing of a request that the guardrails refuse or
  whose method is unknown, and no response of a handler that fails. An audit log
  that cannot be opened is done without. Over stdio a line that is not JSON ends
  it. A POST that outlives the five seconds may issue a lease that nobody
  revokes (the exception in `ExitLeavesNoSecret`).
- `start.go:162` and `proxy.go:141` discard the error of `NewPolicyEngine`: when the
  pattern of a constraint does not compile there is no policy, and neither the
  arguments nor the tool of a call are looked at. With a policy a denied tool is
  refused to `tools/call` only, not when it is the method of the message itself.
  Of the Base64 words of a text the first ten are decoded. `OnlyCleanRequestsRun`
  says exactly what the guardrails keep out (`Offends`), and none of this is in it.
- `HandleClientRequest` over the pipes of a subprocess (`proxy.go:382-389`) would
  mix up the answers of concurrent requests, but no mode of the program reaches
  these lines. `Wait` of the supervisor is called by tests only.
- `WithTTLBounds` looks at each of its arguments alone; the program does not use it.

## 5. The theorems

All are checked by TLAPS for every value of the constants that satisfies the
module's ASSUME.

**CredentialBroker_proofs.** `TypeCorrect`; `NoLeaseForgotten`: a lease in the map
that is not revoked has a registered timer still to run or a goroutine that will
mark the object in the map; `ShutdownCovers`. The inductive invariant is
`BrokerInv == WellFormed /\ NoLeaseUnattended /\ ShutdownCoversSettledLeases`.
`WellFormed` adds to the types what a goroutine past its first critical section
knows (its lease and version) and that the goroutine of a timer only revokes its
own lease. The two safety parts are needed together: Shutdown takes over the
leases whose timers it forgets. `Frame`, `OneGoroutineFrame` and `ArmedFrame`
say when a step leaves attended leases attended; each action then has a lemma.
`RevocationIsReal`: under `StableNames` a lease is marked only when its secret is
gone or its backend refused. Its invariant `RevokeInv` adds what ties a goroutine
between the driver call and the mark to the driver that minted the secret: every
target in a lease, clones included, leads back to that driver, and whoever is
about to mark has had its answer. `BrokerImplementsLeaseService` is the refinement,
from the same invariant: each action of the broker is one step of the service
or none (`StepsServe`); a renewal that overtakes a revocation is `List`.

**AuditLedger_proofs.** `TypeCorrect`; `HonestLedgerVerifies` and
`DamageReported`: the verifier accepts exactly the files of sound lines. The
first needs `SoundInv`: a sound line after sound lines has the index and root
the verifier computes, and the tree of a gateway that is not stale is that of
the file. The second needs `DamageInv`: once tree and file have gone apart they
stay so (`StaleApart`: an event in one that the other lacks), because no event
is handed to two gateways (`EventsKnown`), so each root written from then on is
wrong (`LinesShow`). `RankInjective`, `RankRange` and `RankSurjective` say that
the readable lines of a file number its leaves. `LedgerImplementsEventLog`: each
write, whole, partial or lost, is a step of `EventLog`, and everything else a
stutter. It needs both invariants: for the verdict, which must be the soundness of
all lines, and because an event that is written must be in no line yet.

`AcknowledgedKept` counts: every acknowledged event that is missing has a
durable unreadable line of its own to answer for it. `KeptInv` keeps the number of
the missing below that of the lines spent, and says what may still be lost
without harm: a line without its newline, or being written, was not acknowledged.
`EditsReported` uses that a root commits to the whole sequence of events: after
a deletion, an exchange or a replacement the index or the root of some later line
is no longer the one the verifier computes.

The module also proves what `MerkleTree` says of the tree behind the ledger, for
leaves of any data and trees of any size (`TreeAssumption`: data are sequences).
Everything rests on the lemma `RootSplits`: the root of a list is `HashNode` of the
roots of its two parts at the split of RFC 6962. The levels of the two parts stay
side by side, since the first part is a power of two long, until each is a single
hash; so level by level and by recursion the same tree is hashed
(`TreeHashIsRoot`, and `RootsAreTreeHashes` for the state). `RootCommits`: lists of
leaf hashes with one root are equal, by the two prefixes: a root that is a node is
no leaf, and its two children determine the parts. From it follow
`LogsHaveOwnRoots` and, with `TreeInv` (`RootsAreRecorded`: the n-th recorded root is
that of the first n leaves), that no earlier root is the current one.
`ProofsHoldForTheirLeaf`: after k levels of `GenerateProof`, climbing the path so
far from the leaf leads to the element at the current index (`StepInv`); and climbing
is injective in the leaf and in each sibling, since `HashNode` is. Recursive
functions do not unfold by themselves in the prover: each has a lemma that it
exists and satisfies its equation (`LevelsDefined`, `StepsDefined`,
`ClimbingDefined`, `TreeHashesDefined`), as does the fold in `FlattenSeq` below.

**GatewayProxy_proofs.** `TypeCorrect` (with `Holding`: a loop past reading has a
line it may pass on). `NothingUnlogged` from `LedgerInv`: as long as the ledger is
open, what was passed on is in it, and what is at hand is in it by the time it is
passed on; `Start` closes the ledger for good. A notification carries no number of
its own, so what is relayed is counted, with the help of `DeliversInOrder`: the
ledger has the first n messages of the subprocess when n were relayed
(`RelayedCount`). `WhatPassesIsForwarded`: the
sequence forwarded enumerates the passing messages before the one at hand.
`AnsweredOnce` needs the subprocess as well: `ChildInv` says that it answers a
request it has read, once, when it has finished with it, and `AnswersInv` traces
each answer of the client to its `Origin`, the number of an output delivered or
of a message dealt with; two loops that write to the client cannot answer one
request because one answers what is forwarded and the other what is not.
`DeliveredInOrder` is counting: the n-th relayed line the client has is the n-th
the subprocess wrote.

**SSEGateway_proofs.** `TypeCorrect`, `NothingUnlogged` and `OnlyLeaversLose` from
`GatewayInv`: what the program point of a handler says of its response, of the
ledger and of its session (`HandlerOrder`), and that a session is registered
exactly while its stream runs (`StreamOrder`). `StreamsCarryTheirResponses` from
`CarriesInv`: while a client listens, what it has got, the event in hand and the
channel are together what was put on the channel, without repetition.

**FramingReader_proofs.** `TypeCorrect`, `LinesAreRead` and `CancelledReadsLoseOne`
from `FramingInv`: where the `bufio.Reader` is (`Place`: inside of a line only while
a goroutine gathers it or after it was given up as too large), that what is
returned or waits in the channel ends a line before that place (`Returned`), and
that every line before it was returned or is in the channel (`Complete`).

**StandaloneServer_proofs.** For any files, environments, flags, messages and
handlers. `LastLayerDecides` from `BootInv`: the configuration is, field by field,
the overlay of the layers taken so far. `OnlyCleanRequestsReachTools` and
`RecordsTellCalls` from `DispatchInv`: what the stage of a task says of its message
(`Screened`: which of the two scans it has passed, with a policy or without) and of the ledger (`Tells`: the
very records), and who may be at work (`Flow`). `TypeCorrect` is part of it.

The rest is about the composition. The module instantiates
`CredentialBroker_proofs` with the state of the server. `RunsTheBroker`: every step
of the server is a step of the broker or leaves it alone, so that all theorems of
the broker hold in the server (`ServerServesLeases` is the refinement, through both
modules). For `RevokedAnswersAreTrue` and `NoSecretSurvives` the broker's
invariants do not suffice: `SideInv` ties both sides together. `Generic` says that
only the generic driver is there, so no revocation is refused and no lease has a
clone; `Issuing`, that a secret which is not in the map is in the hands of the
one goroutine that will record it; `CallsInv`, that what a handler does in
the broker is what its message asks for, that only Main shuts down, and that only
over HTTP a lease is recorded after that; `AnswersInv`, that whoever is told, or
about to be told, that a lease is revoked, is told of a marked one. The theorems
of the broker do the rest: a mark means that the secret is gone
(`RevocationIsReal`), and what is not marked at the end is late or being revoked
(`ShutdownCovers`).

`StandaloneAssumption` asks for what `start` does: `NewBroker` binds the generic
driver (`broker.go:60`) and `start` binds no other (`start.go:117`, `start.go:165`).
The model-checked instance satisfies it.

**PolicyEngine_proofs.** `TypeCorrect`; `WindowHolds`: the call `max_per_min` after
another comes at least a minute later, by `WindowInv`: slots are ordered, and only
entries that will never count again were dropped; the rest is counting
(`Cardinality` of an interval of slots). `RefusalsHold`: a refusal has a full
window behind it. `HistoryStaysBounded`: what is remembered of a limited tool never
exceeds its limit, as a slot is taken only when fewer are left after pruning.

**Masker_proofs.** For any rules, words, texts and handlers. `TypeCorrect`.
`VaultIsABijection`: if no two values get one suffix under one key
(`NoCollision`), the two maps of the vault are inverse to each other, across
`Clear` too. Not inductive on its own: `VaultInv` adds that a token ends in the
suffix of its value under the key in use.

`NothingLeavesWhole` needs no hypothesis. `ResolvedInv` says of a handler that masks
why a match is no longer ahead of it: a span it has replaced comes before it in
the order of `resolveOverlaps`, or is the match itself, and ends after the match
begins; all these spans end at or before its index.

`MaskingIsDeterministic` needs none either. `MaskInv` describes what is written so
far by a function `cut` from positions of the output to positions of the text:
between two cuts stands either one letter, copied, or a span, for which the output
has the token of its value (`Masks`). Two complete maskings of a text replace the
same spans, up to the rule that found them (`SameSpan`): by induction along the
text, as the foremost of the longest matches is the same for both. As the vault
has one token for a value until it is cleared, they are equal.

`OriginalsReturn` is `RoundTrip`, from `RestoreInv`: the output of a handler that
restores a masked text is the original up to the cut at its index (`Restores`). It
rests on all of the above, and on two hypotheses. `NoCollision` is needed since a
token two values share gives back only one of them; `TokensAreForeign`, since a
token of this vault that a tool answers itself is copied when the answer is masked,
and replaced by its value when the answer comes back. `MCMasker` asserts that its
constants satisfy both, one of its texts having a foreign token.

`NoTokenBecomesAnother` is `NoWrongValue`, across any number of calls of `Clear`.
`OpensInv`: a handler that restores has written its text up to the index with some
of the tokens opened, and the ciphertext it holds between the two halves of `Get` is
of a value that the token at the index was made for, whatever `Clear` has done
since. When it decrypts the set of opened tokens grows by one, otherwise the token
is copied, and on an error the whole text is (the empty set). The hypothesis
`OneValueEach` is stronger than `NoCollision`: after `Clear` the HMAC key is all
zeroes, and a value may then get the suffix that another had before, so that an old
token in a text would become it. `MCMasker` asserts it of its constants.

The inductions along a text are instances of the least element of a set of
positions (`WFMin`), as induction over data is out of reach.

Every invariant that a run checks is a theorem, and so are the two refinements.
Not proved, and left to TLC: liveness (`LeasesEndRevoked`, `CredentialsEndDropped`,
`EveryRequestAnswered`, `EndsWithItsPeers`, `EveryPostEnds`, `CancelledCallerEnds`)
and ENABLED, which the prover does not support. The orders of messages are stated by enumerations and by positions
(`Enumerates`, `Place`) and not with `SelectSeq`, which is recursive.

## 6. What is not modelled, and the plan

Not modelled for good: regular expressions, checksums, Unicode normalisation and
Base64 (which rules match a text is an input of the models); YAML, JSON and the
walk through a JSON value; SQL and ACL commands; Ed25519 and key files (the
start command does not sign); the output of the other commands; health answers,
which only read; the masking modes `redact` and `hash`, which keep no state; the
options of the broker, `Wait` of the supervisor and the setters of the proxy,
which only tests use. The ledger's verifier reads lines of up to 10 MB; no
longer event is modelled.

Planned, in this order:

1. `ActiveLeases` and the credential tools for more than one driver, should the
   program register one.
2. The masking modes in `Masker`, should a property ever depend on them.
