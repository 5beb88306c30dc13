--------------------------- MODULE StandaloneServer ---------------------------
(***************************************************************************)
(* The start command without a server behind it (internal/cli/start.go):   *)
(* it loads its configuration, wires the dispatcher of pkg/mcp with its    *)
(* middlewares and the credential tools of pkg/credentials, serves         *)
(* requests over stdio or over HTTP, and shuts the broker down.            *)
(*                                                                         *)
(* Over stdio the goroutine Main reads, dispatches and answers one message *)
(* after the other, behind the guardrails and the audit middleware.  Over  *)
(* HTTP every POST has a goroutine of its own, and there are no            *)
(* middlewares.  Either way the tools call the broker, whose timers run    *)
(* beside them: the broker's steps are those of CredentialBroker.          *)
(***************************************************************************)
EXTENDS Configuration, InjectionDetector, Sequences, FiniteSets

CONSTANTS
    Lease, Caller, Target, RequestTarget, InitialDrivers, Registrations, FailingDrivers,
    RequestTTL, MinTTL, MaxTTL, DefaultTTL, MaxRenewals, MaxTime, None,
    Main,          \* the goroutine that runs the start command
    Files,         \* configuration files, as layers
    Environments,  \* what the environment may hold
    FlagSets,      \* flags and arguments that start may be given
    Messages,      \* the messages that a client sends over stdio
    Posts,         \* the messages that clients send over HTTP
    MaxMessages    \* bound: messages that arrive

VARIABLES
    now, closed, drivers, leases, object, timers, deadline, op, renewals, credential,
    revokeFailed, late,    \* of the broker
    boot,     \* the configuration while start prepares to serve
    server,   \* what start runs
    task,     \* what the handler of each goroutine is doing
    notes,    \* the audit records of the message at hand
    lost,     \* WriteEvent has failed
    revoked,  \* leases that a client was told are revoked
    received  \* how many messages have arrived

Broker == INSTANCE CredentialBroker

brokerVars == <<now, closed, drivers, leases, object, timers, deadline, op, renewals,
                credential, revokeFailed, late>>
startVars == <<boot, server>>
dispatchVars == <<task, notes, lost, revoked, received>>
vars == <<brokerVars, startVars, dispatchVars>>

-------------------------------------------------------------------------------
\* "ping" stands for the requests that touch no state: ping, initialize and
\* tools/list; "call" is tools/call, the others below are tools, which are
\* methods as well.  "note" is JSON-RPC that is no request.
Tool == {"request", "revoke", "list"}
Known == {"ping", "call"} \cup Tool
Method == Known \cup {"unknown", "note", "garbage"}

\* tool: params.name of a call; argument: the target or the lease, None when it
\* is missing or does not parse; text, values, inner: the params, the values in
\* the arguments of a call, and these marshalled again for the tool; size:
\* "grows" when only the latter exceed the limit; denied: the tool policy denies
\* the tool, be it called or be it the method.
Message == [method: Method, tool: Tool \cup {"ping", "unknown", ""},
            argument: Lease \cup RequestTarget \cup {None}, ttl: RequestTTL,
            text: Text, values: Text, inner: Text,
            size: {"small", "grows", "large"}, denied: BOOLEAN]

\* NewBroker registers the generic driver, and start registers no other.
ASSUME StandaloneAssumption ==
    /\ Broker!BrokerAssumption
    /\ \A t \in Target : InitialDrivers[t] \in {None, "generic_token"}
    /\ Registrations = {}
    /\ Main \in Caller
    /\ Messages \subseteq Message /\ Posts \subseteq Messages /\ Messages # {}
    /\ MaxMessages \in Nat

NoMessage == CHOOSE m \in Messages : TRUE

\* inner: the tool of a call is being dispatched; failed: its handler returned
\* an error; outcome: of the response so far.
Task == [pc: {"idle", "enter", "handle", "broker", "leave", "return", "answer"},
         message: Messages, inner: BOOLEAN, failed: BOOLEAN,
         outcome: {"none", "result", "error", "refused"}]

Free == [pc |-> "idle", message |-> NoMessage, inner |-> FALSE, failed |-> FALSE,
         outcome |-> "none"]

Note == [kind: {"request", "tool", "response"}, method: Known]

Serving == server.pc \in {"serving", "draining", "shutdown"}

Handlers == IF server.mode = "sse" THEN Caller \ {Main} ELSE {Main}

-------------------------------------------------------------------------------
NoLayers == [file |-> <<>>, env |-> <<>>, flags |-> <<>>]

Init ==
    /\ Broker!Init
    /\ boot = [pc |-> "load", config |-> DefaultConfig, layers |-> NoLayers]
    /\ server = [pc |-> "boot", mode |-> "none", guard |-> FALSE, policy |-> FALSE,
                 audit |-> FALSE]
    /\ task = [h \in Caller |-> Free]
    /\ notes = <<>> /\ lost = FALSE
    /\ revoked = {} /\ received = 0

-------------------------------------------------------------------------------
\* The start command, up to the point where it serves.

Refuse ==
    /\ boot' = [boot EXCEPT !.pc = "done", !.config = DefaultConfig, !.layers = NoLayers]
    /\ server' = [server EXCEPT !.pc = "exited"]

LoadConfig(file, env) ==
    /\ boot.pc = "load"
    /\ IF Load(file, env) = {} THEN Refuse
       ELSE /\ \E cfg \in Load(file, env) :
                  boot' = [pc |-> "flags", config |-> cfg,
                           layers |-> [NoLayers EXCEPT !.file = file, !.env = env]]
            /\ UNCHANGED server

\* The configuration is validated again; a dry run ends here.
TakeFlags(flags) ==
    LET cfg == ApplyFlags(boot.config, flags) IN
    /\ boot.pc = "flags"
    /\ \/ /\ Valid(cfg)
          /\ boot' = [boot EXCEPT !.pc = "wire", !.config = Normalised(cfg),
                                  !.layers.flags = flags]
          /\ UNCHANGED server
       \/ Refuse

\* What is served, and behind which middlewares.  An audit log that cannot be
\* opened is done without, and so is the tool policy when a pattern in one of
\* its rules does not compile.  The gateways are modules of their own.
Wire ==
    /\ boot.pc = "wire"
    /\ IF Program(boot.config) = "gateway" THEN Refuse
       ELSE /\ boot' = [boot EXCEPT !.pc = "done", !.config = DefaultConfig, !.layers = NoLayers]
            /\ \E opened, compiled \in BOOLEAN :
                  server' = [pc |-> "serving", mode |-> Program(boot.config),
                             guard |-> Program(boot.config) = "stdio" /\ boot.config.guardrails,
                             policy |-> /\ Program(boot.config) = "stdio"
                                        /\ boot.config.guardrails /\ compiled,
                             audit |-> /\ Program(boot.config) = "stdio" /\ boot.config.audit
                                       /\ boot.config.logPath # "" /\ opened]

Start ==
    /\ \/ \E file \in Files, env \in Environments : LoadConfig(file, env)
       \/ \E flags \in FlagSets : TakeFlags(flags)
       \/ Wire
    /\ UNCHANGED <<brokerVars, dispatchVars>>

-------------------------------------------------------------------------------
\* The dispatcher.

\* The method that is being dispatched.
Frame(h) == IF task[h].inner THEN task[h].message.tool ELSE task[h].message.method

\* GuardrailRequestInterceptor: the arguments and the tool of a call are looked
\* at when there is a policy.
Blocked(h) ==
    LET m == task[h].message IN
    IF task[h].inner THEN m.size = "grows" \/ Detected(m.inner)
    ELSE \/ m.size = "large"
         \/ Detected(m.text)
         \/ m.method = "call" /\ server.policy /\ (ScanArguments({m.values}) \/ m.denied)

\* auditWriter.WriteEvent, whose error nobody looks at.
Record(kind, method) ==
    IF ~server.audit THEN UNCHANGED <<notes, lost>>
    ELSE \/ notes' = Append(notes, [kind |-> kind, method |-> method]) /\ UNCHANGED lost
         \/ lost' = TRUE /\ UNCHANGED notes

RecordRequest(h) == Record(IF Frame(h) = "call" THEN "tool" ELSE "request", Frame(h))

\* A message arrives.  Over stdio one that is not JSON ends the server and one
\* that is no request is ignored; over HTTP both get their status at once.
Receive(h, m) ==
    /\ server.pc = "serving"
    /\ h \in Handlers /\ task[h].pc = "idle"
    /\ received < MaxMessages
    /\ server.mode = "sse" => m \in Posts
    /\ received' = received + 1
    /\ IF m.method \in {"note", "garbage"}
       THEN UNCHANGED <<task, notes>>
       ELSE /\ task' = [task EXCEPT ![h] = [Free EXCEPT !.pc = "enter", !.message = m]]
            /\ notes' = <<>>
    /\ server' = IF m.method = "garbage" /\ server.mode = "stdio"
                 THEN [server EXCEPT !.pc = "shutdown"] ELSE server
    /\ UNCHANGED <<brokerVars, boot, lost, revoked>>

\* dispatchRequest: an unknown method is answered before any middleware; then
\* the guardrails refuse, or the audit middleware records.
Enter(h) ==
    /\ task[h].pc = "enter"
    /\ \/ /\ Frame(h) \notin Known
          /\ task' = [task EXCEPT ![h].pc = "return", ![h].outcome = "error"]
          /\ UNCHANGED <<notes, lost>>
       \/ /\ Frame(h) \in Known
          /\ server.guard /\ Blocked(h)
          /\ task' = [task EXCEPT ![h].pc = "return", ![h].outcome = "refused"]
          /\ UNCHANGED <<notes, lost>>
       \/ /\ Frame(h) \in Known
          /\ ~(server.guard /\ Blocked(h))
          /\ task' = [task EXCEPT ![h].pc = "handle"]
          /\ RecordRequest(h)
    /\ UNCHANGED <<brokerVars, startVars, revoked, received>>

Finish(h, failed) ==
    task' = [task EXCEPT ![h].pc = "leave", ![h].failed = failed]

\* Mutant: the handler of the tool is called directly.
CallPastMiddlewares(h) ==
    /\ Frame(h) = "call"
    /\ IF task[h].message.tool \notin Known THEN Finish(h, TRUE)
       ELSE task' = [task EXCEPT ![h].pc = "handle", ![h].inner = TRUE]
    /\ UNCHANGED brokerVars

\* tools/call dispatches the tool, with all middlewares; a name that is empty
\* makes a message that Dispatch does not support.
Call(h) ==
    /\ Frame(h) = "call"
    /\ IF task[h].message.tool = "" THEN Finish(h, TRUE)
       ELSE task' = [task EXCEPT ![h].pc = "enter", ![h].inner = TRUE]
    /\ UNCHANGED brokerVars

\* krypton_request_credential, up to the driver.
RequestCredential(h) ==
    LET m == task[h].message IN
    /\ Frame(h) = "request"
    /\ \/ /\ m.argument \in RequestTarget
          /\ Broker!IssueLease(h, m.argument, m.ttl)
          /\ task' = [task EXCEPT ![h].pc = "broker"]
       \/ /\ \/ m.argument \notin RequestTarget
             \/ closed
             \/ Broker!Granted(m.ttl) \notin MinTTL..MaxTTL
          /\ Finish(h, TRUE)
          /\ UNCHANGED brokerVars

\* krypton_revoke_credential, up to the driver.
RevokeCredential(h) ==
    LET l == task[h].message.argument IN
    /\ Frame(h) = "revoke"
    /\ \/ l \in Lease /\ Broker!RevokeLease(h, l) /\ task' = [task EXCEPT ![h].pc = "broker"]
       \/ l \in Lease /\ Broker!RevokeNothing(h, l) /\ Finish(h, ~Broker!Recorded(l))
       \/ l \notin Lease /\ Finish(h, TRUE) /\ UNCHANGED brokerVars

\* krypton_list_leases takes a snapshot; ping and the like need nothing.
Reply(h) ==
    /\ Frame(h) \in {"ping", "list"}
    /\ Finish(h, FALSE)
    /\ UNCHANGED brokerVars

Handle(h) ==
    /\ task[h].pc = "handle"
    /\ Call(h) \/ RequestCredential(h) \/ RevokeCredential(h) \/ Reply(h)
    /\ UNCHANGED <<startVars, notes, lost, revoked, received>>

\* The rest of the broker call; it fails when the driver cannot generate.
InBroker(h) ==
    /\ task[h].pc = "broker"
    /\ \/ Broker!Generate(h) \/ Broker!RecordLease(h)
       \/ Broker!DropCredential(h) \/ Broker!MarkRevoked(h)
    /\ IF op'[h] # Broker!Idle THEN UNCHANGED task
       ELSE Finish(h, op[h].pc = "generate")
    /\ UNCHANGED <<startVars, notes, lost, revoked, received>>

\* Back in the audit middleware: a handler that returned an error has no
\* response, and leaves no record of one.
Leave(h) ==
    /\ task[h].pc = "leave"
    /\ task' = [task EXCEPT ![h].pc = "return",
                   ![h].outcome = IF task[h].failed THEN "error"
                                  ELSE IF @ = "none" THEN "result" ELSE @]
    /\ IF task[h].failed THEN UNCHANGED <<notes, lost>> ELSE Record("response", Frame(h))
    /\ UNCHANGED <<brokerVars, startVars, revoked, received>>

\* Dispatch returns a response, to the handler of the call or to the server.
Return(h) ==
    /\ task[h].pc = "return"
    /\ task' = IF task[h].inner
               THEN [task EXCEPT ![h].pc = "leave", ![h].inner = FALSE, ![h].failed = FALSE]
               ELSE [task EXCEPT ![h].pc = "answer"]
    /\ UNCHANGED <<brokerVars, startVars, notes, lost, revoked, received>>

\* The lease that the client is told has been revoked.
ToldRevoked(h) ==
    LET m == task[h].message IN
    {l \in Lease : /\ m.argument = l /\ task[h].outcome = "result"
                   /\ m.method = "revoke" \/ (m.method = "call" /\ m.tool = "revoke")}

\* The response is written; over stdio an error of the write ends the server.
Answer(h) ==
    /\ task[h].pc = "answer"
    /\ task' = [task EXCEPT ![h] = Free]
    /\ notes' = <<>>
    /\ \/ /\ revoked' = revoked \cup ToldRevoked(h)
          /\ UNCHANGED server
       \/ /\ server.mode = "stdio"
          /\ server' = [server EXCEPT !.pc = "shutdown"]
          /\ UNCHANGED revoked
    /\ UNCHANGED <<brokerVars, boot, lost, received>>

Dispatch(h) ==
    Serving /\ (Enter(h) \/ Handle(h) \/ InBroker(h) \/ Leave(h) \/ Return(h) \/ Answer(h))

-------------------------------------------------------------------------------
\* The end.

\* Over stdio the client closes its end, or the context is cancelled, between
\* two messages.  Over HTTP the context is cancelled, and Shutdown of the
\* server waits for the handlers, five seconds at most; or it fails to listen.
StopServing ==
    /\ \/ /\ server.pc = "serving" /\ server.mode = "stdio" /\ task[Main].pc = "idle"
          /\ server' = [server EXCEPT !.pc = "shutdown"]
       \/ /\ server.pc = "serving" /\ server.mode = "sse"
          /\ server' = [server EXCEPT !.pc = "draining"]
       \/ /\ server.pc = "draining"
          /\ server' = [server EXCEPT !.pc = "shutdown"]
    /\ UNCHANGED <<brokerVars, boot, dispatchVars>>

\* The deferred calls: the broker shuts down, the ledger is closed.
ShutdownBroker ==
    /\ server.pc = "shutdown"
    /\ ~closed \/ op[Main].pc # "idle"
    /\ (~closed /\ Broker!Shutdown(Main)) \/ Broker!Step(Main)
    /\ UNCHANGED <<startVars, dispatchVars>>

\* Mutant: the server that cannot read its input exits at once.
ExitAtOnce ==
    /\ server.pc = "shutdown"
    /\ op[Main].pc = "idle"
    /\ server' = [server EXCEPT !.pc = "exited"]
    /\ UNCHANGED <<brokerVars, boot, dispatchVars>>

Exit ==
    /\ server.pc = "shutdown"
    /\ closed /\ op[Main].pc = "idle"
    /\ server' = [server EXCEPT !.pc = "exited"]
    /\ UNCHANGED <<brokerVars, boot, dispatchVars>>

\* The timers of the broker and the clock.
Background ==
    /\ Serving
    /\ \/ \E t \in Broker!Timer : Broker!Fire(t) \/ Broker!Step(t)
       \/ Broker!Tick
    /\ UNCHANGED <<startVars, dispatchVars>>

Next ==
    \/ Start
    \/ \E h \in Caller, m \in Messages : Receive(h, m)
    \/ \E h \in Caller : Dispatch(h)
    \/ StopServing \/ ShutdownBroker \/ Exit
    \/ Background

Spec == Init /\ [][Next]_vars

-------------------------------------------------------------------------------
\* What each layer says of a field: a set of at most one value.
FlagSays(f) ==
    LET flags == boot.layers.flags IN
    IF f = "command" /\ "argument" \in DOMAIN flags THEN {flags.argument}
    ELSE IF f = "downstream" /\ "url" \in DOMAIN flags THEN {"http"}
    ELSE {flags[g] : g \in {f} \cap DOMAIN flags}

\* An environment variable that is empty, or no number or truth value where one
\* is needed, says nothing.
EnvSays(f) ==
    LET env == boot.layers.env IN
    IF f \notin DOMAIN env \/ env[f] = "" THEN {}
    ELSE CASE f = "port" -> {Number[n] : n \in {env[f]} \cap DOMAIN Number}
           [] f \in {"masking", "guardrails", "audit"} ->
                 {(w \in {"true", "1", "yes", "on"}) :
                    w \in {env[f]} \cap {"true", "1", "yes", "on", "false", "0", "no", "off"}}
           [] f \in {"transport", "logLevel", "downstream"} -> {Lower(env[f])}
           [] OTHER -> {env[f]}

FileSays(f) == {boot.layers.file[g] : g \in {f} \cap DOMAIN boot.layers.file}

\* Every field has the value of the last layer that says something of it: the
\* flags before the environment, the environment before the file, the file
\* before the defaults (Load, applyEnvOverrides and the start command).
LastLayerWins ==
    boot.pc \in {"flags", "wire"} =>
        \A f \in Field \ {"downstream"} :
            boot.config[f] = CASE FlagSays(f) # {} -> CHOOSE v \in FlagSays(f) : TRUE
                               [] FlagSays(f) = {} /\ EnvSays(f) # {} ->
                                     CHOOSE v \in EnvSays(f) : TRUE
                               [] FlagSays(f) = {} /\ EnvSays(f) = {} /\ FileSays(f) # {} ->
                                     CHOOSE v \in FileSays(f) : TRUE
                               [] OTHER -> DefaultConfig[f]

\* A rule matches the text or one of its first Base64 words.
Suspect(text) ==
    text.matches # {} \/ \E i \in DOMAIN text.words : i <= MaxWords /\ text.words[i] # {}

\* Whether a message is what the guardrails keep out: a rule matches its params,
\* or they are too large; or those of the tool that it calls.  With a policy
\* also a call with such a value in its arguments, or of a denied tool.
Offends(m, policy) ==
    \/ Suspect(m.text) \/ m.size = "large"
    \/ m.method = "call" /\ m.tool # "" /\ (Suspect(m.inner) \/ m.size = "grows")
    \/ m.method = "call" /\ policy /\ (Suspect(m.values) \/ m.denied)

\* With guardrails no message that offends reaches a tool, whether the tool is
\* called by tools/call or is the method of the message, and none that does not
\* offend is refused.  It tells what the guardrails do not keep out as well: a
\* denied tool that is the method itself, whatever only the policy would have
\* stopped when there is none, and what is behind the tenth Base64 word.
OnlyCleanRequestsRun ==
    server.guard => \A h \in Caller :
        /\ (task[h].pc \in {"handle", "broker"} /\ Frame(h) \in Tool) =>
              ~Offends(task[h].message, server.policy)
        /\ task[h].outcome = "refused" => Offends(task[h].message, server.policy)

Count(kinds) == Cardinality({i \in DOMAIN notes : notes[i].kind \in kinds})

\* The ledger tells what a call did, as long as its writes succeed: while a tool
\* is at work its own name is the last record, also when it was called through
\* tools/call, and a call that succeeds leaves no record of a request without
\* one of its response.
RecordsTellTheCall ==
    (server.audit /\ ~lost) => \A h \in Caller :
        /\ task[h].pc = "broker" => /\ notes # <<>>
                                    /\ notes[Len(notes)] = [kind |-> "request", method |-> Frame(h)]
        /\ task[h].pc = "answer" /\ task[h].outcome = "result" =>
              /\ Count({"response"}) = Count({"request", "tool"})
              /\ notes # <<>>

\* When a client has been told that a lease is revoked, its secret is destroyed
\* and krypton_list_leases no longer shows it, whichever goroutine revoked it.
RevokedAnswersHold ==
    \A l \in revoked : credential[l].state = "dropped" /\ l \notin Broker!ActiveLeases

BeingIssued(l) == \E g \in Caller : op[g].pc = "record" /\ op[g].lease = l

\* The server does not end before it has revoked what it issued, whatever made
\* it end: only a timer may be about to, or, over HTTP, a handler that outlived
\* the five seconds.
ExitLeavesNoSecret ==
    (server.pc = "exited" /\ server.mode # "none") =>
        \A l \in Lease : credential[l].state = "live" =>
            \/ Broker!BeingRevoked(l)
            \/ server.mode = "sse" /\ (l \in late \/ BeingIssued(l))

\* The types of the variables that are not the broker's.
TypeOK ==
    /\ boot.pc \in {"load", "flags", "wire", "done"} /\ DOMAIN boot.config = Field
    /\ server \in [pc: {"boot", "serving", "draining", "shutdown", "exited"},
                   mode: {"none", "stdio", "sse"}, guard: BOOLEAN, policy: BOOLEAN,
                   audit: BOOLEAN]
    /\ task \in [Caller -> Task]
    /\ notes \in Seq(Note) /\ lost \in BOOLEAN
    /\ revoked \subseteq Lease
    /\ received \in 0..MaxMessages

===============================================================================
