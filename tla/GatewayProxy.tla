------------------------------ MODULE GatewayProxy ------------------------------
(***************************************************************************)
(* GatewayProxy.Start of internal/proxy with a downstream subprocess:      *)
(* the loop from the client to the subprocess, the loop back, the          *)
(* interceptors each message goes through, and the shutdown.               *)
(*                                                                         *)
(* Three goroutines run: Start itself, forwardClientToDownstream and       *)
(* forwardDownstreamToClient.  They share the audit ledger, the context,   *)
(* the two pipes of the subprocess and the client's stdout.  Audit,        *)
(* guardrails and masking are on, as in DefaultConfig.  A result that the  *)
(* masker fails on would be relayed as it is: that takes a token that      *)
(* cannot be made for want of random bytes, or an error of json.Marshal    *)
(* for what json.Unmarshal has just returned, and is left out.             *)
(*                                                                         *)
(* The client and the subprocess are the environment: the client sends     *)
(* messages of any kind, may close its end and reads what it is sent; the  *)
(* subprocess answers requests in any order, may write notifications or    *)
(* lines that are not JSON-RPC, and may exit.  What a client and a         *)
(* subprocess may do is a member of Peers, chosen when the program starts. *)
(***************************************************************************)
EXTENDS Integers, Sequences, FiniteSets

CONSTANTS
    Peers,        \* what clients and subprocesses may do
    MaxUnasked,   \* bound: messages of the subprocess that answer no request
    PipeSize,     \* messages that fit in a pipe of the subprocess
    StderrSize    \* messages that fit in its stderr pipe

\* "allowed" and "blocked" are requests, by the verdict of the guardrails, and
\* an interceptor returns an error for a "failing" one; guardrails and
\* detokenizer look at no notification; "invalid" is not JSON-RPC.
Kind == {"allowed", "blocked", "failing", "notification", "invalid"}
Request == {"allowed", "blocked", "failing"}

\* sends, writes: kinds of messages of the client, and of those the subprocess
\* writes unasked; messages: how many the client sends; chatty: the subprocess
\* logs to stderr before it answers; serial: it reads no message while it has a
\* request to answer; ends, exits, signals: the client closes its end, the
\* subprocess exits by itself, the context is cancelled.
Peer == [sends: SUBSET Kind, messages: Nat, writes: SUBSET {"notification", "invalid"},
         chatty: BOOLEAN, serial: BOOLEAN, ends: BOOLEAN, exits: BOOLEAN, signals: BOOLEAN]

ASSUME ProxyAssumption ==
    /\ Peers \subseteq Peer
    /\ MaxUnasked \in Nat
    /\ PipeSize \in Nat \ {0} /\ StderrSize \in Nat

VARIABLES
    peer,       \* what this client and this subprocess may do
    sent,       \* kinds of the messages of the client, message n is sent[n]
    eof,        \* the client closed its end
    up,         \* the loop from the client: its point, its message, messages read
    down,       \* the loop to the client, likewise
    forwarded,  \* messages written to the subprocess
    consumed,   \* how many of them it has read
    working,    \* requests it has read and not answered
    written,    \* what it has written to stdout
    stderr,     \* messages in its stderr pipe, which nobody reads
    child,      \* the subprocess: "none", "running" or "exited"
    received,   \* what was written to the client
    logged,     \* what is in the audit ledger
    start,      \* where Start is
    signal      \* the context given to Start was cancelled

clientVars == <<peer, sent, eof>>
childVars == <<consumed, working, written, stderr, child>>
vars == <<clientVars, up, down, forwarded, childVars, received, logged, start, signal>>

-------------------------------------------------------------------------------
Loop == [pc: {"top", "read", "audit", "deliver", "done"}, n: Nat]

\* What the subprocess writes: the answer to request id, or id 0.
Output == [kind: {"response", "notification", "invalid"}, id: Nat]

\* What the client gets: an answer to request id (0 for null and for none).
Delivery == [kind: {"result", "notification", "blocked", "internal", "parse"}, id: Nat, masked: BOOLEAN]

\* The ledger: message n of the client, or message n of the subprocess, with
\* the payload before or after masking.
Record == [from: {"client", "downstream"}, n: Nat, masked: BOOLEAN]

\* NewFileWriter opened the ledger when the proxy was made.
LedgerOpen == start \in {"launch", "wait", "close"}

\* The context of the loops, which Start cancels after it has closed the ledger.
Cancelled == signal \/ start \in {"stop", "reap", "exited"}

StdinOpen == start \notin {"reap", "exited"}

Running == start \notin {"launch", "exited"}

\* WriteEvent; the interceptors discard its error.
Logs(from) == LET n == IF from = "client" THEN up.n ELSE down.n IN
    logged' = IF LedgerOpen THEN logged \cup {[from |-> from, n |-> n, masked |-> FALSE]} ELSE logged

Give(kind, id, masked) ==
    received' = Append(received, [kind |-> kind, id |-> id, masked |-> masked])

-------------------------------------------------------------------------------
Init ==
    /\ peer \in Peers
    /\ sent = <<>> /\ eof = FALSE
    /\ up = [pc |-> "top", n |-> 0] /\ down = [pc |-> "top", n |-> 0]
    /\ forwarded = <<>> /\ consumed = 0 /\ working = {} /\ written = <<>>
    /\ stderr = 0 /\ child = "none"
    /\ received = <<>> /\ logged = {}
    /\ start = "launch" /\ signal = FALSE

-------------------------------------------------------------------------------
\* forwardClientToDownstream.

UpTop ==
    /\ up.pc = "top"
    /\ up' = [up EXCEPT !.pc = IF Cancelled THEN "done" ELSE "read"]
    /\ UNCHANGED <<clientVars, down, forwarded, childVars, received, logged, start, signal>>

\* ReadMessage returns a message; it may do so in spite of a cancelled context.
\* A line that is not JSON-RPC is answered and skipped.
UpRead ==
    /\ up.pc = "read"
    /\ up.n < Len(sent)
    /\ up' = [pc |-> IF sent[up.n + 1] = "invalid" THEN "top" ELSE "audit", n |-> up.n + 1]
    /\ IF sent[up.n + 1] = "invalid" THEN Give("parse", 0, FALSE) ELSE UNCHANGED received
    /\ UNCHANGED <<clientVars, down, forwarded, childVars, logged, start, signal>>

\* ReadMessage returns EOF or the error of the context.
UpEnd ==
    /\ up.pc = "read"
    /\ Cancelled \/ (eof /\ up.n = Len(sent))
    /\ up' = [up EXCEPT !.pc = "done"]
    /\ UNCHANGED <<clientVars, down, forwarded, childVars, received, logged, start, signal>>

\* Mutant: the guardrails come first and end the way of a blocked request.
UpAuditAfterGuardrails ==
    /\ up.pc = "audit"
    /\ IF sent[up.n] = "blocked" THEN UNCHANGED logged ELSE Logs("client")
    /\ up' = [up EXCEPT !.pc = "deliver"]
    /\ UNCHANGED <<clientVars, down, forwarded, childVars, received, start, signal>>

\* The first request interceptor.
UpAudit ==
    /\ up.pc = "audit"
    /\ Logs("client")
    /\ up' = [up EXCEPT !.pc = "deliver"]
    /\ UNCHANGED <<clientVars, down, forwarded, childVars, received, start, signal>>

\* Mutant: the loop does not continue with the next message.
UpInterceptAndForward ==
    /\ up.pc = "deliver"
    /\ sent[up.n] = "blocked"
    /\ Give("blocked", up.n, FALSE)
    /\ forwarded' = Append(forwarded, up.n)
    /\ up' = [up EXCEPT !.pc = "top"]
    /\ UNCHANGED <<clientVars, down, childVars, logged, start, signal>>

\* The other interceptors end the way of a request: the client gets the error.
UpIntercept ==
    /\ up.pc = "deliver"
    /\ \/ sent[up.n] = "blocked" /\ Give("blocked", up.n, FALSE)
       \/ sent[up.n] = "failing" /\ Give("internal", up.n, FALSE)
    /\ up' = [up EXCEPT !.pc = "top"]
    /\ UNCHANGED <<clientVars, down, forwarded, childVars, logged, start, signal>>

\* Mutant: an interceptor that fails does not stop the message.
UpForwardOnError ==
    /\ up.pc = "deliver"
    /\ sent[up.n] \in {"allowed", "notification", "failing"}
    /\ child = "running" /\ StdinOpen
    /\ Len(forwarded) - consumed < PipeSize
    /\ forwarded' = Append(forwarded, up.n)
    /\ up' = [up EXCEPT !.pc = "top"]
    /\ UNCHANGED <<clientVars, down, childVars, received, logged, start, signal>>

\* Or it is written to the subprocess: the loop waits while the pipe is full,
\* and returns when nobody can read from it.
UpForward ==
    /\ up.pc = "deliver"
    /\ sent[up.n] \in {"allowed", "notification"}
    /\ \/ /\ child = "running" /\ StdinOpen
          /\ Len(forwarded) - consumed < PipeSize
          /\ forwarded' = Append(forwarded, up.n)
          /\ up' = [up EXCEPT !.pc = "top"]
       \/ /\ child = "exited" \/ ~StdinOpen
          /\ up' = [up EXCEPT !.pc = "done"]
          /\ UNCHANGED forwarded
    /\ UNCHANGED <<clientVars, down, childVars, received, logged, start, signal>>

Up == Running /\ (UpTop \/ UpRead \/ UpEnd \/ UpAudit \/ UpIntercept \/ UpForward)

-------------------------------------------------------------------------------
\* forwardDownstreamToClient.

DownTop ==
    /\ down.pc = "top"
    /\ down' = [down EXCEPT !.pc = IF Cancelled THEN "done" ELSE "read"]
    /\ UNCHANGED <<clientVars, up, forwarded, childVars, received, logged, start, signal>>

\* A line that is not JSON-RPC ends the loop.
DownRead ==
    /\ down.pc = "read"
    /\ down.n < Len(written)
    /\ down' = [pc |-> IF written[down.n + 1].kind = "invalid" THEN "done" ELSE "audit",
                n |-> down.n + 1]
    /\ UNCHANGED <<clientVars, up, forwarded, childVars, received, logged, start, signal>>

\* The pipe is at its end, or Stop has closed it, or the context is cancelled.
DownEnd ==
    /\ down.pc = "read"
    /\ Cancelled \/ (child = "exited" /\ down.n = Len(written))
    /\ down' = [down EXCEPT !.pc = "done"]
    /\ UNCHANGED <<clientVars, up, forwarded, childVars, received, logged, start, signal>>

\* The first response interceptor records the payload as the subprocess sent it.
DownAudit ==
    /\ down.pc = "audit"
    /\ Logs("downstream")
    /\ down' = [down EXCEPT !.pc = "deliver"]
    /\ UNCHANGED <<clientVars, up, forwarded, childVars, received, start, signal>>

\* Mutant: only responses are relayed.
DownDeliverResponses ==
    /\ down.pc = "deliver"
    /\ IF written[down.n].kind = "response" THEN Give("result", written[down.n].id, TRUE)
       ELSE UNCHANGED received
    /\ down' = [down EXCEPT !.pc = "top"]
    /\ UNCHANGED <<clientVars, up, forwarded, childVars, logged, start, signal>>

\* Mutant: a lock is held while a message is written to the subprocess, and
\* this loop needs it.
DownDeliverLocked ==
    /\ down.pc = "deliver"
    /\ up.pc # "deliver"
    /\ LET m == written[down.n] IN
       IF m.kind = "response" THEN Give("result", m.id, TRUE) ELSE Give("notification", 0, FALSE)
    /\ down' = [down EXCEPT !.pc = "top"]
    /\ UNCHANGED <<clientVars, up, forwarded, childVars, logged, start, signal>>

\* The second one masks the result of a response; the loop writes the message.
DownDeliver ==
    /\ down.pc = "deliver"
    /\ LET m == written[down.n] IN
       IF m.kind = "response" THEN Give("result", m.id, TRUE) ELSE Give("notification", 0, FALSE)
    /\ down' = [down EXCEPT !.pc = "top"]
    /\ UNCHANGED <<clientVars, up, forwarded, childVars, logged, start, signal>>

Down == Running /\ (DownTop \/ DownRead \/ DownEnd \/ DownAudit \/ DownDeliver)

-------------------------------------------------------------------------------
\* Start launches the subprocess, or returns the error of supervisor.Start; it
\* waits for the context or for one of the loops to return, then runs its
\* deferred calls: close the ledger, cancel the context, stop the subprocess.
Launch ==
    /\ start = "launch"
    /\ \/ start' = "wait" /\ child' = "running"
       \/ start' = "exited" /\ UNCHANGED child

Returns ==
    /\ start = "wait"
    /\ signal \/ up.pc = "done" \/ down.pc = "done"
    /\ start' = "close"
    /\ UNCHANGED child

CloseLedger ==
    /\ start = "close"
    /\ start' = "cancel"
    /\ UNCHANGED child

Cancel ==
    /\ start = "cancel"
    /\ start' = "stop"
    /\ UNCHANGED child

\* Stop closes stdin and sends SIGTERM.
Stop ==
    /\ start = "stop"
    /\ start' = "reap"
    /\ UNCHANGED child

\* The subprocess has exited in time.  The gateway ends, and its goroutines
\* with it.
Reap ==
    /\ start = "reap"
    /\ child = "exited"
    /\ start' = "exited"
    /\ UNCHANGED child

\* Mutant: Stop has no time limit, and the subprocess may ignore SIGTERM.
KillNobody ==
    /\ start = "reap"
    /\ child = "exited"
    /\ child' = "exited"
    /\ start' = "exited"

\* Two seconds are over: the subprocess is killed.
Kill ==
    /\ start = "reap"
    /\ child = "running"
    /\ child' = "exited"
    /\ start' = "exited"

Start ==
    /\ Launch \/ Returns \/ CloseLedger \/ Cancel \/ Stop \/ Reap \/ Kill
    /\ UNCHANGED <<clientVars, up, down, forwarded, consumed, working, written, stderr,
                   received, logged, signal>>

-------------------------------------------------------------------------------
\* The environment.

Send(kind) ==
    /\ ~eof /\ Len(sent) < peer.messages
    /\ kind \in peer.sends
    /\ sent' = Append(sent, kind)
    /\ UNCHANGED <<peer, eof, up, down, forwarded, childVars, received, logged, start, signal>>

ClientEnds ==
    /\ peer.ends /\ ~eof
    /\ eof' = TRUE
    /\ UNCHANGED <<peer, sent, up, down, forwarded, childVars, received, logged, start, signal>>

\* The context is cancelled from outside.
Signal ==
    /\ peer.signals /\ ~signal /\ start # "exited"
    /\ signal' = TRUE
    /\ UNCHANGED <<clientVars, up, down, forwarded, childVars, received, logged, start>>

ChildReads ==
    /\ child = "running"
    /\ peer.serial => working = {}
    /\ consumed < Len(forwarded)
    /\ consumed' = consumed + 1
    /\ working' = IF sent[forwarded[consumed + 1]] \in Request
                  THEN working \cup {forwarded[consumed + 1]} ELSE working
    /\ UNCHANGED <<clientVars, up, down, forwarded, written, stderr, child, received, logged,
                   start, signal>>

RoomInStdout == Len(written) - down.n < PipeSize

ChildAnswers(id) ==
    /\ child = "running"
    /\ id \in working
    /\ RoomInStdout
    /\ peer.chatty => stderr < StderrSize
    /\ stderr' = IF peer.chatty THEN stderr + 1 ELSE stderr
    /\ working' = working \ {id}
    /\ written' = Append(written, [kind |-> "response", id |-> id])
    /\ UNCHANGED <<clientVars, up, down, forwarded, consumed, child, received, logged, start, signal>>

Unasked == {n \in DOMAIN written : written[n].id = 0}

ChildWrites(kind) ==
    /\ child = "running"
    /\ kind \in peer.writes
    /\ Cardinality(Unasked) < MaxUnasked
    /\ RoomInStdout
    /\ written' = Append(written, [kind |-> kind, id |-> 0])
    /\ UNCHANGED <<clientVars, up, down, forwarded, consumed, working, stderr, child, received,
                   logged, start, signal>>

\* The subprocess exits by itself, on SIGTERM or at the end of its stdin, or
\* exec.CommandContext kills it.
ChildExits ==
    /\ child = "running"
    /\ peer.exits \/ signal \/ start = "reap"
    /\ child' = "exited"
    /\ UNCHANGED <<clientVars, up, down, forwarded, consumed, working, written, stderr, received,
                   logged, start, signal>>

Environment ==
    \/ \E kind \in Kind : Send(kind)
    \/ ClientEnds
    \/ Signal
    \/ ChildReads
    \/ \E id \in working : ChildAnswers(id)
    \/ \E kind \in {"notification", "invalid"} : ChildWrites(kind)
    \/ ChildExits

Next == Up \/ Down \/ Start \/ Environment

Spec == Init /\ [][Next]_vars

\* Goroutines that can run do; the subprocess reads its input and answers every
\* request while it can.  It need not exit, and the client need not send.
Fairness ==
    /\ WF_vars(Up) /\ WF_vars(Down) /\ WF_vars(Start)
    /\ WF_vars(ChildReads)
    /\ WF_vars(\E id \in working : ChildAnswers(id))

FairSpec == Spec /\ Fairness

-------------------------------------------------------------------------------
\* The types of the variables, and the bounds of the positions of the loops.
TypeOK ==
    /\ peer \in Peers
    /\ sent \in Seq(Kind) /\ eof \in BOOLEAN
    /\ up \in Loop /\ up.n <= Len(sent)
    /\ down \in Loop /\ down.n <= Len(written)
    /\ forwarded \in Seq(1..Len(sent))
    /\ consumed \in 0..Len(forwarded)
    /\ working \subseteq 1..Len(sent)
    /\ written \in Seq(Output)
    /\ stderr \in 0..StderrSize
    /\ child \in {"none", "running", "exited"}
    /\ received \in Seq(Delivery)
    /\ logged \subseteq Record
    /\ start \in {"launch", "wait", "close", "cancel", "stop", "reap", "exited"}
    /\ signal \in BOOLEAN

\* Of the first n messages of the client, those the subprocess should get.
Passing(n) == {i \in 1..n : sent[i] \in {"allowed", "notification"}}

\* The sequence s has the numbers of S, once each and in their order.
Enumerates(s, S) ==
    /\ {s[i] : i \in DOMAIN s} = S
    /\ \A i, j \in DOMAIN s : i < j => s[i] < s[j]

\* The subprocess gets the messages the guardrails let through, all of them,
\* once each and in the client's order, and no other; only the message at hand
\* may be missing.
ForwardsWhatPasses ==
    /\ up.pc \in {"top", "read"} => Enumerates(forwarded, Passing(up.n))
    /\ up.pc \in {"audit", "deliver"} => Enumerates(forwarded, Passing(up.n - 1))
    /\ up.pc = "done" =>
          \E n \in {up.n, up.n - 1} \cap Nat : Enumerates(forwarded, Passing(n))

\* The client gets one answer to a request at most, though two goroutines write
\* to it: the result of one that was forwarded, or the error of one that was not.
OneAnswerPerRequest ==
    \A i \in DOMAIN received : received[i].id > 0 =>
        /\ CASE received[i].kind = "result" -> sent[received[i].id] = "allowed"
             [] received[i].kind = "blocked" -> sent[received[i].id] = "blocked"
             [] OTHER -> sent[received[i].id] = "failing"
        /\ \A j \in DOMAIN received : received[j].id = received[i].id => j = i

\* What the client should get of a message m of the subprocess.
Relay(m) ==
    IF m.kind = "response" THEN [kind |-> "result", id |-> m.id, masked |-> TRUE]
    ELSE [kind |-> "notification", id |-> 0, masked |-> FALSE]

\* The positions of received that hold a message of the subprocess, and how many
\* of them come up to position i.
Relayed == {i \in DOMAIN received : received[i].kind \in {"result", "notification"}}

Place(i) == Cardinality({j \in Relayed : j <= i})

\* What the subprocess wrote reaches the client in its order, without a gap and
\* with every result masked, whatever the gateway writes in between.
DeliversInOrder ==
    /\ \A i \in Relayed : Place(i) \in DOMAIN written /\ received[i] = Relay(written[Place(i)])
    /\ IF down.pc \in {"top", "read"} THEN Cardinality(Relayed) = down.n
       ELSE \/ Cardinality(Relayed) = down.n - 1
            \/ down.pc = "done" /\ Cardinality(Relayed) = down.n

LoggedFrom(from, n) == \E r \in logged : r.from = from /\ r.n = n

\* The n-th message that was relayed is the n-th that the subprocess wrote.
Recorded ==
    /\ \A i \in DOMAIN forwarded : LoggedFrom("client", forwarded[i])
    /\ \A n \in 1..Cardinality(Relayed) : LoggedFrom("downstream", n)
    /\ \A i \in DOMAIN received :
          received[i].kind \in {"blocked", "internal"} => LoggedFrom("client", received[i].id)

\* Until Start closes the ledger nothing passes the gateway before it is in the
\* ledger: no message forwarded or refused, no result or notification relayed.
NothingPassesUnlogged == LedgerOpen => Recorded

Answered(id) == \E i \in DOMAIN received : received[i].id = id

Outstanding == {id \in DOMAIN sent : sent[id] \in Request /\ ~Answered(id)}

\* Every request is answered or the gateway shuts down: the two loops and the
\* two pipes never wait for one another in a circle, as long as the subprocess
\* does not fill its stderr, which the gateway never reads.
EveryRequestAnswered ==
    (Outstanding # {} /\ ~peer.chatty)
        ~> (Outstanding = {} \/ start \notin {"launch", "wait"})

\* The subprocess waits for room in its stderr, and reads nothing until it gets
\* some; the pipe to it is full, and the loop from the client waits for room in
\* that one.
Jammed ==
    /\ peer.chatty /\ peer.serial /\ stderr = StderrSize
    /\ child = "running" /\ working # {}
    /\ up.pc = "deliver" /\ Len(forwarded) - consumed = PipeSize

Ended == start = "exited" /\ child # "running"

\* When the subprocess exits or the context is cancelled, the gateway ends, and
\* its subprocess with it, even one that ignores SIGTERM.  When the client closes
\* its end it does too, unless it cannot see the end: nothing but a jam of the
\* pipes behind a stderr that nobody reads keeps it from there.
EndsWithItsPeers ==
    /\ (signal \/ child = "exited") ~> Ended
    /\ eof ~> (Ended \/ Jammed)

-------------------------------------------------------------------------------
\* What the documentation says, and the code does not do.

\* README.md:94: the ledger holds "every request, response, tool call".
EverythingPassedIsLogged == Recorded

===============================================================================
