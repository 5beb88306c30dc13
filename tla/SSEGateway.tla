------------------------------- MODULE SSEGateway -------------------------------
(***************************************************************************)
(* The gateway where GatewayProxy.HandleClientRequest runs one message     *)
(* from its interceptors to its answer: behind an HTTP server, SSEServer   *)
(* of pkg/mcp, or in startHTTPDownstreamStdioLoop of internal/proxy, over  *)
(* stdio in front of a remote server.                                      *)
(*                                                                         *)
(* Over stdio one loop reads, handles and answers one message after the    *)
(* other.  Over HTTP, net/http runs every handler in a goroutine of its    *)
(* own: handleSSE keeps one stream open for each session and relays what   *)
(* arrives on a channel; handleMessage runs the pipeline for one POST,     *)
(* puts the response on the channel of the session that the POST names,    *)
(* and answers the POST.  Handlers share s.sessions, under s.mu, and the   *)
(* channels, which are used outside of it.  The HTTP server in front of a  *)
(* subprocess uses a proxy whose Start nobody calls: it has no downstream. *)
(***************************************************************************)
EXTENDS Integers, Sequences, SequencesExt

CONSTANTS
    Session,     \* ids of SSE sessions, one for each GET /sse
    Post,        \* JSON-RPC messages: POST requests, or lines over stdio
    Kind,        \* their kinds
    Capacity,    \* room in the channel of a session, 64 in the code
    MayStop,     \* the context given to Start may be cancelled
    None

ASSUME SSEAssumption ==
    /\ Kind \subseteq {"allowed", "blocked", "failing", "notification", "invalid"}
    /\ Capacity \in Nat \ {0}
    /\ MayStop \in BOOLEAN
    /\ None \notin Session \cup Post

VARIABLES
    mode,       \* "sse", "stdio", or "unstarted": over HTTP with no downstream
    server,     \* "serving", "draining" in Shutdown, or "stopped"
    stream,     \* the point of handleSSE for each session
    gone,       \* the client of the stream has disconnected
    sessions,   \* s.sessions
    channel,    \* what is in the channel of a session
    writing,    \* the event handleSSE is writing
    events,     \* the events the client of the stream got
    post,       \* handleMessage for each POST
    forwarded,  \* POSTs whose message the downstream server got
    logged,     \* what is in the audit ledger
    queued      \* history: what was put on the channel of a session

streamVars == <<stream, gone, sessions, writing, events>>
vars == <<mode, server, streamVars, channel, post, forwarded, logged, queued>>

-------------------------------------------------------------------------------
Ended == {"answered", "accepted", "failed", "rejected", "panicked"}

Handler == [pc: {"new", "audit", "guard", "forward", "record", "lookup", "send", "reply"} \cup Ended,
            session: Session \cup {None}, kind: Kind \cup {None},
            response: {"none", "result", "blocked", "internal"}]

Unsent == [pc |-> "new", session |-> None, kind |-> None, response |-> "none"]

Running == server # "stopped"

Step(p, pc) == post' = [post EXCEPT ![p].pc = pc]

\* Only the HTTP server has sessions to look up.
Respond(p, response) ==
    post' = [post EXCEPT ![p].pc = IF mode = "stdio" THEN "reply" ELSE "lookup",
                         ![p].response = response]

\* Handlers that have begun and have not ended.
UnderWay == {p \in Post : post[p].pc \notin {"new"} \cup Ended}

-------------------------------------------------------------------------------
Init ==
    /\ mode \in {"sse", "stdio", "unstarted"}
    /\ server = "serving"
    /\ stream = [s \in Session |-> "new"]
    /\ gone = [s \in Session |-> FALSE]
    /\ sessions = {}
    /\ channel = [s \in Session |-> <<>>]
    /\ writing = [s \in Session |-> None]
    /\ events = [s \in Session |-> <<>>]
    /\ post = [p \in Post |-> Unsent]
    /\ forwarded = {}
    /\ logged = {}
    /\ queued = [s \in Session |-> <<>>]

-------------------------------------------------------------------------------
\* handleSSE registers the session and sends the endpoint event.
OpenStream(s) ==
    /\ mode # "stdio" /\ server = "serving" /\ stream[s] = "new"
    /\ stream' = [stream EXCEPT ![s] = "select"]
    /\ sessions' = sessions \cup {s}
    /\ UNCHANGED <<mode, server, gone, channel, writing, events, post, forwarded, logged, queued>>

TakeEvent(s) ==
    /\ stream[s] = "select"
    /\ channel[s] # <<>>
    /\ writing' = [writing EXCEPT ![s] = Head(channel[s])]
    /\ channel' = [channel EXCEPT ![s] = Tail(@)]
    /\ stream' = [stream EXCEPT ![s] = "write"]
    /\ UNCHANGED <<mode, server, gone, sessions, events, post, forwarded, logged, queued>>

\* An error of the write is not looked at.
WriteEvent(s) ==
    /\ stream[s] = "write"
    /\ events' = IF gone[s] THEN events ELSE [events EXCEPT ![s] = Append(@, writing[s])]
    /\ writing' = [writing EXCEPT ![s] = None]
    /\ stream' = [stream EXCEPT ![s] = "select"]
    /\ UNCHANGED <<mode, server, gone, sessions, channel, post, forwarded, logged, queued>>

\* Mutant: Shutdown ends the streams as well.
CloseStreamAtShutdown(s) ==
    /\ stream[s] = "select"
    /\ gone[s] \/ server = "draining"
    /\ sessions' = sessions \ {s}
    /\ stream' = [stream EXCEPT ![s] = "closed"]
    /\ UNCHANGED <<mode, server, gone, channel, writing, events, post, forwarded, logged, queued>>

\* ctx.Done(): the deferred call removes the session and closes its channel.
\* The select may also take one more event.
CloseStream(s) ==
    /\ stream[s] = "select"
    /\ gone[s]
    /\ sessions' = sessions \ {s}
    /\ stream' = [stream EXCEPT ![s] = "closed"]
    /\ UNCHANGED <<mode, server, gone, channel, writing, events, post, forwarded, logged, queued>>

Stream(s) == Running /\ (TakeEvent(s) \/ WriteEvent(s) \/ CloseStream(s))

ClientLeaves(s) ==
    /\ stream[s] \notin {"new", "closed"} /\ ~gone[s]
    /\ gone' = [gone EXCEPT ![s] = TRUE]
    /\ UNCHANGED <<mode, server, stream, sessions, channel, writing, events, post, forwarded, logged, queued>>

-------------------------------------------------------------------------------
\* A POST to /message, for a session the client has learnt of or for none; or
\* the next line of the loop over stdio, which an invalid line does not end.
Receive(p, s, kind) ==
    /\ server = "serving" /\ post[p].pc = "new"
    /\ mode = "stdio" => UnderWay = {}
    /\ s \in {None} \cup {x \in Session : stream[x] # "new"}
    /\ post' = [post EXCEPT ![p].pc = IF kind = "invalid" THEN "rejected" ELSE "audit",
                            ![p].session = s, ![p].kind = kind]
    /\ UNCHANGED <<mode, server, streamVars, channel, forwarded, logged, queued>>

\* Mutant: what the guardrails will refuse is not logged.
AuditAllowed(p) ==
    /\ post[p].pc = "audit"
    /\ logged' = IF post[p].kind = "blocked" THEN logged ELSE logged \cup {<<"client", p>>}
    /\ Step(p, "guard")
    /\ UNCHANGED <<mode, server, streamVars, channel, forwarded, queued>>

\* The request interceptors: audit, then guardrails, which see only requests.
AuditRequest(p) ==
    /\ post[p].pc = "audit"
    /\ logged' = logged \cup {<<"client", p>>}
    /\ Step(p, "guard")
    /\ UNCHANGED <<mode, server, streamVars, channel, forwarded, queued>>

\* After them the masker may return an error, which ends the pipeline.
Guard(p) ==
    /\ post[p].pc = "guard"
    /\ CASE post[p].kind = "blocked" -> Respond(p, "blocked")
         [] post[p].kind = "failing" -> Respond(p, "internal")
         [] OTHER -> Step(p, "forward")
    /\ UNCHANGED <<mode, server, streamVars, channel, forwarded, logged, queued>>

\* An error is the answer of a request, and the HTTP status of a notification;
\* over stdio a notification has no answer.
Fail(p) == IF post[p].kind = "notification" THEN Step(p, "failed") ELSE Respond(p, "internal")

\* Forward: the remote server answers, answers with an empty body, or the call
\* fails, with or without the message having arrived.  The proxy that was never
\* started has neither a remote server nor the pipes of a subprocess, and fails.
Forward(p) ==
    /\ post[p].pc = "forward"
    /\ \/ /\ mode # "unstarted"
          /\ forwarded' = forwarded \cup {p}
          /\ Step(p, "record") \/ Step(p, "accepted") \/ Fail(p)
       \/ Fail(p) /\ UNCHANGED forwarded
    /\ UNCHANGED <<mode, server, streamVars, channel, logged, queued>>

\* The response interceptors; a message that is not a response is dropped.
RecordResponse(p) ==
    /\ post[p].pc = "record"
    /\ logged' = logged \cup {<<"downstream", p>>}
    /\ Respond(p, "result") \/ Step(p, "accepted")
    /\ UNCHANGED <<mode, server, streamVars, channel, forwarded, queued>>

\* The session is looked up under s.mu, which is released at once.
Lookup(p) ==
    /\ post[p].pc = "lookup"
    /\ Step(p, IF post[p].session \in sessions THEN "send" ELSE "reply")
    /\ UNCHANGED <<mode, server, streamVars, channel, forwarded, logged, queued>>

\* Mutant: a full channel loses its oldest event.
SendEventDroppingOldest(p) ==
    LET s == post[p].session IN
    /\ post[p].pc = "send"
    /\ Step(p, IF stream[s] = "closed" THEN "panicked" ELSE "reply")
    /\ IF stream[s] # "closed"
       THEN /\ channel' = [channel EXCEPT ![s] =
                  Append(IF Len(@) < Capacity THEN @ ELSE Tail(@), p)]
            /\ queued' = [queued EXCEPT ![s] = Append(@, p)]
       ELSE UNCHANGED <<channel, queued>>
    /\ UNCHANGED <<mode, server, streamVars, forwarded, logged>>

\* Mutant: the send waits for room, and nothing closes the channel.
SendEventWaiting(p) ==
    LET s == post[p].session IN
    /\ post[p].pc = "send"
    /\ Len(channel[s]) < Capacity
    /\ channel' = [channel EXCEPT ![s] = Append(@, p)]
    /\ queued' = [queued EXCEPT ![s] = Append(@, p)]
    /\ Step(p, "reply")
    /\ UNCHANGED <<mode, server, streamVars, forwarded, logged>>

\* The response goes on the channel, or is dropped when that is full; a send on
\* a closed channel panics, and net/http ends the POST without an answer.
SendEvent(p) ==
    LET s == post[p].session IN
    /\ post[p].pc = "send"
    /\ IF stream[s] = "closed" THEN Step(p, "panicked") ELSE Step(p, "reply")
    /\ IF stream[s] # "closed" /\ Len(channel[s]) < Capacity
       THEN /\ channel' = [channel EXCEPT ![s] = Append(@, p)]
            /\ queued' = [queued EXCEPT ![s] = Append(@, p)]
       ELSE UNCHANGED <<channel, queued>>
    /\ UNCHANGED <<mode, server, streamVars, forwarded, logged>>

\* Over HTTP an error of the write is not looked at; over stdio it ends the loop.
Reply(p) ==
    /\ post[p].pc = "reply"
    /\ \/ Step(p, "answered") /\ UNCHANGED server
       \/ mode = "stdio" /\ Step(p, "failed") /\ server' = "stopped"
    /\ UNCHANGED <<mode, streamVars, channel, forwarded, logged, queued>>

Handle(p) ==
    Running /\ (\/ AuditRequest(p) \/ Guard(p) \/ Forward(p) \/ RecordResponse(p)
                \/ Lookup(p) \/ SendEvent(p) \/ Reply(p))

-------------------------------------------------------------------------------
\* Start calls Shutdown: no new connections; it returns when every handler has,
\* or after five seconds, and the process ends.  Open streams are not told.
Shutdown ==
    /\ MayStop /\ mode # "stdio" /\ server = "serving"
    /\ server' = "draining"
    /\ UNCHANGED <<mode, streamVars, channel, post, forwarded, logged, queued>>

Stop ==
    /\ server = "draining"
    /\ server' = "stopped"
    /\ UNCHANGED <<mode, streamVars, channel, post, forwarded, logged, queued>>

\* The loop over stdio ends between two messages: the client closed its input,
\* or the context was cancelled.
EndLoop ==
    /\ mode = "stdio" /\ server = "serving" /\ UnderWay = {}
    /\ server' = "stopped"
    /\ UNCHANGED <<mode, streamVars, channel, post, forwarded, logged, queued>>

Next ==
    \/ \E s \in Session : OpenStream(s) \/ Stream(s) \/ ClientLeaves(s)
    \/ \E p \in Post :
          \/ \E s \in Session \cup {None}, kind \in Kind : Receive(p, s, kind)
          \/ Handle(p)
    \/ Shutdown \/ Stop \/ EndLoop

Spec == Init /\ [][Next]_vars

\* Handlers that can run do, Forward returns within its timeout of 60 seconds,
\* and clients that read get what is written.
Fairness ==
    /\ \A s \in Session : WF_vars(Stream(s))
    /\ \A p \in Post : WF_vars(Handle(p))
    /\ WF_vars(Stop)

FairSpec == Spec /\ Fairness

-------------------------------------------------------------------------------
\* The types of the variables; and only a request is answered with an error.
TypeOK ==
    /\ mode \in {"sse", "stdio", "unstarted"}
    /\ server \in {"serving", "draining", "stopped"}
    /\ stream \in [Session -> {"new", "select", "write", "closed"}]
    /\ gone \in [Session -> BOOLEAN]
    /\ sessions \subseteq Session
    /\ channel \in [Session -> Seq(Post)]
    /\ writing \in [Session -> Post \cup {None}]
    /\ events \in [Session -> Seq(Post)]
    /\ post \in [Post -> Handler]
    /\ \A p \in Post : post[p].kind = "notification" => post[p].response # "internal"
    /\ forwarded \subseteq Post
    /\ logged \subseteq {"client", "downstream"} \X Post
    /\ queued \in [Session -> Seq(Post)]

\* The event that handleSSE has taken and not yet written.
InHand(s) == IF writing[s] = None THEN <<>> ELSE <<writing[s]>>

\* While its client listens, a stream has every response that was put on its
\* channel, or will write it next: in that order, none twice, and only those of
\* POSTs that named this session and have a response.
StreamCarriesItsResponses ==
    \A s \in Session :
        /\ ~gone[s] => queued[s] = events[s] \o InHand(s) \o channel[s]
        /\ IsInjective(queued[s])
        /\ \A i \in DOMAIN queued[s] : LET h == post[queued[s][i]] IN
              h.session = s /\ h.response # "none" /\ h.pc \in {"reply", "answered"}

\* In these modes nothing passes the gateway before it is in the ledger, and the
\* downstream server gets no message that an interceptor refuses or fails on,
\* however the handlers interleave and whenever the server stops.
NothingPassesUnlogged ==
    /\ \A p \in forwarded : <<"client", p>> \in logged /\ post[p].kind \notin {"blocked", "failing"}
    /\ \A p \in Post : post[p].response # "none" =>
        /\ <<"client", p>> \in logged
        /\ post[p].response = "result" => <<"downstream", p>> \in logged

\* A POST goes unanswered only when the client of its session has left between
\* the lookup and the send.
LostOnlyToLeavers ==
    \A p \in Post : post[p].pc = "panicked" =>
        /\ post[p].session # None /\ gone[post[p].session]
        /\ post[p].session \notin sessions

\* Every message comes to an end unless the server stops, in all three modes:
\* one that no downstream can take gets an error, and none waits for ever.
EveryPostEnds == \A p \in Post : p \in UnderWay ~> post[p].pc \in Ended \/ server = "stopped"

===============================================================================
