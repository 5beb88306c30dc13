---------------------------- MODULE SSEGateway_proofs ----------------------------
(***************************************************************************)
(* Theorems about SSEGateway: what the handlers of an HTTP server and the  *)
(* streams of its sessions promise, for any number of both and channels of *)
(* any capacity.                                                           *)
(***************************************************************************)
EXTENDS SSEGateway, TLAPS

\* A stream between its registration and its end: a session is in s.sessions
\* exactly while its stream runs, and only a client that left ends it.
StreamOrder(s) ==
    /\ s \in sessions <=> stream[s] \in {"select", "write"}
    /\ stream[s] = "write" <=> writing[s] # None
    /\ stream[s] = "closed" => gone[s]
    /\ stream[s] = "new" => queued[s] = <<>>
    /\ mode = "stdio" => stream[s] = "new"

\* A message on its way through the pipeline: what it has behind it.
HandlerOrder(p) ==
    LET h == post[p] IN
    /\ h.pc \in {"new", "audit", "rejected"} => h.response = "none" /\ p \notin forwarded
    /\ h.pc \notin {"new", "audit", "rejected"} => <<"client", p>> \in logged
    /\ h.pc \in {"guard", "forward", "record"} => h.response = "none"
    /\ h.pc \in {"forward", "record"} \/ p \in forwarded => h.kind \notin {"blocked", "failing"}
    /\ h.pc \in {"lookup", "send", "reply"} => h.response # "none"
    /\ h.response = "result" => <<"downstream", p>> \in logged
    /\ h.pc = "send" => h.session \in Session /\ stream[h.session] # "new"
    /\ h.pc = "panicked" => h.session \in Session /\ stream[h.session] = "closed"

Orders == (\A s \in Session : StreamOrder(s)) /\ (\A p \in Post : HandlerOrder(p))

GatewayInv == TypeOK /\ Orders

-------------------------------------------------------------------------------
\* What Step and Respond do to the handler of p, and to no other.
LEMMA StepEffect ==
    ASSUME TypeOK, NEW p \in Post, NEW pc \in {"guard", "forward", "record", "send", "reply"} \cup Ended, Step(p, pc)
    PROVE  /\ post' \in [Post -> Handler]
           /\ \A q \in Post \ {p} : post'[q] = post[q]
           /\ post'[p].pc = pc
           /\ post'[p].session = post[p].session
           /\ post'[p].kind = post[p].kind
           /\ post'[p].response = post[p].response
<1>1. post[p] \in Handler /\ post \in [Post -> Handler]
    BY DEF TypeOK
<1>2. post'[p] = [post[p] EXCEPT !.pc = pc]
    BY <1>1 DEF Step
<1>3. [post[p] EXCEPT !.pc = pc] \in Handler
    BY <1>1 DEF Handler, Ended
<1> QED BY <1>1, <1>2, <1>3 DEF Step, Handler

LEMMA RespondEffect ==
    ASSUME TypeOK, NEW p \in Post, NEW response \in {"result", "blocked", "internal"},
           Respond(p, response)
    PROVE  /\ post' \in [Post -> Handler]
           /\ \A q \in Post \ {p} : post'[q] = post[q]
           /\ post'[p].pc = IF mode = "stdio" THEN "reply" ELSE "lookup"
           /\ post'[p].session = post[p].session
           /\ post'[p].kind = post[p].kind
           /\ post'[p].response = response
<1> DEFINE pc == IF mode = "stdio" THEN "reply" ELSE "lookup"
<1>1. post[p] \in Handler /\ post \in [Post -> Handler]
    BY DEF TypeOK
<1>2. post'[p] = [post[p] EXCEPT !.pc = pc, !.response = response]
    BY <1>1 DEF Respond
<1>3. [post[p] EXCEPT !.pc = pc, !.response = response] \in Handler
    BY <1>1 DEF Handler
<1> QED BY <1>1, <1>2, <1>3 DEF Respond, Handler


\* A handler that changes its own message only, and neither streams nor channels,
\* keeps the invariant if it keeps its own order.
LEMMA HandlerKeeps ==
    ASSUME GatewayInv, NEW p \in Post,
           UNCHANGED <<mode, streamVars, channel, queued>>,
           server' \in {"serving", "draining", "stopped"},
           post' \in [Post -> Handler],
           \A q \in Post \ {p} : post'[q] = post[q],
           post'[p].kind = "notification" => post'[p].response # "internal",
           logged \subseteq logged', logged' \subseteq {"client", "downstream"} \X Post,
           forwarded' \subseteq forwarded \cup {p},
           HandlerOrder(p)'
    PROVE  GatewayInv'
<1>1. TypeOK'
    BY DEF GatewayInv, TypeOK, streamVars
<1>2. \A s \in Session : StreamOrder(s)'
    BY DEF GatewayInv, Orders, StreamOrder, streamVars
<1>3. ASSUME NEW q \in Post \ {p} PROVE HandlerOrder(q)'
    <2>1. HandlerOrder(q) /\ post'[q] = post[q] /\ stream' = stream
        BY DEF GatewayInv, Orders, streamVars
    <2>2. q \in forwarded' => q \in forwarded
        OBVIOUS
    <2> QED BY <2>1, <2>2 DEF HandlerOrder
<1> QED BY <1>1, <1>2, <1>3 DEF GatewayInv, Orders

LEMMA ReceiveKeeps ==
    ASSUME GatewayInv, NEW p \in Post, NEW s \in Session \cup {None}, NEW kind \in Kind,
           Receive(p, s, kind)
    PROVE  GatewayInv'
<1> DEFINE pc == IF kind = "invalid" THEN "rejected" ELSE "audit"
<1>1. post \in [Post -> Handler] /\ post[p] \in Handler /\ post[p].pc = "new"
    BY DEF GatewayInv, TypeOK, Receive
<1>2. /\ post'[p] = [post[p] EXCEPT !.pc = pc, !.session = s, !.kind = kind]
      /\ \A q \in Post \ {p} : post'[q] = post[q]
      /\ post' = [post EXCEPT ![p] = post'[p]]
    BY <1>1 DEF Receive
<1>3. [post[p] EXCEPT !.pc = pc, !.session = s, !.kind = kind] \in Handler
    BY <1>1 DEF Handler, Ended
<1>4. post' \in [Post -> Handler]
    BY <1>1, <1>2, <1>3
<1>5. post[p].response = "none" /\ p \notin forwarded
    BY <1>1 DEF GatewayInv, Orders, HandlerOrder
<1>6. post'[p].pc = pc /\ post'[p].response = "none"
    BY <1>1, <1>2, <1>5 DEF Handler
<1>7. HandlerOrder(p)'
    BY <1>5, <1>6 DEF HandlerOrder, Receive
<1> QED BY <1>2, <1>4, <1>6, <1>7, HandlerKeeps DEF Receive, GatewayInv, TypeOK

LEMMA AuditRequestKeeps ==
    ASSUME GatewayInv, NEW p \in Post, AuditRequest(p) PROVE GatewayInv'
<1>1. /\ post' \in [Post -> Handler]
      /\ \A q \in Post \ {p} : post'[q] = post[q]
      /\ post'[p].pc = "guard" /\ post'[p].kind = post[p].kind
      /\ post'[p].response = post[p].response
    BY StepEffect DEF AuditRequest, GatewayInv
<1>2. HandlerOrder(p) /\ post[p].pc = "audit"
    BY DEF GatewayInv, Orders, AuditRequest
<1>3. HandlerOrder(p)'
    BY <1>1, <1>2 DEF HandlerOrder, AuditRequest
<1>4. post'[p].kind = "notification" => post'[p].response # "internal"
    BY <1>1 DEF GatewayInv, TypeOK
<1>5. /\ logged \subseteq logged' /\ logged' \subseteq {"client", "downstream"} \X Post
      /\ server' \in {"serving", "draining", "stopped"}
    BY DEF AuditRequest, GatewayInv, TypeOK
<1>6. UNCHANGED <<mode, streamVars, channel, queued, forwarded>>
    BY DEF AuditRequest
<1> QED BY <1>1, <1>3, <1>4, <1>5, <1>6, HandlerKeeps

\* Respond takes a message that is logged to a response.
LEMMA RespondOrder ==
    ASSUME GatewayInv, NEW p \in Post, NEW response \in {"result", "blocked", "internal"},
           post[p].pc \in {"guard", "forward", "record"}, Respond(p, response),
           UNCHANGED stream, logged \subseteq logged',
           response = "result" => <<"downstream", p>> \in logged',
           p \in forwarded' => post[p].kind \notin {"blocked", "failing"}
    PROVE  HandlerOrder(p)'
<1>1. /\ post'[p].pc \in {"lookup", "reply"} /\ post'[p].kind = post[p].kind
      /\ post'[p].response = response
    BY RespondEffect DEF GatewayInv
<1>2. HandlerOrder(p)
    BY DEF GatewayInv, Orders
<1> QED BY <1>1, <1>2 DEF HandlerOrder

LEMMA GuardKeeps ==
    ASSUME GatewayInv, NEW p \in Post, Guard(p) PROVE GatewayInv'
<1>1. HandlerOrder(p) /\ post[p].pc = "guard"
    BY DEF GatewayInv, Orders, Guard
<1>2. p \in forwarded => post[p].kind \notin {"blocked", "failing"}
    BY <1>1 DEF HandlerOrder
<1>3. ASSUME NEW response \in {"blocked", "internal"}, Respond(p, response),
             post[p].kind # "notification"
      PROVE  GatewayInv'
    <2>1. HandlerOrder(p)'
        BY <1>1, <1>2, <1>3, RespondOrder DEF Guard, streamVars
    <2>2. /\ post' \in [Post -> Handler]
          /\ \A q \in Post \ {p} : post'[q] = post[q]
          /\ post'[p].kind = post[p].kind
        BY <1>3, RespondEffect DEF GatewayInv
    <2> QED BY <1>3, <2>1, <2>2, HandlerKeeps DEF Guard, GatewayInv, TypeOK
<1>4. ASSUME Step(p, "forward"), post[p].kind \notin {"blocked", "failing"}
      PROVE  GatewayInv'
    <2>1. /\ post' \in [Post -> Handler]
          /\ \A q \in Post \ {p} : post'[q] = post[q]
          /\ post'[p].pc = "forward" /\ post'[p].kind = post[p].kind
          /\ post'[p].response = post[p].response
        BY <1>4, StepEffect DEF GatewayInv
    <2>2. HandlerOrder(p)'
        BY <1>1, <1>4, <2>1 DEF HandlerOrder, Guard
    <2>3. post'[p].kind = "notification" => post'[p].response # "internal"
        BY <2>1 DEF GatewayInv, TypeOK
    <2> QED BY <2>1, <2>2, <2>3, HandlerKeeps DEF Guard, GatewayInv, TypeOK
<1>5. \/ Respond(p, "blocked") /\ post[p].kind = "blocked"
      \/ Respond(p, "internal") /\ post[p].kind = "failing"
      \/ Step(p, "forward") /\ post[p].kind \notin {"blocked", "failing"}
    BY DEF Guard
<1> QED BY <1>3, <1>4, <1>5

\* Step takes a message that is logged and has no response to its end.
LEMMA EndOrder ==
    ASSUME GatewayInv, NEW p \in Post, NEW pc \in {"accepted", "failed"},
           post[p].pc \in {"guard", "forward", "record"}, Step(p, pc),
           UNCHANGED stream, logged \subseteq logged',
           p \in forwarded' => post[p].kind \notin {"blocked", "failing"}
    PROVE  HandlerOrder(p)'
<1>1. /\ post'[p].pc = pc /\ post'[p].kind = post[p].kind
      /\ post'[p].response = post[p].response
    BY StepEffect DEF GatewayInv, Ended
<1>2. HandlerOrder(p)
    BY DEF GatewayInv, Orders
<1> QED BY <1>1, <1>2 DEF HandlerOrder

LEMMA ForwardKeeps ==
    ASSUME GatewayInv, NEW p \in Post, Forward(p) PROVE GatewayInv'
<1>1. HandlerOrder(p) /\ post[p].pc = "forward" /\ stream' = stream /\ logged' = logged
    BY DEF GatewayInv, Orders, Forward, streamVars
<1>2. post[p].kind \notin {"blocked", "failing"}
    BY <1>1 DEF HandlerOrder
<1>3. UNCHANGED <<mode, streamVars, channel, queued, logged, server>>
    BY DEF Forward
<1>4. forwarded' \subseteq forwarded \cup {p}
    BY DEF Forward
<1>5. TypeOK
    BY DEF GatewayInv
<1>6. ASSUME NEW pc \in {"record", "accepted", "failed"}, Step(p, pc) PROVE GatewayInv'
    <2>1. /\ post' \in [Post -> Handler]
          /\ \A q \in Post \ {p} : post'[q] = post[q]
          /\ post'[p].pc = pc /\ post'[p].kind = post[p].kind
          /\ post'[p].response = post[p].response
        BY <1>5, <1>6, StepEffect DEF Ended
    <2>2. HandlerOrder(p)'
        BY <1>1, <1>2, <2>1 DEF HandlerOrder
    <2>3. post'[p].kind = "notification" => post'[p].response # "internal"
        BY <1>5, <2>1 DEF TypeOK
    <2>4. logged' \subseteq {"client", "downstream"} \X Post
          /\ server' \in {"serving", "draining", "stopped"}
        BY <1>3, <1>5 DEF TypeOK
    <2> QED BY <1>3, <1>4, <2>1, <2>2, <2>3, <2>4, HandlerKeeps
<1>7. ASSUME Respond(p, "internal"), post[p].kind # "notification" PROVE GatewayInv'
    <2>1. HandlerOrder(p)'
        BY <1>1, <1>2, <1>7, RespondOrder
    <2>2. /\ post' \in [Post -> Handler]
          /\ \A q \in Post \ {p} : post'[q] = post[q]
          /\ post'[p].kind = post[p].kind
        BY <1>5, <1>7, RespondEffect
    <2>3. logged' \subseteq {"client", "downstream"} \X Post
          /\ server' \in {"serving", "draining", "stopped"}
        BY <1>3, <1>5 DEF TypeOK
    <2> QED BY <1>3, <1>4, <1>7, <2>1, <2>2, <2>3, HandlerKeeps
<1>8. \/ \E pc \in {"record", "accepted", "failed"} : Step(p, pc)
      \/ Respond(p, "internal") /\ post[p].kind # "notification"
    BY DEF Forward, Fail
<1> QED BY <1>6, <1>7, <1>8

LEMMA RecordResponseKeeps ==
    ASSUME GatewayInv, NEW p \in Post, RecordResponse(p) PROVE GatewayInv'
<1>1. HandlerOrder(p) /\ post[p].pc = "record" /\ TypeOK
    BY DEF GatewayInv, Orders, RecordResponse
<1>2. /\ UNCHANGED <<mode, streamVars, channel, queued, forwarded>>
      /\ server' \in {"serving", "draining", "stopped"} /\ stream' = stream
      /\ logged \subseteq logged' /\ <<"downstream", p>> \in logged'
      /\ logged' \subseteq {"client", "downstream"} \X Post
    BY <1>1 DEF RecordResponse, TypeOK, streamVars
<1>3. p \in forwarded' => post[p].kind \notin {"blocked", "failing"}
    BY <1>1, <1>2 DEF HandlerOrder
<1>4. CASE Respond(p, "result")
    <2>1. HandlerOrder(p)'
        BY <1>1, <1>2, <1>3, <1>4, RespondOrder
    <2>2. /\ post' \in [Post -> Handler]
          /\ \A q \in Post \ {p} : post'[q] = post[q]
          /\ post'[p].response = "result"
        BY <1>1, <1>4, RespondEffect
    <2> QED BY <1>2, <2>1, <2>2, HandlerKeeps
<1>5. CASE Step(p, "accepted")
    <2>1. /\ post' \in [Post -> Handler]
          /\ \A q \in Post \ {p} : post'[q] = post[q]
          /\ post'[p].kind = post[p].kind /\ post'[p].response = post[p].response
        BY <1>1, <1>5, StepEffect DEF Ended
    <2>2. HandlerOrder(p)'
        BY <1>1, <1>2, <1>3, <1>5, EndOrder
    <2>3. post'[p].kind = "notification" => post'[p].response # "internal"
        BY <1>1, <2>1 DEF TypeOK
    <2> QED BY <1>2, <2>1, <2>2, <2>3, HandlerKeeps
<1> QED BY <1>4, <1>5 DEF RecordResponse

LEMMA LookupKeeps ==
    ASSUME GatewayInv, NEW p \in Post, Lookup(p) PROVE GatewayInv'
<1> DEFINE pc == IF post[p].session \in sessions THEN "send" ELSE "reply"
<1>1. HandlerOrder(p) /\ post[p].pc = "lookup" /\ TypeOK /\ Step(p, pc)
    BY DEF GatewayInv, Orders, Lookup
<1>2. /\ UNCHANGED <<mode, server, streamVars, channel, queued, forwarded, logged>>
      /\ server' \in {"serving", "draining", "stopped"} /\ stream' = stream
      /\ logged' \subseteq {"client", "downstream"} \X Post
    BY <1>1 DEF Lookup, TypeOK, streamVars
<1>3. /\ post' \in [Post -> Handler]
      /\ \A q \in Post \ {p} : post'[q] = post[q]
      /\ post'[p].pc = pc /\ post'[p].kind = post[p].kind /\ post'[p].response = post[p].response
      /\ post'[p].session = post[p].session
    BY <1>1, StepEffect
<1>4. pc = "send" => post[p].session \in Session /\ stream[post[p].session] # "new"
    BY <1>1 DEF GatewayInv, Orders, StreamOrder, TypeOK
<1>5. HandlerOrder(p)'
    BY <1>1, <1>2, <1>3, <1>4 DEF HandlerOrder
<1>6. post'[p].kind = "notification" => post'[p].response # "internal"
    BY <1>1, <1>3 DEF TypeOK
<1> QED BY <1>2, <1>3, <1>5, <1>6, HandlerKeeps

LEMMA ReplyKeeps ==
    ASSUME GatewayInv, NEW p \in Post, Reply(p) PROVE GatewayInv'
<1>1. HandlerOrder(p) /\ post[p].pc = "reply" /\ TypeOK
    BY DEF GatewayInv, Orders, Reply
<1>2. /\ UNCHANGED <<mode, streamVars, channel, queued, forwarded, logged>>
      /\ server' \in {"serving", "draining", "stopped"} /\ stream' = stream
      /\ logged' \subseteq {"client", "downstream"} \X Post
    BY <1>1 DEF Reply, TypeOK, streamVars
<1>3. PICK pc \in {"answered", "failed"} : Step(p, pc)
    BY DEF Reply
<1>4. /\ post' \in [Post -> Handler]
      /\ \A q \in Post \ {p} : post'[q] = post[q]
      /\ post'[p].pc = pc /\ post'[p].kind = post[p].kind /\ post'[p].response = post[p].response
    BY <1>1, <1>3, StepEffect DEF Ended
<1>5. HandlerOrder(p)'
    BY <1>1, <1>2, <1>4 DEF HandlerOrder
<1>6. post'[p].kind = "notification" => post'[p].response # "internal"
    BY <1>1, <1>4 DEF TypeOK
<1> QED BY <1>2, <1>4, <1>5, <1>6, HandlerKeeps

\* The only step of a handler that a stream sees.
LEMMA SendEventEffect ==
    ASSUME GatewayInv, NEW p \in Post, SendEvent(p)
    PROVE  /\ post[p].session \in Session /\ stream[post[p].session] # "new"
           /\ post' \in [Post -> Handler]
           /\ \A q \in Post \ {p} : post'[q] = post[q]
           /\ post'[p].pc = IF stream[post[p].session] = "closed" THEN "panicked" ELSE "reply"
           /\ post'[p].kind = post[p].kind /\ post'[p].response = post[p].response
           /\ post'[p].session = post[p].session
           /\ \/ UNCHANGED <<channel, queued>>
              \/ /\ stream[post[p].session] # "closed"
                 /\ channel' = [channel EXCEPT ![post[p].session] = Append(@, p)]
                 /\ queued' = [queued EXCEPT ![post[p].session] = Append(@, p)]
<1> DEFINE pc == IF stream[post[p].session] = "closed" THEN "panicked" ELSE "reply"
<1>1. HandlerOrder(p) /\ post[p].pc = "send" /\ TypeOK /\ Step(p, pc)
    BY DEF GatewayInv, Orders, SendEvent
<1>2. post[p].session \in Session /\ stream[post[p].session] # "new"
    BY <1>1 DEF HandlerOrder
<1>3. /\ post' \in [Post -> Handler]
      /\ \A q \in Post \ {p} : post'[q] = post[q]
      /\ post'[p].pc = pc /\ post'[p].kind = post[p].kind /\ post'[p].response = post[p].response
      /\ post'[p].session = post[p].session
    BY <1>1, StepEffect DEF Ended
<1> QED BY <1>2, <1>3 DEF SendEvent

LEMMA SendEventKeeps ==
    ASSUME GatewayInv, NEW p \in Post, SendEvent(p) PROVE GatewayInv'
<1>1. HandlerOrder(p) /\ post[p].pc = "send" /\ TypeOK
    BY DEF GatewayInv, Orders, SendEvent
<1>2. UNCHANGED <<mode, server, streamVars, forwarded, logged>>
    BY DEF SendEvent
<1>3. PICK s \in Session : s = post[p].session /\ stream[s] # "new"
    BY SendEventEffect
<1>4. channel' \in [Session -> Seq(Post)] /\ queued' \in [Session -> Seq(Post)]
    <2>1. CASE UNCHANGED <<channel, queued>>
        BY <1>1, <2>1 DEF TypeOK
    <2>2. ASSUME channel' = [channel EXCEPT ![s] = Append(@, p)],
                 queued' = [queued EXCEPT ![s] = Append(@, p)]
          PROVE  channel' \in [Session -> Seq(Post)] /\ queued' \in [Session -> Seq(Post)]
        <3>1. channel[s] \in Seq(Post) /\ queued[s] \in Seq(Post)
            BY <1>1 DEF TypeOK
        <3>2. Append(channel[s], p) \in Seq(Post) /\ Append(queued[s], p) \in Seq(Post)
            BY <3>1
        <3> QED BY <1>1, <2>2, <3>2 DEF TypeOK
    <2> QED BY <1>3, <2>1, <2>2, SendEventEffect
<1>5. \A t \in Session \ {s} : queued'[t] = queued[t]
    <2>1. queued' = queued \/ queued' = [queued EXCEPT ![s] = Append(@, p)]
        BY <1>3, SendEventEffect
    <2> QED BY <1>1, <2>1 DEF TypeOK
<1>6. TypeOK'
    <2>1. post' \in [Post -> Handler] /\ \A q \in Post \ {p} : post'[q] = post[q]
        BY SendEventEffect
    <2>2. \A q \in Post : post'[q].kind = "notification" => post'[q].response # "internal"
        <3>1. post'[p].kind = post[p].kind /\ post'[p].response = post[p].response
            BY SendEventEffect
        <3>2. \A q \in Post : post[q].kind = "notification" => post[q].response # "internal"
            BY <1>1 DEF TypeOK
        <3> QED BY <2>1, <3>1, <3>2
    <2> QED BY <1>1, <1>2, <1>4, <2>1, <2>2 DEF TypeOK, streamVars
<1>7. ASSUME NEW t \in Session PROVE StreamOrder(t)'
    <2>1. StreamOrder(t) /\ (stream[t] = "new" => t # s)
        BY <1>3 DEF GatewayInv, Orders
    <2> QED BY <1>2, <1>5, <2>1 DEF StreamOrder, streamVars
<1>8. ASSUME NEW q \in Post PROVE HandlerOrder(q)'
    <2>1. CASE q = p
        BY <1>1, <1>2, <1>3, <2>1, SendEventEffect DEF HandlerOrder, streamVars
    <2>2. CASE q # p
        <3>1. HandlerOrder(q) /\ post'[q] = post[q]
            BY <2>2, SendEventEffect DEF GatewayInv, Orders
        <3> QED BY <1>2, <3>1 DEF HandlerOrder, streamVars
    <2> QED BY <2>1, <2>2
<1> QED BY <1>6, <1>7, <1>8 DEF GatewayInv, Orders

\* The steps of a stream, and of its client, leave the messages alone.
LEMMA StreamKeeps ==
    ASSUME GatewayInv, NEW s \in Session,
           OpenStream(s) \/ TakeEvent(s) \/ WriteEvent(s) \/ CloseStream(s) \/ ClientLeaves(s)
    PROVE  GatewayInv'
<1> USE DEF GatewayInv
<1>1. UNCHANGED <<mode, server, post, forwarded, logged, queued>>
    BY DEF OpenStream, TakeEvent, WriteEvent, CloseStream, ClientLeaves
<1>2. /\ channel[s] \in Seq(Post) /\ events[s] \in Seq(Post)
      /\ stream \in [Session -> {"new", "select", "write", "closed"}]
      /\ writing \in [Session -> Post \cup {None}] /\ None \notin Post
    BY SSEAssumption DEF TypeOK
<1>3. TypeOK'
    <2>1. CASE OpenStream(s)
        BY <2>1 DEF OpenStream, TypeOK
    <2>2. CASE TakeEvent(s)
        <3>1. Head(channel[s]) \in Post /\ Tail(channel[s]) \in Seq(Post)
            BY <1>2, <2>2 DEF TakeEvent
        <3> QED BY <2>2, <3>1 DEF TakeEvent, TypeOK
    <2>3. CASE WriteEvent(s)
        <3>1. writing[s] \in Post
            BY <1>2, <2>3 DEF WriteEvent, Orders, StreamOrder
        <3>2. Append(events[s], writing[s]) \in Seq(Post)
            BY <1>2, <3>1
        <3>3. events' \in [Session -> Seq(Post)]
            BY <2>3, <3>2 DEF WriteEvent, TypeOK
        <3> QED BY <2>3, <3>3 DEF WriteEvent, TypeOK
    <2>4. CASE CloseStream(s)
        BY <2>4 DEF CloseStream, TypeOK
    <2>5. CASE ClientLeaves(s)
        BY <2>5 DEF ClientLeaves, TypeOK
    <2> QED BY <2>1, <2>2, <2>3, <2>4, <2>5
<1>4. StreamOrder(s)'
    <2>1. StreamOrder(s)
        BY DEF Orders
    <2>2. CASE OpenStream(s)
        BY <1>2, <2>1, <2>2 DEF OpenStream, StreamOrder
    <2>3. CASE TakeEvent(s)
        <3>1. Head(channel[s]) \in Post
            BY <1>2, <2>3 DEF TakeEvent
        <3> QED BY <1>2, <2>1, <2>3, <3>1 DEF TakeEvent, StreamOrder
    <2>4. CASE WriteEvent(s)
        BY <1>2, <2>1, <2>4 DEF WriteEvent, StreamOrder
    <2>5. CASE CloseStream(s)
        BY <1>2, <2>1, <2>5 DEF CloseStream, StreamOrder
    <2>6. CASE ClientLeaves(s)
        BY <1>2, <2>1, <2>6 DEF ClientLeaves, StreamOrder, TypeOK
    <2> QED BY <2>2, <2>3, <2>4, <2>5, <2>6
<1>5. ASSUME NEW t \in Session \ {s} PROVE StreamOrder(t)'
    <2>1. /\ (t \in sessions' <=> t \in sessions) /\ stream'[t] = stream[t]
          /\ writing'[t] = writing[t] /\ gone'[t] = gone[t]
        BY <1>2 DEF OpenStream, TakeEvent, WriteEvent, CloseStream, ClientLeaves, TypeOK
    <2> QED BY <1>1, <2>1 DEF Orders, StreamOrder
<1>6. \A t \in Session : /\ stream[t] # "new" => stream'[t] # "new"
                         /\ stream[t] = "closed" => stream'[t] = "closed"
    BY <1>2 DEF OpenStream, TakeEvent, WriteEvent, CloseStream, ClientLeaves
<1>7. ASSUME NEW q \in Post PROVE HandlerOrder(q)'
    BY <1>1, <1>6 DEF Orders, HandlerOrder
<1> QED BY <1>3, <1>4, <1>5, <1>7 DEF Orders

LEMMA GatewayInit == Init => GatewayInv
<1> SUFFICES ASSUME Init PROVE GatewayInv
    OBVIOUS
<1>1. Unsent \in Handler /\ Unsent.pc = "new" /\ Unsent.response = "none"
    BY DEF Unsent, Handler
<1>2. \A p \in Post : post[p] = Unsent
    BY DEF Init
<1>3. TypeOK
    <2>1. <<>> \in Seq(Post)
        OBVIOUS
    <2> QED BY <1>1, <2>1 DEF Init, TypeOK
<1>4. \A p \in Post : HandlerOrder(p)
    BY <1>1, <1>2 DEF HandlerOrder, Init
<1>5. \A s \in Session : StreamOrder(s)
    BY DEF StreamOrder, Init
<1> QED BY <1>3, <1>4, <1>5 DEF GatewayInv, Orders

LEMMA GatewayNext == GatewayInv /\ [Next]_vars => GatewayInv'
<1> SUFFICES ASSUME GatewayInv, [Next]_vars PROVE GatewayInv'
    OBVIOUS
<1>1. ASSUME NEW s \in Session, OpenStream(s) \/ Stream(s) \/ ClientLeaves(s) PROVE GatewayInv'
    BY <1>1, StreamKeeps DEF Stream
<1>2. ASSUME NEW p \in Post, NEW s \in Session \cup {None}, NEW kind \in Kind, Receive(p, s, kind)
      PROVE  GatewayInv'
    BY <1>2, ReceiveKeeps
<1>3. ASSUME NEW p \in Post, Handle(p) PROVE GatewayInv'
    BY <1>3, AuditRequestKeeps, GuardKeeps, ForwardKeeps, RecordResponseKeeps, LookupKeeps,
       SendEventKeeps, ReplyKeeps DEF Handle
<1>4. ASSUME UNCHANGED <<mode, streamVars, channel, post, forwarded, logged, queued>>,
             server' \in {"serving", "draining", "stopped"}
      PROVE  GatewayInv'
    BY <1>4 DEF GatewayInv, TypeOK, Orders, StreamOrder, HandlerOrder, streamVars
<1>5. CASE Shutdown \/ Stop \/ EndLoop
    BY <1>4, <1>5 DEF Shutdown, Stop, EndLoop
<1>6. CASE UNCHANGED vars
    BY <1>4, <1>6 DEF vars, GatewayInv, TypeOK
<1> QED BY <1>1, <1>2, <1>3, <1>5, <1>6 DEF Next

\* The types hold for every value of the constants.
THEOREM TypeCorrect == Spec => []TypeOK
<1>1. GatewayInv => TypeOK
    BY DEF GatewayInv
<1> QED BY GatewayInit, GatewayNext, <1>1, PTL DEF Spec

\* However many handlers interleave and whenever the server stops, the ledger has
\* a message before the downstream server, and its answer before the client.
THEOREM NothingUnlogged == Spec => []NothingPassesUnlogged
<1>1. GatewayInv => NothingPassesUnlogged
    <2> SUFFICES ASSUME GatewayInv PROVE NothingPassesUnlogged
        OBVIOUS
    <2>1. \A p \in Post : HandlerOrder(p)
        BY DEF GatewayInv, Orders
    <2>2. forwarded \subseteq Post
        BY DEF GatewayInv, TypeOK
    <2> QED BY <2>1, <2>2 DEF HandlerOrder, NothingPassesUnlogged
<1> QED BY GatewayInit, GatewayNext, <1>1, PTL DEF Spec

\* Of any number of POSTs, only those whose client has left go unanswered.
THEOREM OnlyLeaversLose == Spec => []LostOnlyToLeavers
<1>1. GatewayInv => LostOnlyToLeavers
    <2> SUFFICES ASSUME GatewayInv, NEW p \in Post, post[p].pc = "panicked"
                 PROVE  /\ post[p].session # None /\ gone[post[p].session]
                        /\ post[p].session \notin sessions
        BY DEF LostOnlyToLeavers
    <2>1. post[p].session \in Session /\ stream[post[p].session] = "closed"
        BY DEF GatewayInv, Orders, HandlerOrder
    <2>2. StreamOrder(post[p].session)
        BY <2>1 DEF GatewayInv, Orders
    <2> QED BY <2>1, <2>2, SSEAssumption DEF StreamOrder
<1> QED BY GatewayInit, GatewayNext, <1>1, PTL DEF Spec

-------------------------------------------------------------------------------
\* What a stream carries, in two parts: every response in its order, and none
\* twice or of another session.
Complete(s) == ~gone[s] => queued[s] = events[s] \o InHand(s) \o channel[s]

OwnResponses(s) ==
    /\ IsInjective(queued[s])
    /\ \A i \in DOMAIN queued[s] : LET h == post[queued[s][i]] IN
          h.session = s /\ h.response # "none" /\ h.pc \in {"reply", "answered"}

CarriesInv ==
    GatewayInv /\ \A s \in Session : Complete(s) /\ OwnResponses(s)

\* Taking an event moves it from the channel to the hand, writing it from there
\* to the client, and sending one adds it at the end.
LEMMA TakeMoves ==
    ASSUME NEW got \in Seq(Post), NEW rest \in Seq(Post), rest # <<>>
    PROVE  got \o <<>> \o rest = got \o <<Head(rest)>> \o Tail(rest)
OBVIOUS

LEMMA WriteMoves ==
    ASSUME NEW got \in Seq(Post), NEW rest \in Seq(Post), NEW e \in Post
    PROVE  got \o <<e>> \o rest = Append(got, e) \o <<>> \o rest
OBVIOUS

LEMMA SendMoves ==
    ASSUME NEW got \in Seq(Post), NEW rest \in Seq(Post), NEW e \in Post
    PROVE  Append(got \o rest, e) = got \o Append(rest, e)
OBVIOUS

\* What was put on a channel stays the stream's own while messages go on and no
\* answered one is taken back.
LEMMA OwnKept ==
    ASSUME GatewayInv, NEW s \in Session, OwnResponses(s), queued'[s] = queued[s],
           \A q \in Post : post[q].pc \in {"reply", "answered"} /\ post[q].session = s =>
              /\ post'[q].session = s /\ post'[q].response = post[q].response
              /\ post'[q].pc \in {"reply", "answered"}
    PROVE  OwnResponses(s)'
<1>1. queued[s] \in Seq(Post)
    BY DEF GatewayInv, TypeOK
<1>2. \A i \in DOMAIN queued[s] : queued[s][i] \in Post
    BY <1>1
<1> QED BY <1>2 DEF OwnResponses, IsInjective

\* A step that leaves streams and channels alone, and moves the message p on
\* before its answer, keeps what the streams carry.
LEMMA OtherCarries ==
    ASSUME CarriesInv, NEW p \in Post, post[p].pc \notin {"reply", "answered"},
           UNCHANGED <<streamVars, channel, queued>>,
           \A q \in Post \ {p} : post'[q] = post[q]
    PROVE  \A s \in Session : Complete(s)' /\ OwnResponses(s)'
<1>1. ASSUME NEW s \in Session PROVE Complete(s)' /\ OwnResponses(s)'
    <2>1. Complete(s) /\ OwnResponses(s) /\ GatewayInv
        BY DEF CarriesInv
    <2>2. OwnResponses(s)'
        BY <2>1, OwnKept
    <2> QED BY <2>1, <2>2 DEF Complete, InHand, streamVars
<1> QED BY <1>1

LEMMA ReplyCarries ==
    ASSUME CarriesInv, NEW p \in Post, Reply(p)
    PROVE  \A s \in Session : Complete(s)' /\ OwnResponses(s)'
<1>1. TypeOK /\ post[p].pc = "reply" /\ UNCHANGED <<streamVars, channel, queued>>
    BY DEF CarriesInv, GatewayInv, Reply
<1>2. PICK pc \in {"answered", "failed"} : Step(p, pc) /\ (pc = "failed" => mode = "stdio")
    BY DEF Reply
<1>3. /\ \A q \in Post \ {p} : post'[q] = post[q]
      /\ post'[p].pc = pc /\ post'[p].response = post[p].response
      /\ post'[p].session = post[p].session
    BY <1>1, <1>2, StepEffect DEF Ended
<1>4. ASSUME NEW s \in Session PROVE OwnResponses(s)'
    <2>1. OwnResponses(s) /\ StreamOrder(s) /\ GatewayInv
        BY DEF CarriesInv, GatewayInv, Orders
    <2>2. CASE pc = "answered"
        <3>1. \A q \in Post : post[q].pc \in {"reply", "answered"} /\ post[q].session = s =>
                 /\ post'[q].session = s /\ post'[q].response = post[q].response
                 /\ post'[q].pc \in {"reply", "answered"}
            BY <1>3, <2>2
        <3> QED BY <1>1, <2>1, <3>1, OwnKept
    <2>3. CASE pc = "failed"
        <3>1. queued'[s] = <<>>
            BY <1>1, <1>2, <2>1, <2>3 DEF StreamOrder
        <3> QED BY <3>1 DEF OwnResponses, IsInjective
    <2> QED BY <2>2, <2>3
<1>5. ASSUME NEW s \in Session PROVE Complete(s)'
    <2>1. Complete(s)
        BY DEF CarriesInv
    <2> QED BY <1>1, <2>1 DEF Complete, InHand, streamVars
<1> QED BY <1>4, <1>5

LEMMA SendEventCarries ==
    ASSUME CarriesInv, NEW p \in Post, SendEvent(p)
    PROVE  \A s \in Session : Complete(s)' /\ OwnResponses(s)'
<1>1. GatewayInv /\ TypeOK /\ post[p].pc = "send" /\ UNCHANGED streamVars
    BY DEF CarriesInv, GatewayInv, SendEvent
<1>2. PICK s \in Session : s = post[p].session
    BY <1>1, SendEventEffect
<1>3. /\ \A q \in Post \ {p} : post'[q] = post[q]
      /\ post'[p].response = post[p].response /\ post'[p].session = s
    BY <1>1, <1>2, SendEventEffect
<1>4. post[p].response # "none"
    BY <1>1 DEF GatewayInv, Orders, HandlerOrder
<1>5. CASE UNCHANGED <<channel, queued>>
    BY <1>1, <1>3, <1>5, OtherCarries
<1>6. ASSUME stream[s] # "closed",
             channel' = [channel EXCEPT ![s] = Append(@, p)],
             queued' = [queued EXCEPT ![s] = Append(@, p)]
      PROVE  \A t \in Session : Complete(t)' /\ OwnResponses(t)'
    <2> DEFINE n == Len(queued[s])
    <2>1. /\ queued[s] \in Seq(Post) /\ channel[s] \in Seq(Post) /\ events[s] \in Seq(Post)
          /\ InHand(s) \in Seq(Post)
        BY <1>1 DEF TypeOK, InHand
    <2>2. channel'[s] = Append(channel[s], p) /\ queued'[s] = Append(queued[s], p)
        BY <1>1, <1>6 DEF TypeOK
    <2>3. Complete(s)'
        <3>1. InHand(s)' = InHand(s) /\ events' = events /\ gone' = gone
            BY <1>1 DEF InHand, streamVars
        <3>2. ASSUME ~gone[s]
              PROVE  Append(queued[s], p) = events[s] \o InHand(s) \o Append(channel[s], p)
            <4>1. queued[s] = events[s] \o InHand(s) \o channel[s]
                BY <3>2 DEF CarriesInv, Complete
            <4>2. events[s] \o InHand(s) \in Seq(Post)
                BY <2>1
            <4>3. Append((events[s] \o InHand(s)) \o channel[s], p)
                     = (events[s] \o InHand(s)) \o Append(channel[s], p)
                BY ONLY <2>1, <4>2, SendMoves, p \in Post
            <4> QED BY <4>1, <4>3
        <3> QED BY <2>2, <3>1, <3>2 DEF Complete
    <2>4. /\ DOMAIN queued[s] = 1..n /\ DOMAIN queued'[s] = 1..n + 1 /\ n \in Nat
          /\ queued'[s][n + 1] = p
          /\ \A i \in 1..n : queued'[s][i] = queued[s][i] /\ queued[s][i] \in Post
        BY <2>1, <2>2
    <2>5. OwnResponses(s)
        BY DEF CarriesInv
    <2>6. \A i \in 1..n : queued[s][i] # p
        BY <1>1, <2>4, <2>5 DEF OwnResponses
    <2>7. IsInjective(queued'[s])
        <3>1. \A i, j \in 1..n : queued[s][i] = queued[s][j] => i = j
            BY <2>4, <2>5 DEF OwnResponses, IsInjective
        <3>2. \A i \in 1..n + 1 : i \in 1..n \/ i = n + 1
            BY <2>4
        <3>3. \A i, j \in 1..n + 1 : queued'[s][i] = queued'[s][j] => i = j
            BY <2>4, <2>6, <3>1, <3>2
        <3> QED BY <2>4, <3>3 DEF IsInjective
    <2>8. ASSUME NEW i \in 1..n + 1
          PROVE  LET h == post'[queued'[s][i]] IN
                 h.session = s /\ h.response # "none" /\ h.pc \in {"reply", "answered"}
        <3>1. CASE i = n + 1
            <4>1. post'[p].pc = "reply"
                BY <1>1, <1>2, <1>6, SendEventEffect
            <4> QED BY <1>3, <1>4, <2>4, <3>1, <4>1
        <3>2. CASE i \in 1..n
            <4>1. queued'[s][i] = queued[s][i] /\ queued[s][i] \in Post \ {p}
                BY <2>4, <2>6, <3>2
            <4>2. post'[queued[s][i]] = post[queued[s][i]]
                BY <1>3, <4>1
            <4> QED BY <2>4, <2>5, <3>2, <4>1, <4>2 DEF OwnResponses
        <3> QED BY <2>4, <3>1, <3>2
    <2>9. OwnResponses(s)'
        BY <2>4, <2>7, <2>8 DEF OwnResponses
    <2>10. ASSUME NEW t \in Session \ {s} PROVE Complete(t)' /\ OwnResponses(t)'
        <3>1. channel'[t] = channel[t] /\ queued'[t] = queued[t]
            BY <1>1, <1>6 DEF TypeOK
        <3>2. Complete(t) /\ OwnResponses(t)
            BY DEF CarriesInv
        <3>3. OwnResponses(t)'
            BY <1>1, <1>3, <3>1, <3>2, OwnKept
        <3> QED BY <1>1, <3>1, <3>2, <3>3 DEF Complete, InHand, streamVars
    <2> QED BY <2>3, <2>9, <2>10
<1> QED BY <1>1, <1>2, <1>5, <1>6, SendEventEffect

LEMMA StreamCarries ==
    ASSUME CarriesInv, NEW s \in Session,
           OpenStream(s) \/ TakeEvent(s) \/ WriteEvent(s) \/ CloseStream(s) \/ ClientLeaves(s)
    PROVE  \A t \in Session : Complete(t)' /\ OwnResponses(t)'
<1>1. TypeOK /\ StreamOrder(s) /\ UNCHANGED <<post, queued>>
    BY DEF CarriesInv, GatewayInv, Orders, OpenStream, TakeEvent, WriteEvent, CloseStream,
           ClientLeaves
<1>2. \A t \in Session : OwnResponses(t)'
    BY <1>1 DEF CarriesInv, OwnResponses
<1>3. ASSUME NEW t \in Session \ {s} PROVE Complete(t)'
    <2>1. /\ channel'[t] = channel[t] /\ events'[t] = events[t] /\ writing'[t] = writing[t]
          /\ gone'[t] = gone[t]
        BY <1>1 DEF OpenStream, TakeEvent, WriteEvent, CloseStream, ClientLeaves, TypeOK
    <2> QED BY <1>1, <2>1 DEF CarriesInv, Complete, InHand
<1>4. /\ channel[s] \in Seq(Post) /\ events[s] \in Seq(Post)
      /\ writing[s] \in Post \cup {None} /\ None \notin Post
    BY <1>1, SSEAssumption DEF TypeOK
<1>5. Complete(s)
    BY DEF CarriesInv
<1>6. CASE TakeEvent(s)
    <2>1. writing[s] = None /\ Head(channel[s]) \in Post /\ channel[s] # <<>>
        BY <1>1, <1>4, <1>6 DEF StreamOrder, TakeEvent
    <2>2. /\ writing'[s] = Head(channel[s]) /\ channel'[s] = Tail(channel[s])
          /\ UNCHANGED <<events, gone>>
        BY <1>1, <1>6 DEF TakeEvent, TypeOK
    <2>3. InHand(s) = <<>> /\ InHand(s)' = <<Head(channel[s])>>
        BY <1>4, <2>1, <2>2 DEF InHand
    <2>4. events[s] \o <<>> \o channel[s] = events[s] \o <<Head(channel[s])>> \o Tail(channel[s])
        BY <1>4, <2>1, TakeMoves
    <2>5. Complete(s)'
        BY <1>1, <1>5, <2>2, <2>3, <2>4 DEF Complete
    <2> QED BY <1>2, <1>3, <2>5
<1>7. CASE WriteEvent(s)
    <2>1. writing[s] \in Post /\ writing[s] # None
        BY <1>1, <1>4, <1>7 DEF StreamOrder, WriteEvent
    <2>2. /\ writing'[s] = None /\ UNCHANGED <<channel, gone>>
          /\ ~gone[s] => events'[s] = Append(events[s], writing[s])
        BY <1>1, <1>7 DEF WriteEvent, TypeOK
    <2>3. InHand(s) = <<writing[s]>> /\ InHand(s)' = <<>>
        BY <1>4, <2>1, <2>2 DEF InHand
    <2>4. events[s] \o <<writing[s]>> \o channel[s]
             = Append(events[s], writing[s]) \o <<>> \o channel[s]
        BY <1>4, <2>1, WriteMoves
    <2>5. Complete(s)'
        BY <1>1, <1>5, <2>2, <2>3, <2>4 DEF Complete
    <2> QED BY <1>2, <1>3, <2>5
<1>8. CASE OpenStream(s) \/ CloseStream(s) \/ ClientLeaves(s)
    <2>1. UNCHANGED <<channel, events, writing>> /\ (~gone'[s] => ~gone[s])
        BY <1>1, <1>8 DEF OpenStream, CloseStream, ClientLeaves, TypeOK
    <2>2. Complete(s)'
        BY <1>1, <1>5, <2>1 DEF Complete, InHand
    <2> QED BY <1>2, <1>3, <2>2
<1> QED BY <1>6, <1>7, <1>8

LEMMA CarriesInit == Init => CarriesInv
<1> SUFFICES ASSUME Init, NEW s \in Session PROVE Complete(s) /\ OwnResponses(s)
    BY GatewayInit DEF CarriesInv
<1>1. queued[s] = <<>> /\ events[s] = <<>> /\ channel[s] = <<>> /\ writing[s] = None
    BY DEF Init
<1>2. OwnResponses(s)
    BY <1>1 DEF OwnResponses, IsInjective
<1> QED BY <1>1, <1>2 DEF Complete, InHand

LEMMA CarriesNext == CarriesInv /\ [Next]_vars => CarriesInv'
<1> SUFFICES ASSUME CarriesInv, [Next]_vars
             PROVE  \A s \in Session : Complete(s)' /\ OwnResponses(s)'
    BY GatewayNext DEF CarriesInv
<1>1. GatewayInv /\ TypeOK
    BY DEF CarriesInv, GatewayInv
<1>2. ASSUME NEW s \in Session, OpenStream(s) \/ Stream(s) \/ ClientLeaves(s)
      PROVE  \A t \in Session : Complete(t)' /\ OwnResponses(t)'
    BY <1>2, StreamCarries DEF Stream
<1>3. ASSUME NEW p \in Post, NEW s \in Session \cup {None}, NEW kind \in Kind, Receive(p, s, kind)
      PROVE  \A t \in Session : Complete(t)' /\ OwnResponses(t)'
    BY <1>1, <1>3, OtherCarries DEF Receive, TypeOK
<1>4. ASSUME NEW p \in Post, AuditRequest(p) \/ Guard(p) \/ Forward(p) \/ RecordResponse(p) \/ Lookup(p)
      PROVE  \A t \in Session : Complete(t)' /\ OwnResponses(t)'
    <2>1. \A q \in Post \ {p} : post'[q] = post[q]
        BY <1>1, <1>4 DEF AuditRequest, Guard, Forward, Fail, RecordResponse, Lookup, Step, Respond,
                          TypeOK
    <2>2. /\ post[p].pc \notin {"reply", "answered"}
          /\ UNCHANGED <<streamVars, channel, queued>>
        BY <1>4 DEF AuditRequest, Guard, Forward, RecordResponse, Lookup
    <2> QED BY <2>1, <2>2, OtherCarries
<1>5. ASSUME NEW p \in Post, Handle(p)
      PROVE  \A t \in Session : Complete(t)' /\ OwnResponses(t)'
    BY <1>4, <1>5, ReplyCarries, SendEventCarries DEF Handle
<1>6. CASE UNCHANGED <<streamVars, channel, queued, post>>
    <2>1. UNCHANGED <<gone, events, writing, channel, queued, post>>
        BY <1>6 DEF streamVars
    <2>2. \A s \in Session : Complete(s) /\ OwnResponses(s)
        BY DEF CarriesInv
    <2>3. \A s \in Session : Complete(s)'
        BY <2>1, <2>2 DEF Complete, InHand
    <2>4. \A s \in Session : OwnResponses(s)'
        BY <2>1, <2>2 DEF OwnResponses
    <2> QED BY <2>3, <2>4
<1> QED BY <1>2, <1>3, <1>5, <1>6 DEF Next, Shutdown, Stop, EndLoop, vars

\* A listening client gets every response of its session that found room, in the
\* order they were put on the channel and once each, for any number of sessions,
\* handlers and events.
THEOREM StreamsCarryTheirResponses == Spec => []StreamCarriesItsResponses
<1>1. CarriesInv => StreamCarriesItsResponses
    BY DEF CarriesInv, Complete, OwnResponses, StreamCarriesItsResponses
<1> QED BY CarriesInit, CarriesNext, <1>1, PTL DEF Spec

===============================================================================
