------------------------ MODULE StandaloneServer_proofs ------------------------
(***************************************************************************)
(* Theorems about StandaloneServer and their proofs.  What the broker does *)
(* inside of the server rests on the theorems of CredentialBroker_proofs.  *)
(***************************************************************************)
EXTENDS StandaloneServer, FiniteSetTheorems, SequenceTheorems, TLAPS

Proved == INSTANCE CredentialBroker_proofs

-------------------------------------------------------------------------------
\* The dispatcher: what holds of a task by itself.

FrameOf(t) == IF t.inner THEN t.message.tool ELSE t.message.method

TaskOK(t) ==
    /\ t.inner => t.message.method = "call" /\ t.message.tool # ""
    /\ t.pc \in {"handle", "broker", "leave"} => FrameOf(t) \in Known
    /\ t.pc = "broker" => FrameOf(t) \in {"request", "revoke"}
    /\ t.pc \in {"idle", "enter", "handle", "broker"} => t.outcome = "none"
    /\ t.pc = "idle" => ~t.inner
    /\ t.pc = "leave" /\ t.outcome = "none" /\ FrameOf(t) = "call" => t.failed
    /\ t.pc = "leave" /\ t.outcome # "none" => FrameOf(t) = "call" /\ ~t.failed
    /\ t.pc \in {"return", "answer"} => t.outcome # "none"
    /\ t.pc = "answer" => ~t.inner

\* Who handles messages, and when.
Flow ==
    /\ TypeOK
    /\ \A h \in Caller : TaskOK(task[h])
    /\ server.pc = "boot" => server.mode = "none"
    /\ server.mode = "none" => server.pc \in {"boot", "exited"}
    /\ server.pc = "draining" => server.mode = "sse"
    /\ server.audit \/ server.guard => server.mode = "stdio"
    /\ \A h \in Caller : task[h].pc # "idle" => server.mode # "none" /\ h \in Handlers
    /\ server.pc \in {"shutdown", "exited"} => task[Main].pc = "idle"
    /\ server.pc # "boot" => boot.pc = "done"

\* What the guardrails let pass, as a message and as the call of a tool.
PassesOuter(m, policy) ==
    /\ m.size # "large" /\ ~Detected(m.text)
    /\ m.method = "call" /\ policy => ~ScanArguments({m.values}) /\ ~m.denied

PassesInner(m) == m.size # "grows" /\ ~Detected(m.inner)

Screened(t, policy) ==
    /\ t.pc \in {"handle", "broker"} \/ t.inner => PassesOuter(t.message, policy)
    /\ t.pc \in {"handle", "broker"} /\ t.inner => PassesInner(t.message)
    /\ t.outcome = "refused" => Offends(t.message, policy)

ScreenInv == server.guard => \A h \in Caller : Screened(task[h], server.policy)

\* The records of a message at each stage of its task.
Req(x) == [kind |-> IF x = "call" THEN "tool" ELSE "request", method |-> x]
Resp(x) == [kind |-> "response", method |-> x]

Tells(t, n) ==
    LET m == t.message IN
    /\ t.pc = "enter" => n = IF t.inner THEN <<Req("call")>> ELSE <<>>
    /\ t.pc \in {"handle", "broker"} \/ (t.pc = "leave" /\ t.outcome = "none") =>
          n = IF t.inner THEN <<Req("call"), Req(m.tool)>> ELSE <<Req(m.method)>>
    /\ t.outcome = "result" /\ (t.inner \/ t.pc = "leave") =>
          n = <<Req("call"), Req(m.tool), Resp(m.tool)>>
    /\ t.outcome = "result" /\ ~t.inner /\ t.pc \in {"return", "answer"} =>
          \/ n = <<Req(m.method), Resp(m.method)>>
          \/ n = <<Req("call"), Req(m.tool), Resp(m.tool), Resp("call")>>

RecordsInv == (server.audit /\ ~lost) => Tells(task[Main], notes)

-------------------------------------------------------------------------------
\* Steps of a handler.

Point == {"idle", "enter", "handle", "broker", "leave", "return", "answer"}

Outcomes == {"none", "result", "error", "refused"}

\* Only the task of h moves, and it stays with its message.
Touches(h) ==
    /\ task' \in [Caller -> Task]
    /\ \A k \in Caller \ {h} : task'[k] = task[k]
    /\ task'[h].message = task[h].message

\* What assumptions say of messages.
LEMMA MessageFacts ==
  ASSUME NEW m \in Messages
  PROVE  /\ m \in Message /\ m.method \in Method /\ m.tool \in Tool \cup {"ping", "unknown", ""}
         /\ m.text \in Text /\ m.values \in Text /\ m.inner \in Text
         /\ m.ttl \in RequestTTL /\ m.argument \in Lease \cup RequestTarget \cup {None}
<1>1. m \in Message
  BY StandaloneAssumption
<1> QED BY <1>1 DEF Message

LEMMA TaskFacts ==
  ASSUME TypeOK, NEW h \in Caller
  PROVE  /\ task[h] \in Task /\ task[h].message \in Messages /\ task[h].pc \in Point
         /\ task[h].inner \in BOOLEAN /\ task[h].failed \in BOOLEAN /\ task[h].outcome \in Outcomes
<1>1. task[h] \in Task
  BY DEF TypeOK
<1> QED BY <1>1 DEF Task, Point, Outcomes

LEMMA FrameFacts ==
  ASSUME NEW t \in Task
  PROVE  /\ FrameOf(t) \in Method \cup {""}
         /\ t.inner => FrameOf(t) = t.message.tool /\ FrameOf(t) \notin {"call", "note", "garbage"}
         /\ ~t.inner => FrameOf(t) = t.message.method
<1>1. t.message \in Messages /\ t.inner \in BOOLEAN
  BY DEF Task
<1>2. t.message.method \in Method /\ t.message.tool \in Tool \cup {"ping", "unknown", ""}
  BY <1>1, MessageFacts
<1> QED BY <1>1, <1>2 DEF FrameOf, Method, Known, Tool

LEMMA FrameIs == \A h : Frame(h) = FrameOf(task[h])
  BY DEF Frame, FrameOf

\* An update of one task.
LEMMA UpdateTask ==
  ASSUME TypeOK, NEW h \in Caller, NEW r \in Task, r.message = task[h].message,
         task' = [task EXCEPT ![h] = r]
  PROVE  Touches(h) /\ task'[h] = r
  BY DEF TypeOK, Touches

\* What a step of the handler of h changes: its program point, whether the tool
\* of a call is in hand, whether it failed, and the outcome.
Becomes(h, p, i, f, o) ==
    /\ Touches(h)
    /\ task'[h].pc = p /\ task'[h].inner = i /\ task'[h].failed = f /\ task'[h].outcome = o

LEMMA FinishBecomes ==
  ASSUME TypeOK, NEW h \in Caller, NEW f \in BOOLEAN, Finish(h, f)
  PROVE  Becomes(h, "leave", task[h].inner, f, task[h].outcome)
<1> DEFINE r == [task[h] EXCEPT !.pc = "leave", !.failed = f]
<1>1. task \in [Caller -> Task] /\ task[h] \in Task
  BY DEF TypeOK
<1>2. /\ r \in Task /\ r.message = task[h].message
      /\ r.pc = "leave" /\ r.inner = task[h].inner /\ r.failed = f /\ r.outcome = task[h].outcome
  BY <1>1 DEF Task
<1>3. task' = [task EXCEPT ![h] = r]
  BY <1>1 DEF Finish, Task
<1> HIDE DEF r
<1>4. Touches(h) /\ task'[h] = r
  BY <1>2, <1>3, UpdateTask
<1> QED BY <1>2, <1>4 DEF Becomes

\* What a record of the audit middleware comes to.
Recording(kind, method) ==
    \/ ~server.audit /\ UNCHANGED <<notes, lost>>
    \/ server.audit /\ notes' = Append(notes, [kind |-> kind, method |-> method]) /\ UNCHANGED lost
    \/ server.audit /\ lost' = TRUE /\ UNCHANGED notes

LEMMA EnterEffect ==
  ASSUME TypeOK, NEW h \in Caller, Enter(h)
  PROVE  LET t == task[h] IN
         /\ t.pc = "enter" /\ UNCHANGED <<brokerVars, startVars, revoked, received>>
         /\ \/ /\ FrameOf(t) \notin Known
               /\ Becomes(h, "return", t.inner, t.failed, "error") /\ UNCHANGED <<notes, lost>>
            \/ /\ server.guard /\ Blocked(h)
               /\ Becomes(h, "return", t.inner, t.failed, "refused") /\ UNCHANGED <<notes, lost>>
            \/ /\ FrameOf(t) \in Known /\ ~(server.guard /\ Blocked(h))
               /\ Becomes(h, "handle", t.inner, t.failed, t.outcome)
               /\ Recording(IF FrameOf(t) = "call" THEN "tool" ELSE "request", FrameOf(t))
<1> DEFINE t == task[h]
           q(p, o) == [t EXCEPT !.pc = p, !.outcome = o]
<1>1. task \in [Caller -> Task] /\ t \in Task /\ Frame(h) = FrameOf(t)
  BY FrameIs DEF TypeOK
<1>2. ASSUME NEW p \in {"return", "handle"}, NEW o \in Outcomes, task' = [task EXCEPT ![h] = q(p, o)]
      PROVE  Becomes(h, p, t.inner, t.failed, o)
  <2> DEFINE r == q(p, o)
  <2>1. /\ r \in Task /\ r.message = t.message
        /\ r.pc = p /\ r.inner = t.inner /\ r.failed = t.failed /\ r.outcome = o
    BY <1>1 DEF Task, Outcomes
  <2>2. task' = [task EXCEPT ![h] = r]
    BY <1>2
  <2> HIDE DEF r
  <2>3. Touches(h) /\ task'[h] = r
    BY <2>1, <2>2, UpdateTask
  <2> QED BY <2>1, <2>3 DEF Becomes
<1>3. t.pc = "enter" /\ UNCHANGED <<brokerVars, startVars, revoked, received>>
  BY DEF Enter
<1>4. CASE /\ Frame(h) \notin Known
           /\ task' = [task EXCEPT ![h].pc = "return", ![h].outcome = "error"]
           /\ UNCHANGED <<notes, lost>>
  <2>1. task' = [task EXCEPT ![h] = q("return", "error")]
    BY <1>1, <1>4
  <2>2. Becomes(h, "return", t.inner, t.failed, "error")
    BY <1>2, <2>1 DEF Outcomes
  <2> QED BY <1>1, <1>3, <1>4, <2>2
<1>5. CASE /\ server.guard /\ Blocked(h)
           /\ task' = [task EXCEPT ![h].pc = "return", ![h].outcome = "refused"]
           /\ UNCHANGED <<notes, lost>>
  <2>1. task' = [task EXCEPT ![h] = q("return", "refused")]
    BY <1>1, <1>5
  <2>2. Becomes(h, "return", t.inner, t.failed, "refused")
    BY <1>2, <2>1 DEF Outcomes
  <2> QED BY <1>1, <1>3, <1>5, <2>2
<1>6. CASE /\ Frame(h) \in Known /\ ~(server.guard /\ Blocked(h))
           /\ task' = [task EXCEPT ![h].pc = "handle"]
           /\ RecordRequest(h)
  <2>1. task' = [task EXCEPT ![h] = q("handle", t.outcome)]
    BY <1>1, <1>6 DEF Task
  <2>2. Becomes(h, "handle", t.inner, t.failed, t.outcome)
    BY <1>1, <1>2, <2>1, TaskFacts
  <2>3. Recording(IF FrameOf(t) = "call" THEN "tool" ELSE "request", FrameOf(t))
    BY <1>1, <1>6 DEF RecordRequest, Record, Recording
  <2> QED BY <1>1, <1>3, <1>6, <2>2, <2>3
<1> QED BY <1>4, <1>5, <1>6 DEF Enter

LEMMA HandleEffect ==
  ASSUME TypeOK, NEW h \in Caller, Handle(h)
  PROVE  LET t == task[h]
             m == t.message
         IN
         /\ t.pc = "handle" /\ UNCHANGED <<startVars, notes, lost, revoked, received>>
         /\ \/ /\ FrameOf(t) = "call" /\ m.tool # ""
               /\ Becomes(h, "enter", TRUE, t.failed, t.outcome) /\ UNCHANGED brokerVars
            \/ /\ FrameOf(t) \in {"call", "request", "revoke"}
               /\ Becomes(h, "leave", t.inner, TRUE, t.outcome) /\ UNCHANGED brokerVars
            \/ /\ FrameOf(t) \in {"ping", "list"}
               /\ Becomes(h, "leave", t.inner, FALSE, t.outcome) /\ UNCHANGED brokerVars
            \/ /\ FrameOf(t) = "request"
               /\ m.argument \in RequestTarget /\ Broker!IssueLease(h, m.argument, m.ttl)
               /\ Becomes(h, "broker", t.inner, t.failed, t.outcome)
            \/ /\ FrameOf(t) = "revoke"
               /\ m.argument \in Lease /\ Broker!RevokeLease(h, m.argument)
               /\ Becomes(h, "broker", t.inner, t.failed, t.outcome)
            \/ /\ FrameOf(t) = "revoke"
               /\ m.argument \in Lease /\ Broker!RevokeNothing(h, m.argument)
               /\ Becomes(h, "leave", t.inner, ~Broker!Recorded(m.argument), t.outcome)
<1> DEFINE t == task[h]
           m == t.message
           q(p, i) == [t EXCEPT !.pc = p, !.inner = i]
<1>1. task \in [Caller -> Task] /\ t \in Task /\ Frame(h) = FrameOf(t)
  BY FrameIs DEF TypeOK
<1>2. ASSUME NEW p \in {"enter", "broker"}, NEW i \in BOOLEAN, task' = [task EXCEPT ![h] = q(p, i)]
      PROVE  Becomes(h, p, i, t.failed, t.outcome)
  <2> DEFINE r == q(p, i)
  <2>1. /\ r \in Task /\ r.message = t.message
        /\ r.pc = p /\ r.inner = i /\ r.failed = t.failed /\ r.outcome = t.outcome
    BY <1>1 DEF Task
  <2>2. task' = [task EXCEPT ![h] = r]
    BY <1>2
  <2> HIDE DEF r
  <2>3. Touches(h) /\ task'[h] = r
    BY <2>1, <2>2, UpdateTask
  <2> QED BY <2>1, <2>3 DEF Becomes
<1>3. t.pc = "handle" /\ UNCHANGED <<startVars, notes, lost, revoked, received>>
  BY DEF Handle
<1>4. ASSUME task' = [task EXCEPT ![h].pc = "broker"]
      PROVE  Becomes(h, "broker", t.inner, t.failed, t.outcome)
  <2>1. task' = [task EXCEPT ![h] = q("broker", t.inner)]
    BY <1>1, <1>4 DEF Task
  <2>2. t.inner \in BOOLEAN
    BY <1>1 DEF Task
  <2> QED BY <1>2, <2>1, <2>2
<1>5. ASSUME NEW f \in BOOLEAN, Finish(h, f)
      PROVE  Becomes(h, "leave", t.inner, f, t.outcome)
  BY <1>5, FinishBecomes
<1>6. CASE Call(h)
  <2>1. CASE m.tool = ""
    <3>1. Finish(h, TRUE) /\ FrameOf(t) = "call" /\ UNCHANGED brokerVars
      BY <1>1, <1>6, <2>1 DEF Call
    <3> QED BY <1>3, <1>5, <3>1
  <2>2. CASE m.tool # ""
    <3>1. FrameOf(t) = "call" /\ UNCHANGED brokerVars
          /\ task' = [task EXCEPT ![h].pc = "enter", ![h].inner = TRUE]
      BY <1>1, <1>6, <2>2 DEF Call
    <3>2. task' = [task EXCEPT ![h] = q("enter", TRUE)]
      BY <1>1, <3>1
    <3>3. Becomes(h, "enter", TRUE, t.failed, t.outcome)
      BY <1>2, <3>2
    <3> QED BY <1>3, <2>2, <3>1, <3>3
  <2> QED BY <2>1, <2>2
<1>7. CASE RequestCredential(h)
  <2>1. FrameOf(t) = "request"
    BY <1>1, <1>7 DEF RequestCredential
  <2>2. CASE /\ m.argument \in RequestTarget
             /\ Broker!IssueLease(h, m.argument, m.ttl)
             /\ task' = [task EXCEPT ![h].pc = "broker"]
    BY <1>3, <1>4, <2>1, <2>2
  <2>3. CASE Finish(h, TRUE) /\ UNCHANGED brokerVars
    BY <1>3, <1>5, <2>1, <2>3
  <2> QED BY <1>7, <2>2, <2>3 DEF RequestCredential
<1>8. CASE RevokeCredential(h)
  <2>1. FrameOf(t) = "revoke"
    BY <1>1, <1>8 DEF RevokeCredential
  <2>2. CASE /\ m.argument \in Lease /\ Broker!RevokeLease(h, m.argument)
             /\ task' = [task EXCEPT ![h].pc = "broker"]
    BY <1>3, <1>4, <2>1, <2>2
  <2>3. CASE /\ m.argument \in Lease /\ Broker!RevokeNothing(h, m.argument)
             /\ Finish(h, ~Broker!Recorded(m.argument))
    <3>1. Broker!Recorded(m.argument) \in BOOLEAN
      BY DEF Broker!Recorded
    <3> QED BY <1>3, <1>5, <2>1, <2>3, <3>1
  <2>4. CASE Finish(h, TRUE) /\ UNCHANGED brokerVars
    BY <1>3, <1>5, <2>1, <2>4
  <2> QED BY <1>8, <2>2, <2>3, <2>4 DEF RevokeCredential
<1>9. CASE Reply(h)
  BY <1>1, <1>3, <1>5, <1>9 DEF Reply
<1> QED BY <1>6, <1>7, <1>8, <1>9 DEF Handle

LEMMA InBrokerEffect ==
  ASSUME TypeOK, NEW h \in Caller, InBroker(h)
  PROVE  /\ task[h].pc = "broker" /\ UNCHANGED <<startVars, notes, lost, revoked, received>>
         /\ \/ Broker!Generate(h) \/ Broker!RecordLease(h)
            \/ Broker!DropCredential(h) \/ Broker!MarkRevoked(h)
         /\ \/ op'[h] # Broker!Idle /\ UNCHANGED task
            \/ /\ op'[h] = Broker!Idle
               /\ Becomes(h, "leave", task[h].inner, op[h].pc = "generate", task[h].outcome)
<1>1. (op[h].pc = "generate") \in BOOLEAN
  OBVIOUS
<1>2. CASE op'[h] # Broker!Idle
  BY <1>2 DEF InBroker
<1>3. CASE op'[h] = Broker!Idle
  <2>1. Finish(h, op[h].pc = "generate")
    BY <1>3 DEF InBroker
  <2>2. Becomes(h, "leave", task[h].inner, op[h].pc = "generate", task[h].outcome)
    BY <1>1, <2>1, FinishBecomes
  <2> QED BY <1>3, <2>2 DEF InBroker
<1> QED BY <1>2, <1>3

LEMMA LeaveEffect ==
  ASSUME TypeOK, NEW h \in Caller, Leave(h)
  PROVE  LET t == task[h] IN
         /\ t.pc = "leave" /\ UNCHANGED <<brokerVars, startVars, revoked, received>>
         /\ \/ /\ t.failed
               /\ Becomes(h, "return", t.inner, t.failed, "error") /\ UNCHANGED <<notes, lost>>
            \/ /\ ~t.failed /\ t.outcome = "none"
               /\ Becomes(h, "return", t.inner, t.failed, "result")
               /\ Recording("response", FrameOf(t))
            \/ /\ ~t.failed /\ t.outcome # "none"
               /\ Becomes(h, "return", t.inner, t.failed, t.outcome)
               /\ Recording("response", FrameOf(t))
<1> DEFINE t == task[h]
           r == [t EXCEPT !.pc = "return", !.outcome = IF t.failed THEN "error"
                                                       ELSE IF @ = "none" THEN "result" ELSE @]
<1>1. task \in [Caller -> Task] /\ t \in Task /\ Frame(h) = FrameOf(t)
  BY FrameIs DEF TypeOK
<1>2. /\ r \in Task /\ r.message = t.message /\ r.pc = "return"
      /\ r.inner = t.inner /\ r.failed = t.failed
      /\ r.outcome = IF t.failed THEN "error" ELSE IF t.outcome = "none" THEN "result" ELSE t.outcome
  BY <1>1 DEF Task
<1>3. task' = [task EXCEPT ![h] = r]
  BY <1>1 DEF Leave
<1> HIDE DEF r
<1>4. Touches(h) /\ task'[h] = r
  BY <1>2, <1>3, UpdateTask
<1>5. t.pc = "leave" /\ UNCHANGED <<brokerVars, startVars, revoked, received>>
  BY DEF Leave
<1>6. t.failed \in BOOLEAN
  BY <1>1 DEF Task
<1>7. CASE t.failed
  <2>1. UNCHANGED <<notes, lost>>
    BY <1>7 DEF Leave
  <2>2. Becomes(h, "return", t.inner, t.failed, "error")
    BY <1>2, <1>4, <1>7 DEF Becomes
  <2> QED BY <1>5, <1>7, <2>1, <2>2
<1>8. CASE ~t.failed
  <2>1. Recording("response", FrameOf(t))
    BY <1>1, <1>8 DEF Leave, Record, Recording
  <2>2. CASE t.outcome = "none"
    <3>1. Becomes(h, "return", t.inner, t.failed, "result")
      BY <1>2, <1>4, <1>8, <2>2 DEF Becomes
    <3> QED BY <1>5, <1>8, <2>1, <2>2, <3>1
  <2>3. CASE t.outcome # "none"
    <3>1. Becomes(h, "return", t.inner, t.failed, t.outcome)
      BY <1>2, <1>4, <1>8, <2>3 DEF Becomes
    <3> QED BY <1>5, <1>8, <2>1, <2>3, <3>1
  <2> QED BY <2>2, <2>3
<1> QED BY <1>6, <1>7, <1>8

LEMMA ReturnEffect ==
  ASSUME TypeOK, NEW h \in Caller, Return(h)
  PROVE  LET t == task[h] IN
         /\ t.pc = "return" /\ UNCHANGED <<brokerVars, startVars, notes, lost, revoked, received>>
         /\ \/ t.inner /\ Becomes(h, "leave", FALSE, FALSE, t.outcome)
            \/ ~t.inner /\ Becomes(h, "answer", t.inner, t.failed, t.outcome)
<1> DEFINE t == task[h]
           r == IF t.inner THEN [t EXCEPT !.pc = "leave", !.inner = FALSE, !.failed = FALSE]
                ELSE [t EXCEPT !.pc = "answer"]
<1>1. task \in [Caller -> Task] /\ t \in Task
  BY DEF TypeOK
<1>2. /\ r \in Task /\ r.message = t.message /\ r.outcome = t.outcome
      /\ t.inner => r.pc = "leave" /\ r.inner = FALSE /\ r.failed = FALSE
      /\ ~t.inner => r.pc = "answer" /\ r.inner = t.inner /\ r.failed = t.failed
  BY <1>1 DEF Task
<1>3. task' = [task EXCEPT ![h] = r]
  BY <1>1 DEF Return
<1> HIDE DEF r
<1>4. Touches(h) /\ task'[h] = r
  BY <1>2, <1>3, UpdateTask
<1>5. t.pc = "return" /\ UNCHANGED <<brokerVars, startVars, notes, lost, revoked, received>>
  BY DEF Return
<1>6. CASE t.inner
  <2>1. Becomes(h, "leave", FALSE, FALSE, t.outcome)
    BY <1>2, <1>4, <1>6 DEF Becomes
  <2> QED BY <1>5, <1>6, <2>1
<1>7. CASE ~t.inner
  <2>1. Becomes(h, "answer", t.inner, t.failed, t.outcome)
    BY <1>2, <1>4, <1>7 DEF Becomes
  <2> QED BY <1>5, <1>7, <2>1
<1> QED BY <1>6, <1>7

-------------------------------------------------------------------------------
\* The dispatcher: the parts of the invariant that are about tasks and records.

DispatchInv == Flow /\ ScreenInv /\ RecordsInv

\* A handler at work takes a step that fits its own part of the invariant.
LEMMA Moves ==
  ASSUME DispatchInv, NEW h \in Caller, Touches(h),
         UNCHANGED <<startVars, revoked, received>>,
         task[h].pc # "idle", TaskOK(task'[h]),
         server.guard => Screened(task'[h], server.policy),
         notes' \in Seq(Note), lost' \in BOOLEAN, lost => lost',
         h = Main /\ server.audit /\ ~lost' => Tells(task'[h], notes')
  PROVE  DispatchInv'
<1>1. /\ boot' = boot /\ server' = server /\ revoked' = revoked /\ received' = received
      /\ task' \in [Caller -> Task] /\ \A k \in Caller \ {h} : task'[k] = task[k]
  BY DEF startVars, Touches
<1>2. Flow /\ ScreenInv /\ RecordsInv
  BY DEF DispatchInv
<1>3. server.mode # "none" /\ h \in Handlers
  BY <1>2 DEF Flow
<1>4. TypeOK'
  BY <1>1, <1>2 DEF Flow, TypeOK
<1>5. Handlers' = Handlers
  BY <1>1 DEF Handlers
<1>6. server.pc \in {"shutdown", "exited"} => h # Main
  BY <1>2 DEF Flow
<1>7. Flow'
  <2>1. \A k \in Caller : TaskOK(task'[k])
    BY <1>1, <1>2 DEF Flow
  <2>2. \A k \in Caller : task'[k].pc # "idle" => server.mode # "none" /\ k \in Handlers
    BY <1>1, <1>2, <1>3 DEF Flow
  <2>3. server.pc \in {"shutdown", "exited"} => task'[Main].pc = "idle"
    BY <1>1, <1>2, <1>6, StandaloneAssumption DEF Flow
  <2> QED BY <1>1, <1>2, <1>4, <1>5, <2>1, <2>2, <2>3 DEF Flow
<1>8. ScreenInv'
  BY <1>1, <1>2 DEF ScreenInv
<1>9. RecordsInv'
  <2>1. CASE h = Main
    BY <1>1, <1>2, <2>1 DEF RecordsInv
  <2>2. CASE h # Main
    <3>1. ~server.audit
      BY <1>2, <1>3, <2>2 DEF Flow, Handlers
    <3> QED BY <1>1, <3>1 DEF RecordsInv
  <2> QED BY <2>1, <2>2
<1> QED BY <1>7, <1>8, <1>9 DEF DispatchInv

LEMMA AppendFacts ==
  ASSUME NEW a, NEW b, NEW c, NEW d
  PROVE  /\ Append(<<>>, a) = <<a>> /\ Append(<<a>>, b) = <<a, b>>
         /\ Append(<<a, b>>, c) = <<a, b, c>> /\ Append(<<a, b, c>>, d) = <<a, b, c, d>>
<1> DEFINE S == {a, b, c, d}
<1>1. Append(<<>>, a) = <<a>>
  OBVIOUS
<1>2. Append(<<a>>, b) = <<a, b>>
  <2> DEFINE s == Append(<<a>>, b)
             u == <<a, b>>
  <2>1. <<a>> \in Seq(S)
    OBVIOUS
  <2>2. s \in Seq(S) /\ Len(s) = 2 /\ s[1] = a /\ s[2] = b
    BY <2>1
  <2>3. u \in Seq(S) /\ Len(u) = 2 /\ u[1] = a /\ u[2] = b
    OBVIOUS
  <2>4. s = u
    <3> HIDE DEF s, u
    <3>1. Len(s) = Len(u) /\ \A i \in 1 .. Len(s) : s[i] = u[i]
      BY <2>2, <2>3
    <3> QED BY <2>2, <2>3, <3>1, SeqEqual
  <2> QED BY <2>4
<1>3. Append(<<a, b>>, c) = <<a, b, c>>
  <2> DEFINE s == Append(<<a, b>>, c)
             u == <<a, b, c>>
  <2>1. <<a, b>> \in Seq(S)
    OBVIOUS
  <2>2. s \in Seq(S) /\ Len(s) = 3 /\ s[1] = a /\ s[2] = b /\ s[3] = c
    BY <2>1
  <2>3. u \in Seq(S) /\ Len(u) = 3 /\ u[1] = a /\ u[2] = b /\ u[3] = c
    OBVIOUS
  <2>4. s = u
    <3> HIDE DEF s, u
    <3>1. Len(s) = Len(u) /\ \A i \in 1 .. Len(s) : s[i] = u[i]
      BY <2>2, <2>3
    <3> QED BY <2>2, <2>3, <3>1, SeqEqual
  <2> QED BY <2>4
<1>4. Append(<<a, b, c>>, d) = <<a, b, c, d>>
  <2> DEFINE s == Append(<<a, b, c>>, d)
             u == <<a, b, c, d>>
  <2>1. <<a, b, c>> \in Seq(S)
    OBVIOUS
  <2>2. s \in Seq(S) /\ Len(s) = 4 /\ s[1] = a /\ s[2] = b /\ s[3] = c /\ s[4] = d
    BY <2>1
  <2>3. u \in Seq(S) /\ Len(u) = 4 /\ u[1] = a /\ u[2] = b /\ u[3] = c /\ u[4] = d
    OBVIOUS
  <2>4. s = u
    <3> HIDE DEF s, u
    <3>1. Len(s) = Len(u) /\ \A i \in 1 .. Len(s) : s[i] = u[i]
      BY <2>2, <2>3
    <3> QED BY <2>2, <2>3, <3>1, SeqEqual
  <2> QED BY <2>4
<1> QED BY <1>1, <1>2, <1>3, <1>4

LEMMA RecordingFits ==
  ASSUME TypeOK, NEW k \in {"request", "tool", "response"}, NEW x \in Known, Recording(k, x)
  PROVE  /\ notes' \in Seq(Note) /\ lost' \in BOOLEAN /\ (lost => lost')
         /\ server.audit /\ ~lost' => ~lost /\ notes' = Append(notes, [kind |-> k, method |-> x])
<1>1. notes \in Seq(Note) /\ lost \in BOOLEAN /\ [kind |-> k, method |-> x] \in Note
  BY DEF TypeOK, Note
<1>2. Append(notes, [kind |-> k, method |-> x]) \in Seq(Note)
  BY <1>1
<1> QED BY <1>1, <1>2 DEF Recording

\* The guardrails block what does not pass.
LEMMA BlockedIs ==
  ASSUME NEW h \in Caller, task[h].inner \in BOOLEAN
  PROVE  Blocked(h) <=> IF task[h].inner THEN ~PassesInner(task[h].message)
                        ELSE ~PassesOuter(task[h].message, server.policy)
  BY DEF Blocked, PassesInner, PassesOuter

\* The rules of the detector have weights above the threshold.
LEMMA Weights ==
  /\ Rule = 1 .. 9
  /\ Rules[1].weight = 95 /\ Rules[2].weight = 90 /\ Rules[3].weight = 80
  /\ Rules[4].weight = 85 /\ Rules[5].weight = 70 /\ Rules[6].weight = 80
  /\ Rules[7].weight = 95 /\ Rules[8].weight = 90 /\ Rules[9].weight = 85
  BY DEF Rules, Rule

Worst(r, matches) ==
    \A q \in matches : \/ Rules[q].weight < Rules[r].weight
                       \/ Rules[q].weight = Rules[r].weight /\ r <= q

\* One rule decides.
LEMMA WorstExists ==
  ASSUME NEW matches \in SUBSET Rule, matches # {}
  PROVE  \E r \in matches : Worst(r, matches)
<1>1. \A q \in matches : q \in 1 .. 9
  BY Weights
<1>2. CASE 1 \in matches
  BY <1>1, <1>2, Weights DEF Worst
<1>3. CASE 1 \notin matches /\ 7 \in matches
  BY <1>1, <1>3, Weights DEF Worst
<1>4. CASE matches \cap {1, 7} = {} /\ 2 \in matches
  BY <1>1, <1>4, Weights DEF Worst
<1>5. CASE matches \cap {1, 7, 2} = {} /\ 8 \in matches
  BY <1>1, <1>5, Weights DEF Worst
<1>6. CASE matches \cap {1, 7, 2, 8} = {} /\ 4 \in matches
  BY <1>1, <1>6, Weights DEF Worst
<1>7. CASE matches \cap {1, 7, 2, 8, 4} = {} /\ 9 \in matches
  BY <1>1, <1>7, Weights DEF Worst
<1>8. CASE matches \cap {1, 7, 2, 8, 4, 9} = {} /\ 3 \in matches
  BY <1>1, <1>8, Weights DEF Worst
<1>9. CASE matches \cap {1, 7, 2, 8, 4, 9, 3} = {} /\ 6 \in matches
  BY <1>1, <1>9, Weights DEF Worst
<1>10. CASE matches \cap {1, 7, 2, 8, 4, 9, 3, 6} = {}
  <2>1. \A q \in matches : q = 5
    BY <1>1, <1>10
  <2>2. 5 \in matches
    BY <2>1
  <2>3. Worst(5, matches)
    BY <2>1 DEF Worst
  <2> QED BY <2>2, <2>3
<1> QED BY <1>2, <1>3, <1>4, <1>5, <1>6, <1>7, <1>8, <1>9, <1>10

\* Every match counts: the score of a text is above the threshold unless no
\* rule matches it or one of its first Base64 words.
LEMMA DetectedIs ==
  ASSUME NEW t \in Text
  PROVE  Detected(t) <=> Suspect(t)
<1> DEFINE hidden == \E i \in DOMAIN t.words : i <= MaxWords /\ t.words[i] # {}
<1>1. t.matches \in SUBSET Rule
  BY DEF Text
<1>2. Suspect(t) <=> t.matches # {} \/ hidden
  BY DEF Suspect
<1>3. \/ PatternReport(t.matches).score = 0 /\ t.matches = {}
      \/ PatternReport(t.matches).score \in {70, 80, 85, 90, 95} /\ t.matches # {}
  <2>1. CASE t.matches = {}
    BY <2>1 DEF PatternReport, Nothing
  <2>2. CASE t.matches # {}
    <3> DEFINE w == CHOOSE r \in t.matches : Worst(r, t.matches)
    <3>1. w \in t.matches
      BY <1>1, <2>2, WorstExists
    <3>2. w \in 1 .. 9
      BY <1>1, <3>1, Weights
    <3>3. Rules[w].weight \in {70, 80, 85, 90, 95}
      <4> HIDE DEF w
      <4> QED BY <3>2, Weights
    <3>4. PatternReport(t.matches).score = Rules[w].weight
      BY <2>2 DEF PatternReport, Worst
    <3> QED BY <2>2, <3>3, <3>4
  <2> QED BY <2>1, <2>2
<1>4. Base64Report(t.words).score = IF hidden THEN 90 ELSE 0
  BY DEF Base64Report, Nothing
<1>5. ScanText(t).score = IF Base64Report(t.words).score > PatternReport(t.matches).score
                          THEN Base64Report(t.words).score ELSE PatternReport(t.matches).score
  BY DEF ScanText
<1>6. Detected(t) <=> ScanText(t).score >= 65
  BY DEF Detected, Threshold
<1> HIDE DEF hidden
<1>7. CASE ~hidden
  BY <1>2, <1>3, <1>4, <1>5, <1>6, <1>7
<1>8. CASE hidden
  BY <1>2, <1>3, <1>4, <1>5, <1>6, <1>8
<1> QED BY <1>7, <1>8

\* What the invariant says of the task of h.
LEMMA OfTask ==
  ASSUME DispatchInv, NEW h \in Caller
  PROVE  /\ TypeOK /\ task[h] \in Task /\ TaskOK(task[h])
         /\ notes \in Seq(Note) /\ lost \in BOOLEAN
         /\ server.guard => Screened(task[h], server.policy)
         /\ h = Main /\ server.audit /\ ~lost => Tells(task[h], notes)
  BY DEF DispatchInv, Flow, ScreenInv, RecordsInv, TypeOK

LEMMA EnterDispatch ==
  ASSUME DispatchInv, NEW h \in Caller, Enter(h)
  PROVE  DispatchInv'
<1> DEFINE t == task[h]
           m == t.message
           r == task'[h]
<1>1. /\ TypeOK /\ t \in Task /\ TaskOK(t) /\ notes \in Seq(Note) /\ lost \in BOOLEAN
      /\ server.guard => Screened(t, server.policy)
      /\ h = Main /\ server.audit /\ ~lost => Tells(t, notes)
  BY OfTask
<1>2. /\ t.inner \in BOOLEAN /\ t.outcome = "none" /\ t.pc = "enter"
      /\ t.inner => m.method = "call" /\ m.tool # ""
  BY <1>1 DEF TaskOK, Enter, Task
<1>3. UNCHANGED <<startVars, revoked, received>>
  BY DEF Enter
<1>4. CASE /\ FrameOf(t) \notin Known \/ (server.guard /\ Blocked(h))
           /\ \E o \in {"error", "refused"} :
                 /\ o = "refused" => server.guard /\ Blocked(h)
                 /\ Becomes(h, "return", t.inner, t.failed, o)
           /\ UNCHANGED <<notes, lost>>
  <2>1. PICK o \in {"error", "refused"} :
                 /\ o = "refused" => server.guard /\ Blocked(h)
                 /\ Becomes(h, "return", t.inner, t.failed, o)
    BY <1>4
  <2>2. /\ Touches(h) /\ r.message = m
        /\ r.pc = "return" /\ r.inner = t.inner /\ r.failed = t.failed /\ r.outcome = o
    BY <2>1 DEF Becomes, Touches
  <2>3. TaskOK(r)
    BY <1>2, <2>1, <2>2 DEF TaskOK
  <2>4. ASSUME server.guard PROVE Screened(r, server.policy)
    <3>1. o = "refused" => Offends(m, server.policy)
      <4>1. m.text \in Text /\ m.values \in Text /\ m.inner \in Text
        BY <1>1, MessageFacts DEF Task
      <4>2. o = "refused" => IF t.inner THEN ~PassesInner(m) ELSE ~PassesOuter(m, server.policy)
        BY <1>2, <2>1, BlockedIs
      <4> QED BY <1>2, <4>1, <4>2, DetectedIs DEF PassesInner, PassesOuter, ScanArguments, Offends
    <3> QED BY <1>1, <2>1, <2>2, <2>4, <3>1 DEF Screened
  <2>5. Tells(r, notes)
    BY <2>1, <2>2 DEF Tells
  <2> QED BY <1>1, <1>2, <1>3, <1>4, <2>2, <2>3, <2>4, <2>5, Moves
<1>5. CASE /\ FrameOf(t) \in Known /\ ~(server.guard /\ Blocked(h))
           /\ Becomes(h, "handle", t.inner, t.failed, t.outcome)
           /\ Recording(IF FrameOf(t) = "call" THEN "tool" ELSE "request", FrameOf(t))
  <2>1. /\ Touches(h) /\ r.message = m
        /\ r.pc = "handle" /\ r.inner = t.inner /\ r.failed = t.failed /\ r.outcome = t.outcome
    BY <1>5 DEF Becomes, Touches
  <2>2. FrameOf(r) = FrameOf(t)
    BY <2>1 DEF FrameOf
  <2>3. TaskOK(r)
    BY <1>2, <1>5, <2>1, <2>2 DEF TaskOK
  <2>4. ASSUME server.guard PROVE Screened(r, server.policy)
    <3>1. IF t.inner THEN PassesInner(m) ELSE PassesOuter(m, server.policy)
      BY <1>2, <1>5, <2>4, BlockedIs
    <3> QED BY <1>1, <1>2, <2>1, <2>4, <3>1 DEF Screened
  <2>5. /\ notes' \in Seq(Note) /\ lost' \in BOOLEAN /\ (lost => lost')
        /\ server.audit /\ ~lost' => ~lost /\ notes' = Append(notes, Req(FrameOf(t)))
    BY <1>1, <1>5, RecordingFits DEF Req
  <2>6. ASSUME h = Main, server.audit, ~lost' PROVE Tells(r, notes')
    <3>1. notes = IF t.inner THEN <<Req("call")>> ELSE <<>>
      BY <1>1, <1>2, <2>5, <2>6 DEF Tells
    <3>2. notes' = IF t.inner THEN <<Req("call"), Req(FrameOf(t))>> ELSE <<Req(FrameOf(t))>>
      BY <2>5, <2>6, <3>1, AppendFacts
    <3>3. notes' = IF r.inner THEN <<Req("call"), Req(r.message.tool)>> ELSE <<Req(r.message.method)>>
      BY <1>2, <2>1, <3>2 DEF FrameOf
    <3> QED BY <1>2, <2>1, <3>3 DEF Tells
  <2>7. t.pc # "idle"
    BY <1>2
  <2>8. Touches(h)
    BY <2>1
  <2>9. notes' \in Seq(Note) /\ lost' \in BOOLEAN /\ (lost => lost')
    BY <2>5
  <2> HIDE DEF r
  <2> QED BY ONLY DispatchInv, h \in Caller, <1>3, <2>3, <2>4, <2>6, <2>7, <2>8, <2>9, Moves DEF r
<1> QED BY <1>1, <1>4, <1>5, EnterEffect

LEMMA HandleDispatch ==
  ASSUME DispatchInv, NEW h \in Caller, Handle(h)
  PROVE  DispatchInv'
<1> DEFINE t == task[h]
           m == t.message
           r == task'[h]
<1>1. /\ TypeOK /\ t \in Task /\ TaskOK(t) /\ notes \in Seq(Note) /\ lost \in BOOLEAN
      /\ server.guard => Screened(t, server.policy)
      /\ h = Main /\ server.audit /\ ~lost => Tells(t, notes)
  BY OfTask
<1>2. /\ t.inner \in BOOLEAN /\ t.outcome = "none" /\ t.pc = "handle" /\ FrameOf(t) \in Known
      /\ t.inner => m.method = "call" /\ m.tool # ""
  BY <1>1 DEF TaskOK, Handle, Task
<1>3. UNCHANGED <<startVars, notes, lost, revoked, received>>
  BY DEF Handle
<1>4. CASE /\ FrameOf(t) = "call" /\ m.tool # ""
           /\ Becomes(h, "enter", TRUE, t.failed, t.outcome)
  <2>1. /\ Touches(h) /\ r.message = m
        /\ r.pc = "enter" /\ r.inner = TRUE /\ r.failed = t.failed /\ r.outcome = t.outcome
    BY <1>4 DEF Becomes, Touches
  <2>2. ~t.inner /\ m.method = "call"
    BY <1>1, <1>4, FrameFacts
  <2>3. TaskOK(r)
    BY <1>2, <1>4, <2>1, <2>2 DEF TaskOK
  <2>4. ASSUME server.guard PROVE Screened(r, server.policy)
    BY <1>1, <1>2, <2>1, <2>4 DEF Screened
  <2>5. ASSUME h = Main, server.audit, ~lost PROVE Tells(r, notes)
    BY <1>1, <1>2, <2>1, <2>2, <2>5 DEF Tells
  <2> QED BY <1>1, <1>2, <1>3, <2>1, <2>3, <2>4, <2>5, Moves
<1>5. CASE \E f \in BOOLEAN : /\ FrameOf(t) = "call" => f
                              /\ Becomes(h, "leave", t.inner, f, t.outcome)
  <2>1. PICK f \in BOOLEAN : /\ FrameOf(t) = "call" => f
                             /\ Becomes(h, "leave", t.inner, f, t.outcome)
    BY <1>5
  <2>2. /\ Touches(h) /\ r.message = m
        /\ r.pc = "leave" /\ r.inner = t.inner /\ r.failed = f /\ r.outcome = t.outcome
    BY <2>1 DEF Becomes, Touches
  <2>3. FrameOf(r) = FrameOf(t)
    BY <2>2 DEF FrameOf
  <2>4. TaskOK(r)
    BY <1>2, <2>1, <2>2, <2>3 DEF TaskOK
  <2>5. ASSUME server.guard PROVE Screened(r, server.policy)
    BY <1>1, <1>2, <2>2, <2>5 DEF Screened
  <2>6. ASSUME h = Main, server.audit, ~lost PROVE Tells(r, notes)
    BY <1>1, <1>2, <2>2, <2>6 DEF Tells
  <2>7. notes' = notes /\ lost' = lost /\ t.pc # "idle" /\ UNCHANGED <<startVars, revoked, received>>
    BY <1>2, <1>3
  <2> QED BY ONLY DispatchInv, <1>1, <2>2, <2>4, <2>5, <2>6, <2>7, Moves
<1>6. CASE /\ FrameOf(t) \in {"request", "revoke"}
           /\ Becomes(h, "broker", t.inner, t.failed, t.outcome)
  <2>1. /\ Touches(h) /\ r.message = m
        /\ r.pc = "broker" /\ r.inner = t.inner /\ r.failed = t.failed /\ r.outcome = t.outcome
    BY <1>6 DEF Becomes, Touches
  <2>2. FrameOf(r) = FrameOf(t)
    BY <2>1 DEF FrameOf
  <2>3. TaskOK(r)
    BY <1>2, <1>6, <2>1, <2>2 DEF TaskOK
  <2>4. ASSUME server.guard PROVE Screened(r, server.policy)
    BY <1>1, <1>2, <2>1, <2>4 DEF Screened
  <2>5. ASSUME h = Main, server.audit, ~lost PROVE Tells(r, notes)
    BY <1>1, <1>2, <2>1, <2>5 DEF Tells
  <2> QED BY <1>1, <1>2, <1>3, <2>1, <2>3, <2>4, <2>5, Moves
<1>7. \A l : Broker!Recorded(l) \in BOOLEAN
  BY DEF Broker!Recorded
<1> QED BY <1>1, <1>4, <1>5, <1>6, <1>7, HandleEffect

LEMMA InBrokerDispatch ==
  ASSUME DispatchInv, NEW h \in Caller, InBroker(h)
  PROVE  DispatchInv'
<1> DEFINE t == task[h]
           m == t.message
           r == task'[h]
           f == op[h].pc = "generate"
<1>1. /\ TypeOK /\ t \in Task /\ TaskOK(t) /\ notes \in Seq(Note) /\ lost \in BOOLEAN
      /\ server.guard => Screened(t, server.policy)
      /\ h = Main /\ server.audit /\ ~lost => Tells(t, notes)
  BY OfTask
<1>2. /\ t.inner \in BOOLEAN /\ t.outcome = "none" /\ t.pc = "broker"
      /\ FrameOf(t) \in {"request", "revoke"} /\ FrameOf(t) \in Known
      /\ t.inner => m.method = "call" /\ m.tool # ""
  BY <1>1 DEF TaskOK, InBroker, Task
<1>3. notes' = notes /\ lost' = lost /\ t.pc # "idle" /\ UNCHANGED <<startVars, revoked, received>>
  BY <1>2 DEF InBroker
<1>4. CASE UNCHANGED task
  BY <1>3, <1>4 DEF DispatchInv, Flow, ScreenInv, RecordsInv, TypeOK, Handlers, startVars
<1>5. CASE Becomes(h, "leave", t.inner, f, t.outcome)
  <2>1. /\ Touches(h) /\ r.message = m
        /\ r.pc = "leave" /\ r.inner = t.inner /\ r.failed = f /\ r.outcome = t.outcome
    BY <1>5 DEF Becomes, Touches
  <2>2. FrameOf(r) = FrameOf(t)
    BY <2>1 DEF FrameOf
  <2>3. TaskOK(r)
    BY <1>2, <2>1, <2>2 DEF TaskOK
  <2>4. ASSUME server.guard PROVE Screened(r, server.policy)
    BY <1>1, <1>2, <2>1, <2>4 DEF Screened
  <2>5. ASSUME h = Main, server.audit, ~lost PROVE Tells(r, notes)
    BY <1>1, <1>2, <2>1, <2>5 DEF Tells
  <2> QED BY ONLY DispatchInv, <1>1, <1>3, <2>1, <2>3, <2>4, <2>5, Moves
<1> QED BY <1>1, <1>4, <1>5, InBrokerEffect

LEMMA LeaveDispatch ==
  ASSUME DispatchInv, NEW h \in Caller, Leave(h)
  PROVE  DispatchInv'
<1> DEFINE t == task[h]
           m == t.message
           r == task'[h]
<1>1. /\ TypeOK /\ t \in Task /\ TaskOK(t) /\ notes \in Seq(Note) /\ lost \in BOOLEAN
      /\ server.guard => Screened(t, server.policy)
      /\ h = Main /\ server.audit /\ ~lost => Tells(t, notes)
  BY OfTask
<1>2. /\ t.inner \in BOOLEAN /\ t.pc = "leave" /\ FrameOf(t) \in Known
      /\ t.inner => m.method = "call" /\ m.tool # ""
  BY <1>1 DEF TaskOK, Leave, Task
<1>3. t.pc # "idle" /\ UNCHANGED <<startVars, revoked, received>>
  BY <1>2 DEF Leave
<1>4. ASSUME NEW o \in {"error", "result", "refused"},
             Becomes(h, "return", t.inner, t.failed, o),
             o = "refused" => t.outcome = "refused",
             notes' \in Seq(Note), lost' \in BOOLEAN, lost => lost',
             o = "result" /\ h = Main /\ server.audit /\ ~lost' =>
                 IF t.inner THEN notes' = <<Req("call"), Req(m.tool), Resp(m.tool)>>
                 ELSE \/ notes' = <<Req(m.method), Resp(m.method)>>
                      \/ notes' = <<Req("call"), Req(m.tool), Resp(m.tool), Resp("call")>>
      PROVE  DispatchInv'
  <2>1. /\ Touches(h) /\ r.message = m
        /\ r.pc = "return" /\ r.inner = t.inner /\ r.failed = t.failed /\ r.outcome = o
    BY <1>4 DEF Becomes, Touches
  <2>2. TaskOK(r)
    BY <1>2, <1>4, <2>1 DEF TaskOK
  <2>3. ASSUME server.guard PROVE Screened(r, server.policy)
    BY <1>1, <1>4, <2>1, <2>3 DEF Screened
  <2>4. ASSUME h = Main, server.audit, ~lost' PROVE Tells(r, notes')
    BY <1>4, <2>1, <2>4 DEF Tells
  <2>5. Touches(h)
    BY <2>1
  <2> HIDE DEF r
  <2> QED BY ONLY DispatchInv, h \in Caller, <1>3, <1>4, <2>2, <2>3, <2>4, <2>5, Moves DEF r
<1>5. CASE /\ t.failed
           /\ Becomes(h, "return", t.inner, t.failed, "error") /\ UNCHANGED <<notes, lost>>
  BY <1>1, <1>4, <1>5
<1>6. ASSUME Recording("response", FrameOf(t))
      PROVE  /\ notes' \in Seq(Note) /\ lost' \in BOOLEAN /\ (lost => lost')
             /\ server.audit /\ ~lost' => ~lost /\ notes' = Append(notes, Resp(FrameOf(t)))
  BY <1>1, <1>2, <1>6, RecordingFits DEF Resp
<1>7. CASE /\ ~t.failed /\ t.outcome = "none"
           /\ Becomes(h, "return", t.inner, t.failed, "result")
           /\ Recording("response", FrameOf(t))
  <2>1. /\ notes' \in Seq(Note) /\ lost' \in BOOLEAN /\ (lost => lost')
        /\ server.audit /\ ~lost' => ~lost /\ notes' = Append(notes, Resp(FrameOf(t)))
    BY <1>6, <1>7
  <2>2. ASSUME h = Main, server.audit, ~lost'
        PROVE  IF t.inner THEN notes' = <<Req("call"), Req(m.tool), Resp(m.tool)>>
               ELSE notes' = <<Req(m.method), Resp(m.method)>>
    <3>1. notes = IF t.inner THEN <<Req("call"), Req(m.tool)>> ELSE <<Req(m.method)>>
      BY <1>1, <1>2, <1>7, <2>1, <2>2 DEF Tells
    <3>2. FrameOf(t) = IF t.inner THEN m.tool ELSE m.method
      BY DEF FrameOf
    <3> QED BY <2>1, <2>2, <3>1, <3>2, AppendFacts
  <2> QED BY <1>4, <1>7, <2>1, <2>2
<1>8. CASE /\ ~t.failed /\ t.outcome # "none"
           /\ Becomes(h, "return", t.inner, t.failed, t.outcome)
           /\ Recording("response", FrameOf(t))
  <2>1. /\ notes' \in Seq(Note) /\ lost' \in BOOLEAN /\ (lost => lost')
        /\ server.audit /\ ~lost' => ~lost /\ notes' = Append(notes, Resp(FrameOf(t)))
    BY <1>6, <1>8
  <2>2. FrameOf(t) = "call" /\ ~t.inner
    BY <1>1, <1>2, <1>8, FrameFacts DEF TaskOK
  <2>3. t.outcome \in {"error", "result", "refused"}
    BY <1>1, <1>8 DEF Task
  <2>4. ASSUME t.outcome = "result", h = Main, server.audit, ~lost'
        PROVE  notes' = <<Req("call"), Req(m.tool), Resp(m.tool), Resp("call")>>
    <3>1. notes = <<Req("call"), Req(m.tool), Resp(m.tool)>>
      BY <1>1, <1>2, <2>1, <2>4 DEF Tells
    <3> QED BY <2>1, <2>2, <2>4, <3>1, AppendFacts
  <2> QED BY <1>4, <1>8, <2>1, <2>2, <2>3, <2>4
<1> QED BY <1>1, <1>5, <1>7, <1>8, LeaveEffect

LEMMA ReturnDispatch ==
  ASSUME DispatchInv, NEW h \in Caller, Return(h)
  PROVE  DispatchInv'
<1> DEFINE t == task[h]
           m == t.message
           r == task'[h]
<1>1. /\ TypeOK /\ t \in Task /\ TaskOK(t) /\ notes \in Seq(Note) /\ lost \in BOOLEAN
      /\ server.guard => Screened(t, server.policy)
      /\ h = Main /\ server.audit /\ ~lost => Tells(t, notes)
  BY OfTask
<1>2. /\ t.inner \in BOOLEAN /\ t.pc = "return" /\ t.outcome # "none"
      /\ t.inner => m.method = "call" /\ m.tool # ""
  BY <1>1 DEF TaskOK, Return, Task
<1>3. notes' = notes /\ lost' = lost /\ t.pc # "idle" /\ UNCHANGED <<startVars, revoked, received>>
  BY <1>2 DEF Return
<1>4. CASE t.inner /\ Becomes(h, "leave", FALSE, FALSE, t.outcome)
  <2>1. /\ Touches(h) /\ r.message = m
        /\ r.pc = "leave" /\ r.inner = FALSE /\ r.failed = FALSE /\ r.outcome = t.outcome
    BY <1>4 DEF Becomes, Touches
  <2>2. FrameOf(r) = "call" /\ "call" \in Known
    BY <1>2, <1>4, <2>1 DEF FrameOf, Known
  <2>3. TaskOK(r)
    BY <1>2, <2>1, <2>2 DEF TaskOK
  <2>4. ASSUME server.guard PROVE Screened(r, server.policy)
    BY <1>1, <2>1, <2>4 DEF Screened
  <2>5. ASSUME h = Main, server.audit, ~lost PROVE Tells(r, notes)
    BY <1>1, <1>2, <1>4, <2>1, <2>5 DEF Tells
  <2> QED BY ONLY DispatchInv, <1>1, <1>3, <2>1, <2>3, <2>4, <2>5, Moves
<1>5. CASE ~t.inner /\ Becomes(h, "answer", t.inner, t.failed, t.outcome)
  <2>1. /\ Touches(h) /\ r.message = m
        /\ r.pc = "answer" /\ ~r.inner /\ r.failed = t.failed /\ r.outcome = t.outcome
    BY <1>5 DEF Becomes, Touches
  <2>2. TaskOK(r)
    BY <1>2, <2>1 DEF TaskOK
  <2>3. ASSUME server.guard PROVE Screened(r, server.policy)
    BY <1>1, <2>1, <2>3 DEF Screened
  <2>4. ASSUME h = Main, server.audit, ~lost PROVE Tells(r, notes)
    BY <1>1, <1>2, <1>5, <2>1, <2>4 DEF Tells
  <2> QED BY ONLY DispatchInv, <1>1, <1>3, <2>1, <2>2, <2>3, <2>4, Moves
<1> QED BY <1>1, <1>4, <1>5, ReturnEffect

LEMMA FreeFacts ==
  /\ Free \in Task /\ Free.pc = "idle" /\ ~Free.inner /\ Free.outcome = "none" /\ ~Free.failed
  /\ TaskOK(Free) /\ (\A p : Screened(Free, p)) /\ \A n : Tells(Free, n)
<1>1. NoMessage \in Messages
  BY StandaloneAssumption DEF NoMessage
<1>2. Free \in Task /\ Free.pc = "idle" /\ ~Free.inner /\ Free.outcome = "none" /\ ~Free.failed
  BY <1>1 DEF Free, Task
<1> QED BY <1>2 DEF TaskOK, Screened, Tells

LEMMA ReceiveEffect ==
  ASSUME TypeOK, NEW h \in Caller, NEW m \in Messages, Receive(h, m)
  PROVE  /\ server.pc = "serving" /\ h \in Handlers /\ task[h].pc = "idle"
         /\ received' = received + 1 /\ received' \in 0 .. MaxMessages
         /\ UNCHANGED <<brokerVars, boot, lost, revoked>>
         /\ \/ UNCHANGED <<task, notes>>
            \/ /\ task' = [task EXCEPT ![h] = [Free EXCEPT !.pc = "enter", !.message = m]]
               /\ notes' = <<>>
         /\ \/ UNCHANGED server
            \/ /\ server.mode = "stdio" /\ server' = [server EXCEPT !.pc = "shutdown"]
               /\ UNCHANGED task
<1>1. received \in 0 .. MaxMessages /\ MaxMessages \in Nat
  BY StandaloneAssumption DEF TypeOK
<1>2. /\ server.pc = "serving" /\ h \in Handlers /\ task[h].pc = "idle"
      /\ received < MaxMessages /\ received' = received + 1
      /\ UNCHANGED <<brokerVars, boot, lost, revoked>>
  BY DEF Receive
<1>3. received' \in 0 .. MaxMessages
  BY <1>1, <1>2
<1>4. CASE m.method \in {"note", "garbage"}
  BY <1>2, <1>3, <1>4 DEF Receive
<1>5. CASE m.method \notin {"note", "garbage"}
  BY <1>2, <1>3, <1>5 DEF Receive
<1> QED BY <1>4, <1>5

LEMMA ReceiveDispatch ==
  ASSUME DispatchInv, NEW h \in Caller, NEW m \in Messages, Receive(h, m)
  PROVE  DispatchInv'
<1> DEFINE r == [Free EXCEPT !.pc = "enter", !.message = m]
<1>1. Flow /\ ScreenInv /\ RecordsInv /\ TypeOK
  BY DEF DispatchInv, Flow
<1>2. /\ server.pc = "serving" /\ h \in Handlers /\ task[h].pc = "idle"
      /\ received' \in 0 .. MaxMessages
      /\ boot' = boot /\ lost' = lost /\ revoked' = revoked
      /\ \/ UNCHANGED <<task, notes>>
         \/ task' = [task EXCEPT ![h] = r] /\ notes' = <<>>
      /\ \/ UNCHANGED server
         \/ /\ server.mode = "stdio" /\ server' = [server EXCEPT !.pc = "shutdown"]
            /\ UNCHANGED task
  BY <1>1, ReceiveEffect
<1>3. /\ r \in Task /\ r.pc = "enter" /\ ~r.inner /\ r.outcome = "none"
  BY FreeFacts DEF Task
<1>4. TaskOK(r) /\ Screened(r, server.policy) /\ Tells(r, <<>>)
  BY <1>3 DEF TaskOK, Screened, Tells
<1> HIDE DEF r
<1>5. server.mode # "none"
  BY <1>1, <1>2 DEF Flow
<1>6. /\ server'.mode = server.mode /\ server'.guard = server.guard
      /\ server'.policy = server.policy /\ server'.audit = server.audit
      /\ server' \in [pc: {"boot", "serving", "draining", "shutdown", "exited"},
                      mode: {"none", "stdio", "sse"}, guard: BOOLEAN, policy: BOOLEAN,
                      audit: BOOLEAN]
      /\ server'.pc \in {"serving", "shutdown"}
      /\ server'.pc = "shutdown" => server.mode = "stdio" /\ task' = task
  BY <1>1, <1>2 DEF TypeOK
<1>7. Handlers' = Handlers
  BY <1>6 DEF Handlers
<1>8. /\ task' \in [Caller -> Task] /\ notes' \in Seq(Note)
      /\ \A k \in Caller : task'[k] = task[k] \/ (k = h /\ task'[k] = r)
      /\ task' # task => notes' = <<>> /\ task'[h] = r /\ \A k \in Caller \ {h} : task'[k] = task[k]
      /\ task' = task => notes' = notes \/ notes' = <<>>
  <2>1. task \in [Caller -> Task] /\ notes \in Seq(Note) /\ <<>> \in Seq(Note)
    BY <1>1 DEF TypeOK
  <2>2. CASE UNCHANGED <<task, notes>>
    BY <2>1, <2>2
  <2>3. CASE task' = [task EXCEPT ![h] = r] /\ notes' = <<>>
    BY <1>3, <2>1, <2>3
  <2> QED BY <1>2, <2>2, <2>3
<1>9. Flow'
  <2>1. TypeOK'
    BY <1>1, <1>2, <1>6, <1>8 DEF TypeOK
  <2>2. \A k \in Caller : TaskOK(task'[k])
    BY <1>1, <1>4, <1>8 DEF Flow
  <2>3. \A k \in Caller : task'[k].pc # "idle" => server.mode # "none" /\ k \in Handlers
    BY <1>1, <1>2, <1>5, <1>8 DEF Flow
  <2>4. server'.pc = "shutdown" => task'[Main].pc = "idle"
    BY <1>2, <1>6 DEF Handlers
  <2>5. boot.pc = "done"
    BY <1>1, <1>2 DEF Flow
  <2>6. server.audit \/ server.guard => server.mode = "stdio"
    BY <1>1 DEF Flow
  <2>7. /\ server'.pc \notin {"boot", "exited", "draining"} /\ server'.mode # "none"
        /\ boot'.pc = "done" /\ (server'.audit \/ server'.guard => server'.mode = "stdio")
    BY <1>2, <1>5, <1>6, <2>5, <2>6
  <2>8. \A k \in Caller : task'[k].pc # "idle" => server'.mode # "none" /\ k \in Handlers'
    BY <1>6, <1>7, <2>3
  <2> QED BY <2>1, <2>2, <2>4, <2>7, <2>8 DEF Flow
<1>10. ScreenInv'
  BY <1>1, <1>4, <1>6, <1>8 DEF ScreenInv
<1>11. RecordsInv'
  <2>1. CASE server.mode = "stdio" /\ task' # task
    <3>1. h = Main
      BY <1>2, <2>1 DEF Handlers
    <3> QED BY <1>4, <1>8, <2>1, <3>1 DEF RecordsInv
  <2>2. CASE server.mode = "stdio" /\ task' = task
    <3>1. h = Main
      BY <1>2, <2>2 DEF Handlers
    <3>2. TaskOK(task[Main]) /\ task[Main].pc = "idle"
      BY <1>1, <1>2, <3>1 DEF Flow
    <3>3. \A n : Tells(task[Main], n)
      BY <3>2 DEF TaskOK, Tells
    <3> QED BY <2>2, <3>3 DEF RecordsInv
  <2>3. CASE server.mode # "stdio"
    BY <1>1, <1>6, <2>3 DEF RecordsInv, Flow
  <2> QED BY <2>1, <2>2, <2>3
<1> QED BY <1>9, <1>10, <1>11 DEF DispatchInv

LEMMA AnswerDispatch ==
  ASSUME DispatchInv, NEW h \in Caller, Answer(h)
  PROVE  DispatchInv'
<1>1. Flow /\ ScreenInv /\ RecordsInv /\ TypeOK
  BY DEF DispatchInv, Flow
<1>2. /\ task[h].pc = "answer" /\ task' = [task EXCEPT ![h] = Free] /\ notes' = <<>>
      /\ boot' = boot /\ lost' = lost /\ received' = received
      /\ revoked' = revoked \cup ToldRevoked(h) \/ revoked' = revoked
      /\ \/ UNCHANGED server
         \/ server.mode = "stdio" /\ server' = [server EXCEPT !.pc = "shutdown"]
  BY DEF Answer
<1>3. server.mode # "none" /\ h \in Handlers
  BY <1>1, <1>2 DEF Flow
<1>4. /\ server'.mode = server.mode /\ server'.guard = server.guard
      /\ server'.policy = server.policy /\ server'.audit = server.audit
      /\ server' \in [pc: {"boot", "serving", "draining", "shutdown", "exited"},
                      mode: {"none", "stdio", "sse"}, guard: BOOLEAN, policy: BOOLEAN,
                      audit: BOOLEAN]
      /\ server'.pc = server.pc \/ (server'.pc = "shutdown" /\ server.mode = "stdio")
  BY <1>1, <1>2 DEF TypeOK
<1>5. Handlers' = Handlers
  BY <1>4 DEF Handlers
<1>6. /\ task' \in [Caller -> Task] /\ task'[h] = Free
      /\ \A k \in Caller \ {h} : task'[k] = task[k]
  BY <1>1, <1>2, FreeFacts DEF TypeOK
<1>7. revoked' \subseteq Lease
  BY <1>1, <1>2 DEF TypeOK, ToldRevoked
<1>8. Flow'
  <2>1. TypeOK'
    <3>1. <<>> \in Seq(Note)
      OBVIOUS
    <3> QED BY <1>1, <1>2, <1>4, <1>6, <1>7, <3>1 DEF TypeOK
  <2>2. \A k \in Caller : TaskOK(task'[k])
    BY <1>1, <1>6, FreeFacts DEF Flow
  <2>3. \A k \in Caller : task'[k].pc # "idle" => server'.mode # "none" /\ k \in Handlers'
    BY <1>1, <1>3, <1>4, <1>5, <1>6, FreeFacts DEF Flow
  <2>4. server'.pc \in {"shutdown", "exited"} => task'[Main].pc = "idle"
    <3>1. CASE server.mode = "stdio"
      BY <1>3, <1>6, <3>1, FreeFacts DEF Handlers
    <3>2. CASE server.mode # "stdio"
      <4>1. server.mode = "sse" /\ server'.pc = server.pc
        BY <1>1, <1>3, <1>4, <3>2 DEF TypeOK
      <4>2. h # Main
        BY <1>3, <4>1 DEF Handlers
      <4> QED BY <1>1, <1>6, <4>1, <4>2, StandaloneAssumption DEF Flow
    <3> QED BY <3>1, <3>2
  <2>5. /\ server'.pc = "boot" => server'.mode = "none"
        /\ server'.pc = "draining" => server'.mode = "sse"
        /\ server'.mode # "none"
        /\ (server'.audit \/ server'.guard => server'.mode = "stdio")
    BY <1>1, <1>3, <1>4 DEF Flow
  <2>6. server'.pc # "boot" => boot'.pc = "done"
    BY <1>1, <1>2, <1>3 DEF Flow
  <2> QED BY <2>1, <2>2, <2>3, <2>4, <2>5, <2>6 DEF Flow
<1>9. ScreenInv'
  BY <1>1, <1>4, <1>6, FreeFacts DEF ScreenInv
<1>10. RecordsInv'
  <2>1. CASE h = Main
    BY <1>6, <2>1, FreeFacts DEF RecordsInv
  <2>2. CASE h # Main
    <3>1. ~server.audit
      BY <1>1, <1>3, <2>2 DEF Flow, Handlers
    <3> QED BY <1>4, <3>1 DEF RecordsInv
  <2> QED BY <2>1, <2>2
<1> QED BY <1>8, <1>9, <1>10 DEF DispatchInv

-------------------------------------------------------------------------------
\* The configuration.

\* What the layers say, as operators of the layers.
FlagsSay(flags, f) ==
    IF f = "command" /\ "argument" \in DOMAIN flags THEN {flags.argument}
    ELSE IF f = "downstream" /\ "url" \in DOMAIN flags THEN {"http"}
    ELSE {flags[g] : g \in {f} \cap DOMAIN flags}

EnvironmentSays(env, f) ==
    IF f \notin DOMAIN env \/ env[f] = "" THEN {}
    ELSE CASE f = "port" -> {Number[n] : n \in {env[f]} \cap DOMAIN Number}
           [] f \in {"masking", "guardrails", "audit"} ->
                 {(w \in {"true", "1", "yes", "on"}) :
                    w \in {env[f]} \cap {"true", "1", "yes", "on", "false", "0", "no", "off"}}
           [] f \in {"transport", "logLevel", "downstream"} -> {Lower(env[f])}
           [] OTHER -> {env[f]}

SaidByFile(file, f) == {file[g] : g \in {f} \cap DOMAIN file}

\* A value that S gives to a field that would have the value old otherwise.
Overrides(S, new, old) ==
    (S = {} => new = old) /\ (S # {} => new = CHOOSE v \in S : TRUE)

LEMMA Singleton == \A x : (CHOOSE v \in {x} : TRUE) = x
  OBVIOUS

LEMMA OverlayIs ==
  ASSUME NEW cfg, NEW layer
  PROVE  /\ DOMAIN Overlay(cfg, layer) = Field
         /\ \A f \in Field : Overlay(cfg, layer)[f] = IF f \in DOMAIN layer THEN layer[f] ELSE cfg[f]
  BY DEF Overlay

\* The file over the defaults.
LEMMA FileOverrides ==
  ASSUME NEW cfg, NEW file, NEW f \in Field
  PROVE  Overrides(SaidByFile(file, f), Overlay(cfg, file)[f], cfg[f])
<1>1. CASE f \in DOMAIN file
  <2>1. SaidByFile(file, f) = {file[f]}
    BY <1>1 DEF SaidByFile
  <2> QED BY <1>1, <2>1, OverlayIs, Singleton DEF Overrides
<1>2. CASE f \notin DOMAIN file
  <2>1. SaidByFile(file, f) = {}
    BY <1>2 DEF SaidByFile
  <2> QED BY <1>2, <2>1, OverlayIs DEF Overrides
<1> QED BY <1>1, <1>2

\* The environment over the file.
LEMMA EnvironmentOverrides ==
  ASSUME NEW cfg, NEW env, NEW f \in Field \ {"downstream"}
  PROVE  Overrides(EnvironmentSays(env, f), ApplyEnvOverrides(cfg, env)[f], cfg[f])
<1> DEFINE Over(g) == CASE g \in {"transport", "logLevel", "downstream"} -> Lower(env[g])
                        [] g = "port" -> IF env[g] \in DOMAIN Number THEN Number[env[g]] ELSE cfg[g]
                        [] g \in {"masking", "guardrails", "audit"} -> parseBoolSafe(env[g], cfg[g])
                        [] OTHER -> env[g]
           set == {g \in DOMAIN env : env[g] # ""}
           layer == [g \in set |-> Over(g)]
           S == EnvironmentSays(env, f)
           v == ApplyEnvOverrides(cfg, env)[f]
<1>1. v = Overlay(cfg, layer)[f]
  BY DEF ApplyEnvOverrides
<1>2. DOMAIN layer = set /\ (f \in set => layer[f] = Over(f))
  OBVIOUS
<1>3. v = IF f \in set THEN Over(f) ELSE cfg[f]
  <2> HIDE DEF layer, v, Over, set
  <2>1. Overlay(cfg, layer)[f] = IF f \in DOMAIN layer THEN layer[f] ELSE cfg[f]
    BY OverlayIs
  <2> QED BY <1>1, <1>2, <2>1
<1>4. CASE f \notin DOMAIN env \/ env[f] = ""
  <2>1. S = {}
    BY <1>4 DEF EnvironmentSays
  <2>2. v = cfg[f]
    <3> HIDE DEF v, Over
    <3> QED BY <1>4, <1>3
  <2> QED BY <2>1, <2>2 DEF Overrides
<1>5. CASE f \in DOMAIN env /\ env[f] # ""
  <2>1. v = Over(f)
    <3> HIDE DEF v, Over
    <3> QED BY <1>5, <1>3
  <2>2. S = CASE f = "port" -> {Number[n] : n \in {env[f]} \cap DOMAIN Number}
              [] f \in {"masking", "guardrails", "audit"} ->
                    {(w \in {"true", "1", "yes", "on"}) :
                       w \in {env[f]} \cap {"true", "1", "yes", "on", "false", "0", "no", "off"}}
              [] f \in {"transport", "logLevel", "downstream"} -> {Lower(env[f])}
              [] OTHER -> {env[f]}
    BY <1>5 DEF EnvironmentSays
  <2> HIDE DEF S, v
  <2>3. CASE f = "port"
    <3>1. v = IF env[f] \in DOMAIN Number THEN Number[env[f]] ELSE cfg[f]
      BY <2>1, <2>3
    <3>2. S = {Number[n] : n \in {env[f]} \cap DOMAIN Number}
      BY <2>2, <2>3
    <3>3. S = IF env[f] \in DOMAIN Number THEN {Number[env[f]]} ELSE {}
      BY <3>2
    <3> QED BY <3>1, <3>3, Singleton DEF Overrides, S, v
  <2>4. CASE f \in {"masking", "guardrails", "audit"}
    <3> DEFINE yes == {"true", "1", "yes", "on"}
               no == {"false", "0", "no", "off"}
    <3>1. v = parseBoolSafe(env[f], cfg[f])
      BY <2>1, <2>4
    <3>2. S = {(w \in yes) : w \in {env[f]} \cap (yes \cup no)}
      BY <2>2, <2>4
    <3>3. CASE env[f] \in yes
      <4>1. v = TRUE
        BY <3>1, <3>3 DEF parseBoolSafe
      <4>2. S = {TRUE}
        BY <3>2, <3>3
      <4> QED BY <4>1, <4>2, Singleton DEF Overrides, S, v
    <3>4. CASE env[f] \in no
      <4>1. v = FALSE
        BY <3>1, <3>4 DEF parseBoolSafe
      <4>2. S = {FALSE}
        <5>1. S = {(w \in yes) : w \in {env[f]}}
          BY <3>2, <3>4
        <5>2. env[f] \notin yes
          BY <3>4
        <5>3. (env[f] \in yes) = FALSE
          BY <5>2
        <5> QED BY <5>1, <5>3
      <4> QED BY <4>1, <4>2, Singleton DEF Overrides, S, v
    <3>5. CASE env[f] \notin yes \cup no
      <4>1. v = cfg[f]
        BY <3>1, <3>5 DEF parseBoolSafe
      <4>2. S = {}
        BY <3>2, <3>5
      <4> QED BY <4>1, <4>2 DEF Overrides, S, v
    <3> QED BY <3>3, <3>4, <3>5
  <2>5. CASE f \in {"transport", "logLevel"}
    <3>1. S = {Lower(env[f])} /\ v = Lower(env[f])
      BY <2>1, <2>2, <2>5
    <3> QED BY <3>1, Singleton DEF Overrides, S, v
  <2>6. CASE f \notin {"port", "masking", "guardrails", "audit", "transport", "logLevel", "downstream"}
    <3>1. S = {env[f]} /\ v = env[f]
      BY <2>1, <2>2, <2>6
    <3> QED BY <3>1, Singleton DEF Overrides, S, v
  <2> QED BY <2>3, <2>4, <2>5, <2>6
<1> QED BY <1>4, <1>5

\* The flags over everything else.
LEMMA FlagsOverride ==
  ASSUME NEW cfg, NEW flags, NEW f \in Field \ {"downstream"}
  PROVE  Overrides(FlagsSay(flags, f), ApplyFlags(cfg, flags)[f], cfg[f])
<1> DEFINE given == [g \in DOMAIN flags \ {"argument"} |-> flags[g]]
           S == FlagsSay(flags, f)
           argued == IF "argument" \in DOMAIN flags
                     THEN Overlay(Overlay(cfg, given), [command |-> flags.argument])
                     ELSE Overlay(cfg, given)
           v == argued[f]
<1>1. f # "argument" /\ f # "downstream" /\ f \in Field
  BY DEF Field
<1>2. ApplyFlags(cfg, flags)[f] = v
  <2>1. DOMAIN argued = Field
    BY OverlayIs
  <2>2. ApplyFlags(cfg, flags) = IF "url" \in DOMAIN flags
                                 THEN [argued EXCEPT !.downstream = "http"] ELSE argued
    BY DEF ApplyFlags
  <2> HIDE DEF argued
  <2> QED BY <1>1, <2>1, <2>2
<1>3. Overlay(cfg, given)[f] = IF f \in DOMAIN flags THEN flags[f] ELSE cfg[f]
  BY <1>1, OverlayIs
<1>4. CASE f = "command" /\ "argument" \in DOMAIN flags
  <2>1. S = {flags.argument}
    BY <1>4 DEF FlagsSay
  <2>2. v = flags.argument
    BY <1>1, <1>4, OverlayIs
  <2> QED BY <1>2, <2>1, <2>2, Singleton DEF Overrides
<1>5. CASE ~(f = "command" /\ "argument" \in DOMAIN flags)
  <2>1. v = Overlay(cfg, given)[f]
    <3>1. CASE "argument" \in DOMAIN flags
      <4>1. f \notin DOMAIN [command |-> flags.argument]
        BY <1>5, <3>1
      <4>2. v = Overlay(Overlay(cfg, given), [command |-> flags.argument])[f]
        BY <3>1
      <4> HIDE DEF given
      <4> QED BY <1>1, <4>1, <4>2, OverlayIs
    <3>2. CASE "argument" \notin DOMAIN flags
      BY <3>2
    <3> QED BY <3>1, <3>2
  <2>2. S = {flags[g] : g \in {f} \cap DOMAIN flags}
    BY <1>1, <1>5 DEF FlagsSay
  <2>3. S = IF f \in DOMAIN flags THEN {flags[f]} ELSE {}
    BY <2>2
  <2> HIDE DEF v, S
  <2>4. v = IF f \in DOMAIN flags THEN flags[f] ELSE cfg[f]
    BY <1>3, <2>1
  <2> QED BY <1>2, <2>3, <2>4, Singleton DEF Overrides, S
<1> QED BY <1>4, <1>5


\* Every field but the unread transport of the downstream server has the value
\* that the layers give it, one over the other.
Layered(layers, cfg) ==
    \A f \in Field \ {"downstream"} : \E y, z :
        /\ Overrides(SaidByFile(layers.file, f), y, DefaultConfig[f])
        /\ Overrides(EnvironmentSays(layers.env, f), z, y)
        /\ Overrides(FlagsSay(layers.flags, f), cfg[f], z)

BootInv ==
    /\ boot = [pc |-> boot.pc, config |-> boot.config, layers |-> boot.layers]
    /\ boot.pc = "flags" => boot.layers = [file |-> boot.layers.file, env |-> boot.layers.env,
                                           flags |-> <<>>]
    /\ boot.pc \in {"flags", "wire"} => DOMAIN boot.config = Field /\ Layered(boot.layers, boot.config)
    /\ boot.pc = "wire" => boot.config.transport \in {"stdio", "sse"}

LEMMA NoFlags == \A f : FlagsSay(<<>>, f) = {}
<1>1. DOMAIN <<>> = {}
  OBVIOUS
<1> QED BY <1>1 DEF FlagsSay

LEMMA DefaultFields == DOMAIN DefaultConfig = Field
  BY DEF DefaultConfig, Field

LEMMA NormalisedIs ==
  ASSUME NEW cfg, DOMAIN cfg = Field
  PROVE  /\ DOMAIN Normalised(cfg) = Field
         /\ \A f \in Field \ {"downstream"} : Normalised(cfg)[f] = cfg[f]
  BY DEF Normalised

LEMMA AppliedFields ==
  ASSUME NEW cfg, NEW layer
  PROVE  DOMAIN ApplyFlags(cfg, layer) = Field /\ DOMAIN ApplyEnvOverrides(cfg, layer) = Field
<1> DEFINE given == [f \in DOMAIN layer \ {"argument"} |-> layer[f]]
           argued == IF "argument" \in DOMAIN layer
                     THEN Overlay(Overlay(cfg, given), [command |-> layer.argument])
                     ELSE Overlay(cfg, given)
<1>1. DOMAIN argued = Field
  BY OverlayIs
<1>2. ApplyFlags(cfg, layer) = IF "url" \in DOMAIN layer
                               THEN [argued EXCEPT !.downstream = "http"] ELSE argued
  BY DEF ApplyFlags
<1>3. DOMAIN ApplyFlags(cfg, layer) = Field
  <2> HIDE DEF argued
  <2> QED BY <1>1, <1>2
<1>4. DOMAIN ApplyEnvOverrides(cfg, layer) = Field
  BY OverlayIs DEF ApplyEnvOverrides
<1> QED BY <1>3, <1>4

\* What LoadConfig takes has the values of its layers.
LEMMA LoadLayered ==
  ASSUME NEW file, NEW env, NEW cfg \in Load(file, env)
  PROVE  DOMAIN cfg = Field /\ Layered([file |-> file, env |-> env, flags |-> <<>>], cfg)
<1> DEFINE base == Overlay(DefaultConfig, file)
           over == ApplyEnvOverrides(base, env)
           layers == [file |-> file, env |-> env, flags |-> <<>>]
<1>1. cfg = Normalised(over)
  BY DEF Load
<1>2. DOMAIN over = Field
  BY AppliedFields
<1>3. DOMAIN cfg = Field /\ \A f \in Field \ {"downstream"} : cfg[f] = over[f]
  <2> HIDE DEF over
  <2> QED BY <1>1, <1>2, NormalisedIs
<1>4. ASSUME NEW f \in Field \ {"downstream"}
      PROVE  /\ Overrides(SaidByFile(file, f), base[f], DefaultConfig[f])
             /\ Overrides(EnvironmentSays(env, f), over[f], base[f])
             /\ Overrides(FlagsSay(<<>>, f), cfg[f], over[f])
  <2>1. Overrides(SaidByFile(file, f), base[f], DefaultConfig[f])
    BY FileOverrides
  <2>2. Overrides(EnvironmentSays(env, f), over[f], base[f])
    BY EnvironmentOverrides
  <2>3. Overrides(FlagsSay(<<>>, f), cfg[f], over[f])
    <3> HIDE DEF over
    <3> QED BY <1>3, NoFlags DEF Overrides
  <2> QED BY <2>1, <2>2, <2>3
<1>5. layers.file = file /\ layers.env = env /\ layers.flags = <<>>
  OBVIOUS
<1> HIDE DEF base, over, layers
<1>6. Layered(layers, cfg)
  BY <1>4, <1>5 DEF Layered
<1> QED BY <1>3, <1>6 DEF layers

\* The flags over what was loaded.
LEMMA FlagsLayered ==
  ASSUME NEW layers, NEW cfg, NEW flags, layers.flags = <<>>, Layered(layers, cfg),
         NEW new, new.file = layers.file, new.env = layers.env, new.flags = flags
  PROVE  Layered(new, Normalised(ApplyFlags(cfg, flags)))
<1> DEFINE over == ApplyFlags(cfg, flags)
           end == Normalised(over)
<1>1. \A f \in Field \ {"downstream"} : end[f] = over[f]
  <2>1. DOMAIN over = Field
    BY AppliedFields
  <2> HIDE DEF over
  <2> QED BY <2>1, NormalisedIs
<1>2. SUFFICES ASSUME NEW f \in Field \ {"downstream"}
               PROVE  \E y, z : /\ Overrides(SaidByFile(new.file, f), y, DefaultConfig[f])
                                /\ Overrides(EnvironmentSays(new.env, f), z, y)
                                /\ Overrides(FlagsSay(new.flags, f), end[f], z)
  <2> HIDE DEF end
  <2> QED BY DEF Layered, end
<1>3. PICK y, z : /\ Overrides(SaidByFile(layers.file, f), y, DefaultConfig[f])
                  /\ Overrides(EnvironmentSays(layers.env, f), z, y)
                  /\ Overrides(FlagsSay(layers.flags, f), cfg[f], z)
  BY DEF Layered
<1>4. cfg[f] = z
  BY <1>3, NoFlags DEF Overrides
<1>5. Overrides(FlagsSay(flags, f), over[f], cfg[f])
  BY FlagsOverride
<1>6. Overrides(FlagsSay(new.flags, f), end[f], z)
  <2> HIDE DEF end, over
  <2> QED BY <1>1, <1>4, <1>5
<1> HIDE DEF end
<1> QED BY <1>3, <1>6

\* What the chain of the layers comes to.
LEMMA LayeredWins == BootInv => LastLayerWins
<1> SUFFICES ASSUME BootInv, boot.pc \in {"flags", "wire"}, NEW f \in Field \ {"downstream"}
             PROVE  boot.config[f] = CASE FlagSays(f) # {} -> CHOOSE v \in FlagSays(f) : TRUE
                               [] FlagSays(f) = {} /\ EnvSays(f) # {} ->
                                     CHOOSE v \in EnvSays(f) : TRUE
                               [] FlagSays(f) = {} /\ EnvSays(f) = {} /\ FileSays(f) # {} ->
                                     CHOOSE v \in FileSays(f) : TRUE
                               [] OTHER -> DefaultConfig[f]
  BY DEF LastLayerWins
<1>1. PICK y, z : /\ Overrides(SaidByFile(boot.layers.file, f), y, DefaultConfig[f])
                  /\ Overrides(EnvironmentSays(boot.layers.env, f), z, y)
                  /\ Overrides(FlagsSay(boot.layers.flags, f), boot.config[f], z)
  BY DEF BootInv, Layered
<1>2. /\ SaidByFile(boot.layers.file, f) = FileSays(f)
      /\ EnvironmentSays(boot.layers.env, f) = EnvSays(f)
      /\ FlagsSay(boot.layers.flags, f) = FlagSays(f)
  BY DEF SaidByFile, FileSays, EnvironmentSays, EnvSays, FlagsSay, FlagSays
<1>3. CASE FlagSays(f) # {}
  BY <1>1, <1>2, <1>3 DEF Overrides
<1>4. CASE FlagSays(f) = {} /\ EnvSays(f) # {}
  BY <1>1, <1>2, <1>4 DEF Overrides
<1>5. CASE FlagSays(f) = {} /\ EnvSays(f) = {} /\ FileSays(f) # {}
  BY <1>1, <1>2, <1>5 DEF Overrides
<1>6. CASE FlagSays(f) = {} /\ EnvSays(f) = {} /\ FileSays(f) = {}
  BY <1>1, <1>2, <1>6 DEF Overrides
<1> QED BY <1>3, <1>4, <1>5, <1>6


LEMMA LayersFacts ==
  /\ DOMAIN DefaultConfig = Field
  /\ NoLayers = [file |-> <<>>, env |-> <<>>, flags |-> <<>>]
  BY DefaultFields DEF NoLayers

LEMMA ValidTransport ==
  ASSUME NEW cfg, Valid(cfg)
  PROVE  cfg.transport \in {"stdio", "sse"}
  BY DEF Valid

\* A step of the start command: it goes on, it gives up, or it serves.
LEMMA StartEffect ==
  ASSUME BootInv, Start
  PROVE  /\ BootInv' /\ boot.pc # "done" /\ UNCHANGED <<brokerVars, dispatchVars>>
         /\ boot'.pc \in {"flags", "wire", "done"} /\ DOMAIN boot'.config = Field
         /\ \/ UNCHANGED server
            \/ boot'.pc = "done" /\ server' = [server EXCEPT !.pc = "exited"]
            \/ /\ boot'.pc = "done"
               /\ server' \in [pc: {"serving"}, mode: {"stdio", "sse"}, guard: BOOLEAN, policy: BOOLEAN,
                               audit: BOOLEAN]
               /\ server'.guard \/ server'.audit => server'.mode = "stdio"
<1>1. UNCHANGED <<brokerVars, dispatchVars>>
  BY DEF Start
<1>2. ASSUME boot.pc # "done", boot' = [pc |-> "done", config |-> DefaultConfig, layers |-> NoLayers]
      PROVE  BootInv' /\ boot'.pc = "done" /\ DOMAIN boot'.config = Field
  BY <1>2, LayersFacts DEF BootInv
<1>3. ASSUME boot.pc # "done", Refuse
      PROVE  /\ BootInv' /\ boot'.pc = "done" /\ DOMAIN boot'.config = Field
             /\ server' = [server EXCEPT !.pc = "exited"]
  <2>1. boot' = [pc |-> "done", config |-> DefaultConfig, layers |-> NoLayers]
    BY <1>3 DEF Refuse, BootInv
  <2> QED BY <1>2, <1>3, <2>1 DEF Refuse
<1>4. ASSUME NEW file, NEW env, LoadConfig(file, env)
      PROVE  /\ BootInv' /\ boot.pc # "done"
             /\ boot'.pc \in {"flags", "done"} /\ DOMAIN boot'.config = Field
             /\ \/ UNCHANGED server
                \/ boot'.pc = "done" /\ server' = [server EXCEPT !.pc = "exited"]
  <2>1. boot.pc = "load"
    BY <1>4 DEF LoadConfig
  <2>2. CASE Load(file, env) = {}
    BY <1>3, <1>4, <2>1, <2>2 DEF LoadConfig
  <2>3. CASE Load(file, env) # {}
    <3>1. PICK cfg \in Load(file, env) :
             boot' = [pc |-> "flags", config |-> cfg,
                      layers |-> [NoLayers EXCEPT !.file = file, !.env = env]]
      BY <1>4, <2>3 DEF LoadConfig
    <3>2. boot' = [pc |-> "flags", config |-> cfg,
                   layers |-> [file |-> file, env |-> env, flags |-> <<>>]]
      BY <3>1, LayersFacts
    <3>3. DOMAIN cfg = Field /\ Layered([file |-> file, env |-> env, flags |-> <<>>], cfg)
      BY LoadLayered
    <3>4. UNCHANGED server
      BY <1>4, <2>3 DEF LoadConfig
    <3> QED BY <2>1, <3>2, <3>3, <3>4 DEF BootInv
  <2> QED BY <2>2, <2>3
<1>5. ASSUME NEW flags, TakeFlags(flags)
      PROVE  /\ BootInv' /\ boot.pc # "done"
             /\ boot'.pc \in {"wire", "done"} /\ DOMAIN boot'.config = Field
             /\ \/ UNCHANGED server
                \/ boot'.pc = "done" /\ server' = [server EXCEPT !.pc = "exited"]
  <2> DEFINE cfg == ApplyFlags(boot.config, flags)
             end == Normalised(cfg)
             layers == [file |-> boot.layers.file, env |-> boot.layers.env, flags |-> flags]
  <2>1. boot.pc = "flags"
    BY <1>5 DEF TakeFlags
  <2>2. CASE Refuse
    BY <1>3, <2>1, <2>2
  <2>3. CASE /\ Valid(cfg) /\ UNCHANGED server
             /\ boot' = [boot EXCEPT !.pc = "wire", !.config = end, !.layers.flags = flags]
    <3>1. /\ boot = [pc |-> boot.pc, config |-> boot.config, layers |-> boot.layers]
          /\ boot.layers = [file |-> boot.layers.file, env |-> boot.layers.env, flags |-> <<>>]
          /\ Layered(boot.layers, boot.config)
      BY <2>1 DEF BootInv
    <3>2. boot' = [pc |-> "wire", config |-> end, layers |-> [boot.layers EXCEPT !.flags = flags]]
      <4> HIDE DEF end
      <4> QED BY <2>3, <3>1
    <3>3. [boot.layers EXCEPT !.flags = flags] = layers
      BY <3>1
    <3>4. boot.layers.flags = <<>>
      BY <3>1
    <3>5. layers.file = boot.layers.file /\ layers.env = boot.layers.env /\ layers.flags = flags
      OBVIOUS
    <3>6. DOMAIN cfg = Field
      BY AppliedFields
    <3>7. Layered(layers, end)
      <4> HIDE DEF layers
      <4> QED BY <3>1, <3>4, <3>5, FlagsLayered
    <3>8. DOMAIN end = Field /\ end.transport = cfg.transport
      <4>1. "transport" \in Field \ {"downstream"}
        BY DEF Field
      <4> HIDE DEF cfg
      <4> QED BY <3>6, <4>1, NormalisedIs
    <3>9. end.transport \in {"stdio", "sse"}
      <4>1. Valid(cfg)
        BY <2>3
      <4>2. cfg.transport \in {"stdio", "sse"}
        BY ONLY <4>1, ValidTransport
      <4> HIDE DEF cfg, end
      <4> QED BY ONLY <3>8, <4>2
    <3>10. boot' = [pc |-> "wire", config |-> end, layers |-> layers]
      BY <3>2, <3>3
    <3>11. UNCHANGED server
      BY <2>3
    <3> HIDE DEF end, layers, cfg
    <3>12. boot'.pc = "wire" /\ boot'.config = end /\ boot'.layers = layers
      BY ONLY <3>10
    <3>13. BootInv'
      BY ONLY <3>7, <3>8, <3>9, <3>10, <3>12 DEF BootInv
    <3> QED BY ONLY <2>1, <3>8, <3>11, <3>12, <3>13
  <2> QED BY <1>5, <2>2, <2>3 DEF TakeFlags
<1>6. ASSUME Wire
      PROVE  /\ BootInv' /\ boot.pc # "done" /\ boot'.pc = "done" /\ DOMAIN boot'.config = Field
             /\ \/ server' = [server EXCEPT !.pc = "exited"]
                \/ /\ server' \in [pc: {"serving"}, mode: {"stdio", "sse"},
                                   guard: BOOLEAN, policy: BOOLEAN, audit: BOOLEAN]
                   /\ server'.guard \/ server'.audit => server'.mode = "stdio"
  <2>1. boot.pc = "wire" /\ boot.config.transport \in {"stdio", "sse"}
    BY <1>6 DEF Wire, BootInv
  <2>2. CASE Program(boot.config) = "gateway"
    BY <1>3, <1>6, <2>1, <2>2 DEF Wire
  <2>3. CASE Program(boot.config) # "gateway"
    <3>1. Program(boot.config) \in {"stdio", "sse"}
      BY <2>1, <2>3 DEF Program
    <3>2. boot' = [pc |-> "done", config |-> DefaultConfig, layers |-> NoLayers]
      BY <1>6, <2>3 DEF Wire, BootInv
    <3>3. PICK opened, compiled \in BOOLEAN :
             server' = [pc |-> "serving", mode |-> Program(boot.config),
                        guard |-> Program(boot.config) = "stdio" /\ boot.config.guardrails,
                        policy |-> /\ Program(boot.config) = "stdio"
                                   /\ boot.config.guardrails /\ compiled,
                        audit |-> /\ Program(boot.config) = "stdio" /\ boot.config.audit
                                  /\ boot.config.logPath # "" /\ opened]
      BY <1>6, <2>3 DEF Wire
    <3>4. /\ server' \in [pc: {"serving"}, mode: {"stdio", "sse"}, guard: BOOLEAN, policy: BOOLEAN,
                          audit: BOOLEAN]
          /\ server'.guard \/ server'.audit => server'.mode = "stdio"
      <4> DEFINE p == Program(boot.config)
                 g == p = "stdio" /\ boot.config.guardrails
                 c == p = "stdio" /\ boot.config.guardrails /\ compiled
                 a == /\ p = "stdio" /\ boot.config.audit /\ boot.config.logPath # "" /\ opened
      <4>1. server' = [pc |-> "serving", mode |-> p, guard |-> g, policy |-> c, audit |-> a]
        BY <3>3
      <4>2. g \in BOOLEAN /\ c \in BOOLEAN /\ a \in BOOLEAN /\ (g \/ a => p = "stdio") /\ p \in {"stdio", "sse"}
        BY <3>1
      <4> HIDE DEF g, c, a, p
      <4> QED BY <4>1, <4>2
    <3> QED BY <1>2, <2>1, <3>2, <3>4
  <2> QED BY <2>2, <2>3
<1> QED BY <1>1, <1>4, <1>5, <1>6 DEF Start


-------------------------------------------------------------------------------
\* The steps that leave the tasks alone, and what follows.

LEMMA InitDispatch == Init => DispatchInv /\ BootInv
<1> SUFFICES ASSUME Init PROVE DispatchInv /\ BootInv
  OBVIOUS
<1>1. /\ boot = [pc |-> "load", config |-> DefaultConfig, layers |-> NoLayers]
      /\ server = [pc |-> "boot", mode |-> "none", guard |-> FALSE, policy |-> FALSE,
                    audit |-> FALSE]
      /\ task = [h \in Caller |-> Free] /\ notes = <<>> /\ lost = FALSE
      /\ revoked = {} /\ received = 0
  BY DEF Init
<1>2. BootInv
  BY <1>1 DEF BootInv
<1>3. /\ task \in [Caller -> Task] /\ notes \in Seq(Note) /\ received \in 0 .. MaxMessages
      /\ \A h \in Caller : task[h] = Free
  BY <1>1, FreeFacts, StandaloneAssumption
<1>4. TypeOK
  BY <1>1, <1>3, DefaultFields DEF TypeOK
<1>5. Flow
  BY <1>1, <1>3, <1>4, FreeFacts, StandaloneAssumption DEF Flow
<1>6. ScreenInv /\ RecordsInv
  BY <1>1 DEF ScreenInv, RecordsInv
<1> QED BY <1>2, <1>5, <1>6 DEF DispatchInv

\* The server moves, with no message at hand that could end by it.
LEMMA ServerDispatch ==
  ASSUME DispatchInv, UNCHANGED dispatchVars, boot' = boot, server.mode # "none",
         NEW p \in {"draining", "shutdown", "exited"}, server' = [server EXCEPT !.pc = p],
         p = "draining" => server.mode = "sse",
         p # "draining" => task[Main].pc = "idle"
  PROVE  DispatchInv'
<1>1. Flow /\ ScreenInv /\ RecordsInv /\ TypeOK
  BY DEF DispatchInv, Flow
<1>2. /\ task' = task /\ notes' = notes /\ lost' = lost /\ revoked' = revoked /\ received' = received
  BY DEF dispatchVars
<1>3. /\ server' \in [pc: {"boot", "serving", "draining", "shutdown", "exited"},
                      mode: {"none", "stdio", "sse"}, guard: BOOLEAN, policy: BOOLEAN,
                      audit: BOOLEAN]
      /\ server'.pc = p /\ server'.mode = server.mode
      /\ server'.guard = server.guard /\ server'.policy = server.policy
      /\ server'.audit = server.audit
  BY <1>1 DEF TypeOK
<1>4. TypeOK'
  BY <1>1, <1>2, <1>3 DEF TypeOK
<1>5. boot.pc = "done"
  BY <1>1 DEF Flow
<1>6. Handlers' = Handlers
  BY <1>3 DEF Handlers
<1>7. Flow'
  BY <1>1, <1>2, <1>3, <1>4, <1>5, <1>6 DEF Flow
<1>8. ScreenInv' /\ RecordsInv'
  BY <1>1, <1>2, <1>3 DEF ScreenInv, RecordsInv
<1> QED BY <1>7, <1>8 DEF DispatchInv

LEMMA StopDispatch ==
  ASSUME DispatchInv, StopServing \/ Exit
  PROVE  DispatchInv' /\ boot' = boot /\ UNCHANGED dispatchVars
<1>1. Flow /\ TypeOK
  BY DEF DispatchInv, Flow
<1>2. UNCHANGED dispatchVars /\ boot' = boot
  BY DEF StopServing, Exit
<1>3. CASE StopServing
  <2>1. PICK p \in {"draining", "shutdown"} :
           /\ server' = [server EXCEPT !.pc = p]
           /\ server.pc \in {"serving", "draining"}
           /\ p = "draining" => server.mode = "sse"
           /\ p = "shutdown" => \/ server.mode = "stdio" /\ task[Main].pc = "idle"
                                \/ server.pc = "draining"
    BY <1>3 DEF StopServing
  <2>2. server.mode # "none"
    BY <1>1, <2>1 DEF Flow
  <2>3. p # "draining" => task[Main].pc = "idle"
    BY <1>1, <2>1, StandaloneAssumption DEF Flow, Handlers
  <2> QED BY <1>2, <2>1, <2>2, <2>3, ServerDispatch
<1>4. CASE Exit
  <2>1. server.pc = "shutdown" /\ server' = [server EXCEPT !.pc = "exited"]
    BY <1>4 DEF Exit
  <2>2. server.mode # "none" /\ task[Main].pc = "idle"
    BY <1>1, <2>1 DEF Flow
  <2> QED BY <1>2, <2>1, <2>2, ServerDispatch
<1> QED BY <1>2, <1>3, <1>4

LEMMA StartDispatch ==
  ASSUME DispatchInv, BootInv, Start
  PROVE  DispatchInv'
<1>1. Flow /\ ScreenInv /\ RecordsInv /\ TypeOK
  BY DEF DispatchInv, Flow
<1>2. /\ boot.pc # "done" /\ boot'.pc \in {"flags", "wire", "done"} /\ DOMAIN boot'.config = Field
      /\ UNCHANGED dispatchVars
      /\ \/ UNCHANGED server
         \/ boot'.pc = "done" /\ server' = [server EXCEPT !.pc = "exited"]
         \/ /\ boot'.pc = "done"
            /\ server' \in [pc: {"serving"}, mode: {"stdio", "sse"}, guard: BOOLEAN, policy: BOOLEAN,
                            audit: BOOLEAN]
            /\ server'.guard \/ server'.audit => server'.mode = "stdio"
  BY StartEffect
<1>3. task' = task /\ notes' = notes /\ lost' = lost /\ revoked' = revoked /\ received' = received
  BY <1>2 DEF dispatchVars
<1>4. /\ server.pc = "boot" /\ server.mode = "none" /\ server.audit = FALSE /\ server.guard = FALSE
      /\ \A h \in Caller : task[h].pc = "idle"
  BY <1>1, <1>2 DEF Flow, TypeOK
<1>5. /\ server' \in [pc: {"boot", "serving", "draining", "shutdown", "exited"},
                      mode: {"none", "stdio", "sse"}, guard: BOOLEAN, policy: BOOLEAN,
                      audit: BOOLEAN]
      /\ server'.pc # "boot" => boot'.pc = "done"
      /\ server'.pc = "boot" => server'.mode = "none"
      /\ server'.mode = "none" => server'.pc \in {"boot", "exited"}
      /\ server'.pc # "draining"
      /\ server'.audit \/ server'.guard => server'.mode = "stdio"
  <2>1. server \in [pc: {"boot", "serving", "draining", "shutdown", "exited"},
                    mode: {"none", "stdio", "sse"}, guard: BOOLEAN, policy: BOOLEAN,
                    audit: BOOLEAN]
    BY <1>1 DEF TypeOK
  <2>2. CASE UNCHANGED server
    BY <1>4, <2>1, <2>2
  <2>3. CASE boot'.pc = "done" /\ server' = [server EXCEPT !.pc = "exited"]
    BY <1>4, <2>1, <2>3
  <2>4. CASE /\ boot'.pc = "done"
             /\ server' \in [pc: {"serving"}, mode: {"stdio", "sse"}, guard: BOOLEAN, policy: BOOLEAN,
                             audit: BOOLEAN]
             /\ server'.guard \/ server'.audit => server'.mode = "stdio"
    BY <2>4
  <2> QED BY <1>2, <2>2, <2>3, <2>4
<1>6. TypeOK'
  BY <1>1, <1>2, <1>3, <1>5 DEF TypeOK
<1>7. Flow'
  BY <1>1, <1>3, <1>4, <1>5, <1>6, StandaloneAssumption DEF Flow
<1>8. ScreenInv'
  BY <1>1, <1>3, <1>4 DEF ScreenInv, Flow, TaskOK, Screened
<1>9. RecordsInv'
  BY <1>1, <1>3, <1>4, StandaloneAssumption DEF RecordsInv, Flow, TaskOK, Tells
<1> QED BY <1>7, <1>8, <1>9 DEF DispatchInv

LEMMA SameDispatch ==
  ASSUME DispatchInv, UNCHANGED <<startVars, dispatchVars>>
  PROVE  DispatchInv'
<1>1. /\ boot' = boot /\ server' = server /\ task' = task /\ notes' = notes /\ lost' = lost
      /\ revoked' = revoked /\ received' = received
  BY DEF startVars, dispatchVars
<1> QED BY <1>1 DEF DispatchInv, Flow, TypeOK, ScreenInv, RecordsInv, Handlers

LEMMA SameBoot == ASSUME BootInv, boot' = boot PROVE BootInv'
  BY DEF BootInv

LEMMA DispatchStep ==
  ASSUME DispatchInv, BootInv, [Next]_vars
  PROVE  DispatchInv' /\ BootInv'
<1>1. CASE Start
  BY <1>1, StartDispatch, StartEffect
<1>2. ASSUME NEW h \in Caller, NEW m \in Messages, Receive(h, m) PROVE DispatchInv' /\ BootInv'
  <2>1. boot' = boot
    BY <1>2 DEF Receive
  <2> QED BY <1>2, <2>1, ReceiveDispatch, SameBoot
<1>3. ASSUME NEW h \in Caller, Dispatch(h) PROVE DispatchInv' /\ BootInv'
  <2>1. boot' = boot
    BY <1>3 DEF Dispatch, Enter, Handle, InBroker, Leave, Return, Answer, startVars
  <2>2. DispatchInv'
    BY <1>3, EnterDispatch, HandleDispatch, InBrokerDispatch, LeaveDispatch, ReturnDispatch,
       AnswerDispatch DEF Dispatch
  <2> QED BY <2>1, <2>2, SameBoot
<1>4. CASE StopServing \/ Exit
  BY <1>4, StopDispatch, SameBoot
<1>5. CASE ShutdownBroker \/ Background
  <2>1. UNCHANGED <<startVars, dispatchVars>>
    BY <1>5 DEF ShutdownBroker, Background
  <2> QED BY <2>1, SameDispatch, SameBoot DEF startVars
<1>6. CASE UNCHANGED vars
  <2>1. UNCHANGED <<startVars, dispatchVars>>
    BY <1>6 DEF vars
  <2> QED BY <2>1, SameDispatch, SameBoot DEF startVars
<1> QED BY <1>1, <1>2, <1>3, <1>4, <1>5, <1>6 DEF Next

LEMMA DispatchInvariant == Spec => [](DispatchInv /\ BootInv)
<1>1. Init => DispatchInv /\ BootInv
  BY InitDispatch
<1>2. (DispatchInv /\ BootInv) /\ [Next]_vars => (DispatchInv /\ BootInv)'
  BY DispatchStep
<1> QED BY <1>1, <1>2, PTL DEF Spec

\* The variables of the server, the tasks and the notes keep their types.
THEOREM TypeCorrect == Spec => []TypeOK
<1>1. DispatchInv => TypeOK
  BY DEF DispatchInv, Flow
<1> QED BY <1>1, DispatchInvariant, PTL

\* Whatever the file, the environment and the flags say, each field has the
\* value of the last of them that says something.
THEOREM LastLayerDecides == Spec => []LastLayerWins
<1> QED BY LayeredWins, DispatchInvariant, PTL

\* With guardrails nothing that offends reaches a tool, be it called or be it the
\* method, whatever the messages are, with a tool policy and without one; and
\* what is refused offends.
THEOREM OnlyCleanRequestsReachTools == Spec => []OnlyCleanRequestsRun
<1>1. DispatchInv => OnlyCleanRequestsRun
  <2> SUFFICES ASSUME DispatchInv, server.guard, NEW h \in Caller
               PROVE  /\ (task[h].pc \in {"handle", "broker"} /\ Frame(h) \in Tool) =>
                            ~Offends(task[h].message, server.policy)
                      /\ task[h].outcome = "refused" => Offends(task[h].message, server.policy)
    BY DEF OnlyCleanRequestsRun
  <2> DEFINE t == task[h]
             m == t.message
  <2>1. TypeOK /\ t \in Task /\ TaskOK(t) /\ Screened(t, server.policy)
    BY OfTask
  <2>2. t.outcome = "refused" => Offends(m, server.policy)
    BY <2>1 DEF Screened
  <2>3. ASSUME t.pc \in {"handle", "broker"}, Frame(h) \in Tool
        PROVE  ~Offends(m, server.policy)
    <3>1. /\ PassesOuter(m, server.policy) /\ (t.inner => PassesInner(m))
          /\ t.inner \in BOOLEAN
      BY <2>1, <2>3 DEF Screened, Task
    <3>2. m.text \in Text /\ m.values \in Text /\ m.inner \in Text
      BY <2>1, MessageFacts DEF Task
    <3>3. m.method = "call" => t.inner
      BY <2>3, <3>1 DEF Frame, Tool
    <3> QED BY <3>1, <3>2, <3>3, DetectedIs DEF PassesInner, PassesOuter, ScanArguments, Offends
  <2> QED BY <2>2, <2>3
<1> QED BY <1>1, DispatchInvariant, PTL


\* The positions of the records of some kinds.
Positions(n, kinds) == {i \in DOMAIN n : n[i].kind \in kinds}

LEMMA KindFacts ==
  \A x : Req(x).kind \in {"request", "tool"} /\ Resp(x).kind = "response"
  BY DEF Req, Resp

\* A response for each request, after a message and after a call.
LEMMA BalancedRecords ==
  ASSUME NEW a, NEW b, NEW n,
         n = <<Req(a), Resp(a)>> \/ n = <<Req(a), Req(b), Resp(b), Resp(a)>>
  PROVE  /\ Cardinality(Positions(n, {"response"})) = Cardinality(Positions(n, {"request", "tool"}))
         /\ n # <<>>
<1>1. /\ Req(a).kind \in {"request", "tool"} /\ Req(b).kind \in {"request", "tool"}
      /\ Resp(a).kind = "response" /\ Resp(b).kind = "response"
  BY KindFacts
<1>2. /\ Cardinality(1 .. 1) = 1 /\ Cardinality(2 .. 2) = 1
      /\ Cardinality(1 .. 2) = 2 /\ Cardinality(3 .. 4) = 2
  <2>1. ASSUME NEW i \in Int, NEW j \in Int, i <= j PROVE Cardinality(i .. j) = j - i + 1
    <3>1. Cardinality(i .. j) = IF i > j THEN 0 ELSE j - i + 1
      BY FS_Interval
    <3> QED BY <2>1, <3>1
  <2> DEFINE card(i, j) == Cardinality(i .. j)
  <2>2. \A i, j \in Int : i <= j => card(i, j) = j - i + 1
    BY <2>1
  <2> HIDE DEF card
  <2>3. card(1, 1) = 1 /\ card(2, 2) = 1 /\ card(1, 2) = 2 /\ card(3, 4) = 2
    BY <2>2
  <2> QED BY <2>3 DEF card
<1>3. CASE n = <<Req(a), Resp(a)>>
  <2>1. DOMAIN n = {1, 2} /\ n[1] = Req(a) /\ n[2] = Resp(a) /\ n # <<>>
    BY <1>3
  <2>2. Positions(n, {"response"}) = 2 .. 2 /\ Positions(n, {"request", "tool"}) = 1 .. 1
    BY <1>1, <2>1 DEF Positions
  <2> QED BY <1>2, <2>1, <2>2
<1>4. CASE n = <<Req(a), Req(b), Resp(b), Resp(a)>>
  <2>1. /\ DOMAIN n = {1, 2, 3, 4} /\ n # <<>>
        /\ n[1] = Req(a) /\ n[2] = Req(b) /\ n[3] = Resp(b) /\ n[4] = Resp(a)
    BY <1>4
  <2>2. Positions(n, {"response"}) = 3 .. 4 /\ Positions(n, {"request", "tool"}) = 1 .. 2
    BY <1>1, <2>1 DEF Positions
  <2> QED BY <1>2, <2>1, <2>2
<1> QED BY <1>3, <1>4

\* As long as the ledger can be written, it names the tool at work, and holds as
\* many responses as requests when a call has succeeded.
THEOREM RecordsTellCalls == Spec => []RecordsTellTheCall
<1>1. DispatchInv => RecordsTellTheCall
  <2> SUFFICES ASSUME DispatchInv, server.audit, ~lost, NEW h \in Caller
               PROVE  /\ task[h].pc = "broker" =>
                            /\ notes # <<>>
                            /\ notes[Len(notes)] = [kind |-> "request", method |-> Frame(h)]
                      /\ task[h].pc = "answer" /\ task[h].outcome = "result" =>
                            /\ Count({"response"}) = Count({"request", "tool"})
                            /\ notes # <<>>
    BY DEF RecordsTellTheCall
  <2> DEFINE t == task[h]
             m == t.message
  <2>1. t \in Task /\ TaskOK(t) /\ t.inner \in BOOLEAN
    BY OfTask DEF Task
  <2>2. t.pc # "idle" => h = Main
    BY DEF DispatchInv, Flow, Handlers
  <2>3. t.pc # "idle" => Tells(t, notes)
    BY <2>2, OfTask
  <2>4. ASSUME t.pc = "broker"
        PROVE  /\ notes # <<>>
               /\ notes[Len(notes)] = [kind |-> "request", method |-> Frame(h)]
    <3>1. FrameOf(t) \in {"request", "revoke"} /\ Frame(h) = FrameOf(t)
      BY <2>1, <2>4, FrameIs DEF TaskOK
    <3>2. notes = IF t.inner THEN <<Req("call"), Req(m.tool)>> ELSE <<Req(m.method)>>
      BY <2>3, <2>4 DEF Tells
    <3>3. notes # <<>> /\ notes[Len(notes)] = Req(FrameOf(t))
      BY <2>1, <3>2 DEF FrameOf
    <3> QED BY <3>1, <3>3 DEF Req
  <2>5. ASSUME t.pc = "answer", t.outcome = "result"
        PROVE  /\ Count({"response"}) = Count({"request", "tool"})
               /\ notes # <<>>
    <3>1. \/ notes = <<Req(m.method), Resp(m.method)>>
          \/ notes = <<Req("call"), Req(m.tool), Resp(m.tool), Resp("call")>>
      BY <2>1, <2>3, <2>5 DEF Tells, TaskOK
    <3>2. Cardinality(Positions(notes, {"response"})) = Cardinality(Positions(notes, {"request", "tool"}))
          /\ notes # <<>>
      BY <3>1, BalancedRecords
    <3> QED BY <3>2 DEF Count, Positions
  <2> QED BY <2>4, <2>5
<1> QED BY <1>1, DispatchInvariant, PTL


-------------------------------------------------------------------------------
\* The broker of the server is the broker of CredentialBroker: what is proved of
\* the one holds of the other.

LEMMA SameData ==
  /\ Broker!Goroutine = Proved!Goroutine /\ Broker!Timer = Proved!Timer
  /\ Broker!Version = Proved!Version /\ Broker!Idle = Proved!Idle
  /\ Broker!vars = brokerVars /\ Proved!vars = brokerVars
  BY DEF Broker!Goroutine, Proved!Goroutine, Broker!Timer, Proved!Timer, Broker!Version,
         Proved!Version, Broker!Idle, Proved!Idle, Broker!NoObject, Proved!NoObject,
         Broker!vars, Proved!vars, brokerVars

LEMMA SameAssumption == Proved!BrokerAssumption
  BY StandaloneAssumption DEF Broker!BrokerAssumption, Proved!BrokerAssumption, Broker!Driver,
     Proved!Driver, Broker!Timer, Proved!Timer, Broker!Version, Proved!Version

LEMMA SameInit == Broker!Init <=> Proved!Init
  BY DEF Broker!Init, Proved!Init, Broker!Goroutine, Proved!Goroutine, Broker!Timer, Proved!Timer,
         Broker!Version, Proved!Version, Broker!Idle, Proved!Idle, Broker!NoObject, Proved!NoObject

LEMMA SameHelpers ==
  /\ \A t : Broker!DriverFor(t) = Proved!DriverFor(t)
  /\ \A x : Broker!Granted(x) = Proved!Granted(x)
  /\ \A l : /\ Broker!Unrevoked(l) = Proved!Unrevoked(l) /\ Broker!Recorded(l) = Proved!Recorded(l)
            /\ Broker!Current(l) = Proved!Current(l)
            /\ Broker!Registered(l) = Proved!Registered(l)
  /\ \A o, T : Broker!Stop(o, T) = Proved!Stop(o, T)
  /\ \A g : Broker!Return(g) = Proved!Return(g)
  /\ \A g, l : Broker!CallsRevoke(g, l) = Proved!CallsRevoke(g, l)
  /\ Broker!NoObject = Proved!NoObject
<1>1. \A t : Broker!DriverFor(t) = Proved!DriverFor(t)
  BY DEF Broker!DriverFor, Proved!DriverFor
<1>2. \A x : Broker!Granted(x) = Proved!Granted(x)
  BY DEF Broker!Granted, Proved!Granted
<1>3. \A l : /\ Broker!Unrevoked(l) = Proved!Unrevoked(l) /\ Broker!Recorded(l) = Proved!Recorded(l)
             /\ Broker!Current(l) = Proved!Current(l)
  BY DEF Broker!Unrevoked, Proved!Unrevoked, Broker!Recorded, Proved!Recorded,
         Broker!Current, Proved!Current
<1>4. \A l : Broker!Registered(l) = Proved!Registered(l)
  BY SameData DEF Broker!Registered, Proved!Registered
<1>5. \A o, T : Broker!Stop(o, T) = Proved!Stop(o, T)
  BY SameData DEF Broker!Stop, Proved!Stop
<1>6. \A g : Broker!Return(g) = Proved!Return(g)
  BY SameData DEF Broker!Return, Proved!Return
<1>7. \A g, l : Broker!CallsRevoke(g, l) = Proved!CallsRevoke(g, l)
  BY SameData DEF Broker!CallsRevoke, Proved!CallsRevoke
<1>8. Broker!NoObject = Proved!NoObject
  BY DEF Broker!NoObject, Proved!NoObject
<1> QED BY <1>1, <1>2, <1>3, <1>4, <1>5, <1>6, <1>7, <1>8

LEMMA SameCalls ==
  /\ \A g, t, ttl : Broker!IssueLease(g, t, ttl) <=> Proved!IssueLease(g, t, ttl)
  /\ \A g, l : Broker!RevokeLease(g, l) <=> Proved!RevokeLease(g, l)
  /\ \A g, l : Broker!RevokeNothing(g, l) <=> Proved!RevokeNothing(g, l)
  /\ \A g, l, ttl : Broker!RenewLease(g, l, ttl) <=> Proved!RenewLease(g, l, ttl)
  /\ \A g : Broker!Shutdown(g) <=> Proved!Shutdown(g)
<1>1. \A g, t, ttl : Broker!IssueLease(g, t, ttl) <=> Proved!IssueLease(g, t, ttl)
  BY DEF Broker!IssueLease, Proved!IssueLease, Broker!DriverFor, Proved!DriverFor,
         Broker!Granted, Proved!Granted, Broker!NoObject, Proved!NoObject
<1>2. \A g, l : Broker!RevokeLease(g, l) <=> Proved!RevokeLease(g, l)
  BY SameHelpers DEF Broker!RevokeLease, Proved!RevokeLease
<1>3. \A g, l : Broker!RevokeNothing(g, l) <=> Proved!RevokeNothing(g, l)
  BY SameHelpers, SameData DEF Broker!RevokeNothing, Proved!RevokeNothing
<1>4. \A g, l, ttl : Broker!RenewLease(g, l, ttl) <=> Proved!RenewLease(g, l, ttl)
  BY DEF Broker!RenewLease, Proved!RenewLease, Broker!Unrevoked, Proved!Unrevoked,
         Broker!Recorded, Proved!Recorded, Broker!Current, Proved!Current, Broker!Idle,
         Proved!Idle, Broker!NoObject, Proved!NoObject, Broker!DriverFor,
         Proved!DriverFor, Broker!Granted, Proved!Granted
<1>5. \A g : Broker!Shutdown(g) <=> Proved!Shutdown(g)
  BY DEF Broker!Shutdown, Proved!Shutdown, Broker!Idle, Proved!Idle, Broker!NoObject,
         Proved!NoObject, Broker!Stop, Proved!Stop, Broker!Registered, Proved!Registered,
         Broker!Goroutine, Proved!Goroutine, Broker!Timer, Proved!Timer, Broker!Version,
         Proved!Version
<1> QED BY <1>1, <1>2, <1>3, <1>4, <1>5

LEMMA SameSteps ==
  /\ \A g : Broker!Generate(g) <=> Proved!Generate(g)
  /\ \A g : Broker!RecordLease(g) <=> Proved!RecordLease(g)
  /\ \A g : Broker!DropCredential(g) <=> Proved!DropCredential(g)
  /\ \A g : Broker!MarkRevoked(g) <=> Proved!MarkRevoked(g)
  /\ \A g : Broker!ExtendCredential(g) <=> Proved!ExtendCredential(g)
  /\ \A g : Broker!CloneLease(g) <=> Proved!CloneLease(g)
  /\ \A g : Broker!Rearm(g) <=> Proved!Rearm(g)
  /\ \A g : Broker!ShutdownReturns(g) <=> Proved!ShutdownReturns(g)
  /\ \A t : Broker!Fire(t) <=> Proved!Fire(t)
  /\ Broker!Tick <=> Proved!Tick
<1>1. \A g : Broker!Generate(g) <=> Proved!Generate(g)
  BY SameData DEF Broker!Generate, Proved!Generate
<1>2. \A g : Broker!RecordLease(g) <=> Proved!RecordLease(g)
  BY SameData DEF Broker!RecordLease, Proved!RecordLease
<1>3. \A g : Broker!DropCredential(g) <=> Proved!DropCredential(g)
  BY DEF Broker!DropCredential, Proved!DropCredential
<1>4. \A g : Broker!MarkRevoked(g) <=> Proved!MarkRevoked(g)
  BY SameHelpers DEF Broker!MarkRevoked, Proved!MarkRevoked
<1>5. \A g : Broker!ExtendCredential(g) <=> Proved!ExtendCredential(g)
  BY SameData DEF Broker!ExtendCredential, Proved!ExtendCredential, Broker!ExtendInPlace,
     Proved!ExtendInPlace, Broker!ExtendRole, Proved!ExtendRole, Broker!ExtendUser,
     Proved!ExtendUser, Broker!RefuseRenewal, Proved!RefuseRenewal
<1>6. \A g : Broker!CloneLease(g) <=> Proved!CloneLease(g)
  BY DEF Broker!CloneLease, Proved!CloneLease
<1>7. \A g : Broker!Rearm(g) <=> Proved!Rearm(g)
  BY SameHelpers, SameData DEF Broker!Rearm, Proved!Rearm
<1>8. \A g : Broker!ShutdownReturns(g) <=> Proved!ShutdownReturns(g)
  BY SameData DEF Broker!ShutdownReturns, Proved!ShutdownReturns
<1>9. \A t : Broker!Fire(t) <=> Proved!Fire(t)
  BY DEF Broker!Fire, Proved!Fire
<1>10. Broker!Tick <=> Proved!Tick
  BY SameData DEF Broker!Tick, Proved!Tick
<1> QED BY <1>1, <1>2, <1>3, <1>4, <1>5, <1>6, <1>7, <1>8, <1>9, <1>10

LEMMA SameNext == [Broker!Next]_(Broker!vars) <=> [Proved!Next]_(Proved!vars)
<1>1. \A g : Broker!Call(g) <=> Proved!Call(g)
  BY SameCalls DEF Broker!Call, Proved!Call
<1>2. \A g : Broker!Step(g) <=> Proved!Step(g)
  BY SameCalls, SameSteps DEF Broker!Step, Proved!Step
<1>3. \A t, d : Broker!RegisterDriver(t, d) <=> Proved!RegisterDriver(t, d)
  BY DEF Broker!RegisterDriver, Proved!RegisterDriver
<1>4. Broker!Driver = Proved!Driver
  BY DEF Broker!Driver, Proved!Driver
<1>5. Broker!Next <=> Proved!Next
  BY <1>1, <1>2, <1>3, <1>4, SameData, SameSteps DEF Broker!Next, Proved!Next
<1>6. UNCHANGED Broker!vars <=> UNCHANGED Proved!vars
  BY DEF Broker!vars, Proved!vars
<1> QED BY <1>5, <1>6

LEMMA SameSpec == Broker!Spec <=> Proved!Spec
  BY SameInit, SameNext, PTL DEF Broker!Spec, Proved!Spec


\* What the broker's own proofs keep.
RunInv == Proved!WellFormed /\ Proved!IdleCallers

LEMMA RunFacts ==
  ASSUME RunInv
  PROVE  /\ \A h \in Caller : /\ h \in Broker!Goroutine /\ h \notin Broker!Timer
                              /\ op[h].pc = "idle" => op[h] = Broker!Idle
         /\ DOMAIN op = Broker!Goroutine
<1>1. Caller \cap Broker!Timer = {}
  BY StandaloneAssumption DEF Broker!BrokerAssumption
<1>2. op \in [Broker!Goroutine -> Proved!Operation]
  BY SameData DEF RunInv, Proved!WellFormed, Proved!TypeOK
<1> QED BY <1>1, <1>2, SameData DEF RunInv, Proved!IdleCallers, Broker!Goroutine

\* A caller that is in no call and asks to revoke what is not to be revoked
\* changes nothing.
LEMMA NothingStutters ==
  ASSUME RunInv, NEW h \in Caller, NEW l, op[h].pc = "idle", Broker!RevokeNothing(h, l)
  PROVE  UNCHANGED Broker!vars
<1>1. h \in Broker!Goroutine /\ h \notin Broker!Timer /\ op[h] = Broker!Idle
      /\ DOMAIN op = Broker!Goroutine
  BY RunFacts
<1>2. op \in [Broker!Goroutine -> Proved!Operation]
  BY SameData DEF RunInv, Proved!WellFormed, Proved!TypeOK
<1>3. [op[h] EXCEPT !.todo = @ \ {l}] = op[h]
  BY <1>1 DEF Broker!Idle
<1>4. op' = [op EXCEPT ![h] = op[h]]
  BY <1>1, <1>3 DEF Broker!RevokeNothing
<1>5. op' = op
  BY <1>1, <1>2, <1>4
<1> QED BY <1>5 DEF Broker!RevokeNothing, Broker!vars

LEMMA BrokerSteps ==
  ASSUME RunInv, DispatchInv, [Next]_vars
  PROVE  [Broker!Next]_(Broker!vars)
<1>1. ASSUME UNCHANGED brokerVars PROVE UNCHANGED Broker!vars
  BY <1>1 DEF brokerVars, Broker!vars
<1>2. CASE Start
  BY <1>1, <1>2 DEF Start
<1>3. ASSUME NEW h \in Caller, NEW m \in Messages, Receive(h, m) PROVE UNCHANGED Broker!vars
  BY <1>1, <1>3 DEF Receive
<1>4. ASSUME NEW h \in Caller, Dispatch(h) PROVE [Broker!Next]_(Broker!vars)
  <2>1. h \in Broker!Goroutine /\ task[h].message \in Messages
    BY RunFacts, TaskFacts DEF DispatchInv, Flow
  <2>2. ASSUME Broker!Step(h) PROVE Broker!Next
    BY <2>1, <2>2 DEF Broker!Next
  <2>3. ASSUME Broker!Call(h) PROVE Broker!Next
    BY <2>3 DEF Broker!Next
  <2>4. CASE Enter(h) \/ Leave(h) \/ Return(h) \/ Answer(h)
    <3>1. UNCHANGED brokerVars
      BY <2>4 DEF Enter, Leave, Return, Answer
    <3> QED BY <1>1, <3>1
  <2>5. CASE InBroker(h)
    BY <2>2, <2>5 DEF InBroker, Broker!Step
  <2>6. CASE Handle(h)
    <3> DEFINE m == task[h].message
               l == m.argument
    <3>1. CASE Call(h) \/ Reply(h)
      BY <1>1, <3>1 DEF Call, Reply
    <3>2. CASE RequestCredential(h)
      <4>1. CASE m.argument \in RequestTarget /\ Broker!IssueLease(h, m.argument, m.ttl)
        <5>1. m.ttl \in RequestTTL
          BY <2>1, MessageFacts
        <5>2. Broker!Call(h)
          BY <4>1, <5>1 DEF Broker!Call
        <5> QED BY <2>3, <5>2
      <4>2. CASE UNCHANGED brokerVars
        BY <1>1, <4>2
      <4> QED BY <3>2, <4>1, <4>2 DEF RequestCredential
    <3>3. CASE RevokeCredential(h)
      <4>1. CASE l \in Lease /\ Broker!RevokeLease(h, l)
        <5>1. CASE op[h].pc = "idle"
          BY <2>3, <4>1, <5>1 DEF Broker!Call
        <5>2. CASE op[h].pc # "idle"
          BY <2>2, <4>1, <5>2 DEF Broker!Step
        <5> QED BY <5>1, <5>2
      <4>2. CASE l \in Lease /\ Broker!RevokeNothing(h, l)
        <5>1. CASE op[h].pc = "idle"
          BY <4>2, <5>1, NothingStutters
        <5>2. CASE op[h].pc # "idle"
          BY <2>2, <4>2, <5>2 DEF Broker!Step
        <5> QED BY <5>1, <5>2
      <4>3. CASE UNCHANGED brokerVars
        BY <1>1, <4>3
      <4> QED BY <3>3, <4>1, <4>2, <4>3 DEF RevokeCredential
    <3> QED BY <2>6, <3>1, <3>2, <3>3 DEF Handle
  <2> QED BY <1>4, <2>4, <2>5, <2>6 DEF Dispatch
<1>5. CASE StopServing \/ Exit
  BY <1>1, <1>5 DEF StopServing, Exit
<1>6. CASE ShutdownBroker
  <2>1. Main \in Caller /\ Main \in Broker!Goroutine
    BY StandaloneAssumption, RunFacts
  <2> QED BY <1>6, <2>1 DEF ShutdownBroker, Broker!Next, Broker!Call
<1>7. CASE Background
  <2>1. \A t \in Broker!Timer : t \in Broker!Goroutine
    BY DEF Broker!Goroutine
  <2> QED BY <1>7, <2>1 DEF Background, Broker!Next
<1>8. CASE UNCHANGED vars
  <2>1. UNCHANGED brokerVars
    BY <1>8 DEF vars
  <2> QED BY <1>1, <2>1
<1> QED BY <1>2, <1>3, <1>4, <1>5, <1>6, <1>7, <1>8 DEF Next

LEMMA RunInvariant == Spec => []RunInv
<1>1. Init => RunInv
  <2>1. Init => Proved!Init
    BY SameInit DEF Init
  <2> QED BY <2>1, SameAssumption, Proved!InitWellFormed, Proved!InitIdle DEF RunInv
<1>2. RunInv /\ DispatchInv /\ [Next]_vars => RunInv'
  <2> SUFFICES ASSUME RunInv, DispatchInv, [Next]_vars PROVE RunInv'
    OBVIOUS
  <2>1. [Proved!Next]_(Proved!vars)
    BY BrokerSteps, SameNext
  <2> QED BY <2>1, SameAssumption, Proved!StepsWellFormed, Proved!StepsIdle DEF RunInv
<1>3. DispatchInv /\ BootInv => DispatchInv
  OBVIOUS
<1> QED BY <1>1, <1>2, <1>3, DispatchInvariant, PTL DEF Spec

\* The server calls the broker as the broker is meant to be called: each of its
\* steps is one of the broker's or leaves the broker alone.
THEOREM RunsTheBroker == Spec => Broker!Spec
<1>1. Init => Broker!Init
  BY DEF Init
<1>2. RunInv /\ DispatchInv /\ [Next]_vars => [Broker!Next]_(Broker!vars)
  BY BrokerSteps
<1>3. DispatchInv /\ BootInv => DispatchInv
  OBVIOUS
<1> QED BY <1>1, <1>2, <1>3, RunInvariant, DispatchInvariant, PTL DEF Spec, Broker!Spec


-------------------------------------------------------------------------------
\* The broker in the server.

Revoking == {"drop", "mark"}

\* Only the generic driver is there, and nobody renews.
GenericOK(r) ==
    /\ r.driver = "generic_token" /\ r.pc \notin {"extend", "clone", "rearm"}
    /\ r.pc \in Revoking => r.version = 1

Generic ==
    /\ drivers = InitialDrivers /\ revokeFailed = {}
    /\ \A g \in Broker!Goroutine : GenericOK(op[g])
    /\ \A l \in Lease : credential[l].driver = "generic_token" /\ leases[l] \in {0, 1}

\* A lease enters the map once, by the goroutine whose driver minted its secret.
Issuing ==
    /\ \A g \in Broker!Goroutine :
          /\ op[g].pc = "record" => g \in Caller /\ leases[op[g].lease] = 0
                                    /\ credential[op[g].lease].state # "none"
          /\ op[g].pc \in Revoking => leases[op[g].lease] # 0
    /\ \A g, k \in Broker!Goroutine :
          op[g].pc = "record" /\ op[k].pc = "record" /\ g # k => op[g].lease # op[k].lease
    /\ \A l \in Lease : leases[l] # 0 => credential[l].state # "none"
    /\ \A l \in Lease : credential[l].state # "none" /\ leases[l] = 0 => BeingIssued(l)

\* What a handler does in the broker, r, is what its task t is about; Main shuts
\* down when it handles nothing any more.
Fits(h, r, t, p) ==
    IF h = Main /\ p \in {"shutdown", "exited"} THEN r.pc \in {"idle", "shutdown"} \cup Revoking
    ELSE IF t.pc # "broker" THEN r = Broker!Idle
    ELSE /\ r.todo = {}
         /\ IF FrameOf(t) = "request" THEN r.pc \in {"generate", "record"}
            ELSE r.pc \in Revoking /\ r.lease = t.message.argument

CallsInv ==
    /\ \A h \in Caller : Fits(h, op[h], task[h], server.pc)
    /\ closed => server.pc \in {"shutdown", "exited"}
    /\ late # {} => closed /\ server.mode = "sse"
    /\ server.pc = "exited" /\ server.mode # "none" => closed /\ op[Main].pc = "idle"

\* The lease is in the map, and marked.
Marked(l) == leases[l] # 0 /\ Broker!Current(l).revoked

\* The message asks to revoke l, by the method or through tools/call.
Asks(m, l) ==
    m.argument = l /\ (m.method = "revoke" \/ (m.method = "call" /\ m.tool = "revoke"))

Succeeded(t) ==
    t.outcome = "result" \/ (t.pc = "leave" /\ ~t.failed /\ FrameOf(t) # "call")

AnswersInv ==
    /\ \A h \in Caller, l \in Lease : Asks(task[h].message, l) /\ Succeeded(task[h]) => Marked(l)
    /\ \A l \in revoked : Marked(l)

SideInv == Generic /\ Issuing /\ CallsInv /\ AnswersInv

\* The types of the broker.
LEMMA BrokerTypes ==
  ASSUME RunInv
  PROVE  /\ Broker!TypeOK
         /\ \A g \in Broker!Goroutine :
              /\ op[g].pc \in {"record", "drop", "mark"} => op[g].lease \in Lease
              /\ g \in Broker!Timer =>
                    /\ op[g].pc \in {"idle", "armed", "stopped", "fired", "done", "drop", "mark"}
                    /\ op[g].todo = {}
                    /\ op[g].pc \in Revoking => op[g].lease = g[1]
<1>1. Proved!TypeOK /\ \A g \in Proved!Goroutine : Proved!RecordOK(g, op[g])
  BY DEF RunInv, Proved!WellFormed, Proved!OperationsOK
<1>2. /\ Broker!Object = Proved!Object /\ Broker!Driver = Proved!Driver /\ Broker!Point = Proved!Point
      /\ Broker!Credential = Proved!Credential /\ Broker!Operation = Proved!Operation
  BY SameData DEF Broker!Object, Proved!Object, Broker!Driver, Proved!Driver, Broker!Point,
     Proved!Point, Broker!Credential, Proved!Credential, Broker!Operation, Proved!Operation
<1>3. Broker!TypeOK
  BY <1>1, <1>2, SameData DEF Broker!TypeOK, Proved!TypeOK
<1> QED BY <1>1, <1>3, SameData DEF Proved!RecordOK, Revoking

\* A timer at one of these points is in no call.
Resting == {"idle", "armed", "stopped", "fired", "done"}

SameCall(r, s) == r.lease = s.lease /\ r.version = s.version /\ r.driver = s.driver /\ r.todo = s.todo

\* Nobody but g moves, and timers that are armed or stopped stay out of calls.
Lone(g) ==
    /\ \A k \in Caller \ {g} : op'[k] = op[k]
    /\ \A k \in Broker!Goroutine \ {g} :
          /\ SameCall(op'[k], op[k])
          /\ op'[k].pc = op[k].pc \/ (k \in Broker!Timer /\ {op[k].pc, op'[k].pc} \subseteq Resting)

\* A step of g that issues no lease.
Quiet(g) ==
    /\ Lone(g) /\ GenericOK(op'[g])
    /\ op[g].pc # "record" /\ op'[g].pc # "record"
    /\ op'[g].pc \in Revoking => leases[op'[g].lease] # 0
    /\ \A l \in Lease : /\ credential'[l].driver = credential[l].driver
                        /\ credential'[l].state = "none" <=> credential[l].state = "none"
                        /\ Marked(l) => Marked(l)'
    /\ UNCHANGED <<leases, drivers, revokeFailed, late>>

LEMMA OnlyGeneric ==
  ASSUME RunInv, Generic, NEW t \in Target
  PROVE  Broker!DriverFor(t) = "generic_token"
<1>1. /\ InitialDrivers[t] \in {None, "generic_token"}
      /\ "generic_token" \in Target /\ InitialDrivers["generic_token"] # None
  BY StandaloneAssumption DEF Broker!BrokerAssumption, Broker!Driver
<1>2. InitialDrivers["generic_token"] = "generic_token"
  BY <1>1, StandaloneAssumption
<1> QED BY <1>1, <1>2 DEF Generic, Broker!DriverFor

\* One goroutine moves to the record r.
LEMMA LoneMove ==
  ASSUME RunInv, NEW g \in Broker!Goroutine, NEW r, op' = [op EXCEPT ![g] = r]
  PROVE  Lone(g) /\ op'[g] = r
<1>1. op \in [Broker!Goroutine -> Broker!Operation] /\ \A k \in Caller : k \in Broker!Goroutine
  BY BrokerTypes, RunFacts DEF Broker!TypeOK
<1> QED BY <1>1 DEF Lone, SameCall

\* The same with timers that are stopped.
LEMMA LoneStop ==
  ASSUME RunInv, NEW g \in Broker!Goroutine, NEW T \in SUBSET Broker!Timer, NEW r,
         op' = [Broker!Stop(op, T) EXCEPT ![g] = r]
  PROVE  Lone(g) /\ op'[g] = r
<1>1. /\ op \in [Broker!Goroutine -> Broker!Operation]
      /\ \A k \in Caller : k \in Broker!Goroutine /\ k \notin Broker!Timer
  BY BrokerTypes, RunFacts DEF Broker!TypeOK
<1> DEFINE o == Broker!Stop(op, T)
<1>2. /\ DOMAIN o = Broker!Goroutine
      /\ \A k \in Broker!Goroutine :
            o[k] = IF k \in T /\ op[k].pc = "armed" THEN [op[k] EXCEPT !.pc = "stopped"] ELSE op[k]
  BY DEF Broker!Stop
<1>3. ASSUME NEW k \in Broker!Goroutine
      PROVE  /\ k \in Caller => o[k] = op[k]
             /\ SameCall(o[k], op[k])
             /\ o[k].pc = op[k].pc \/ (k \in Broker!Timer /\ {op[k].pc, o[k].pc} \subseteq Resting)
  <2>1. op[k] \in Broker!Operation
    BY <1>1
  <2>2. CASE k \in T /\ op[k].pc = "armed"
    <3>1. o[k] = [op[k] EXCEPT !.pc = "stopped"]
      BY <1>2, <2>2
    <3>2. o[k].pc = "stopped" /\ SameCall(o[k], op[k])
      <4> HIDE DEF o
      <4> QED BY <2>1, <3>1 DEF Broker!Operation, SameCall
    <3> QED BY <1>1, <2>2, <3>2 DEF Resting
  <2>3. CASE ~(k \in T /\ op[k].pc = "armed")
    <3>1. o[k] = op[k]
      BY <1>2, <2>3
    <3> HIDE DEF o
    <3> QED BY <3>1 DEF SameCall
  <2> QED BY <2>2, <2>3
<1>4. op' = [o EXCEPT ![g] = r]
  OBVIOUS
<1> HIDE DEF o
<1>5. /\ op'[g] = r
      /\ \A k \in Broker!Goroutine \ {g} : op'[k] = o[k]
  BY <1>2, <1>4
<1> QED BY <1>1, <1>3, <1>5 DEF Lone


\* What each step of the broker does, as far as the server can tell.

LEMMA IssueEffect ==
  ASSUME RunInv, SideInv, NEW h \in Caller, NEW t \in RequestTarget, NEW x \in RequestTTL,
         Broker!IssueLease(h, t, x)
  PROVE  /\ Quiet(h) /\ op'[h].pc = "generate" /\ op'[h].todo = op[h].todo
         /\ closed' = closed
<1> DEFINE q == [Broker!NoObject EXCEPT !.target = t, !.ttl = Broker!Granted(x)]
           r == [op[h] EXCEPT !.pc = "generate", !.driver = Broker!DriverFor(t), !.object = q]
<1>1. h \in Broker!Goroutine /\ op[h] \in Broker!Operation /\ Generic
  BY RunFacts, BrokerTypes DEF Broker!TypeOK, SideInv
<1>2. t \in Target
  BY StandaloneAssumption DEF Broker!BrokerAssumption
<1>3. Broker!DriverFor(t) = "generic_token"
  BY <1>1, <1>2, OnlyGeneric
<1>4. r.pc = "generate" /\ r.driver = "generic_token" /\ r.todo = op[h].todo
  BY <1>1, <1>3 DEF Broker!Operation
<1>5. op' = [op EXCEPT ![h] = r] /\ op[h].pc = "idle"
  BY DEF Broker!IssueLease
<1> HIDE DEF r
<1>6. Lone(h) /\ op'[h] = r
  BY <1>1, <1>5, LoneMove
<1>7. UNCHANGED <<closed, drivers, leases, object, credential, revokeFailed, late>>
  BY DEF Broker!IssueLease
<1>8. \A l : Marked(l) => Marked(l)'
  BY <1>7 DEF Marked, Broker!Current
<1> QED BY <1>4, <1>5, <1>6, <1>7, <1>8 DEF Quiet, GenericOK, Revoking

\* The goroutine h has a new secret, for the lease l.
Mints(h, l) ==
    /\ Lone(h) /\ GenericOK(op'[h])
    /\ op'[h].pc = "record" /\ op'[h].lease = l /\ op'[h].todo = op[h].todo
    /\ credential[l].state = "none" /\ credential'[l].state # "none"
    /\ credential'[l].driver = "generic_token"
    /\ \A k \in Lease \ {l} : credential'[k] = credential[k]
    /\ UNCHANGED <<leases, object, drivers, revokeFailed, late, closed>>

LEMMA GenerateEffect ==
  ASSUME RunInv, SideInv, NEW h \in Caller, Broker!Generate(h)
  PROVE  /\ op[h].pc = "generate"
         /\ \/ Quiet(h) /\ op'[h] = Broker!Idle /\ closed' = closed
            \/ \E l \in Lease : Mints(h, l)
<1>1. h \in Broker!Goroutine /\ op[h] \in Broker!Operation /\ Generic /\ op[h].pc = "generate"
  BY RunFacts, BrokerTypes DEF Broker!TypeOK, SideInv, Broker!Generate
<1>2. GenericOK(op[h]) /\ credential \in [Lease -> Broker!Credential]
  BY <1>1, BrokerTypes DEF Generic, Broker!TypeOK
<1>3. UNCHANGED <<closed, drivers, leases, object, revokeFailed, late>>
  BY DEF Broker!Generate
<1>4. CASE op' = [op EXCEPT ![h] = Broker!Idle] /\ UNCHANGED credential
  <2>1. Lone(h) /\ op'[h] = Broker!Idle
    BY <1>1, <1>4, LoneMove
  <2>2. Broker!Idle.pc = "idle" /\ Broker!Idle.driver = "generic_token"
    BY DEF Broker!Idle
  <2>3. \A l : Marked(l) => Marked(l)'
    BY <1>3 DEF Marked, Broker!Current
  <2> QED BY <1>1, <1>3, <1>4, <2>1, <2>2, <2>3 DEF Quiet, GenericOK, Revoking
<1>5. ASSUME NEW l \in Lease, credential[l].state = "none",
             credential' = [credential EXCEPT ![l] = [driver |-> op[h].driver, state |-> "live"]],
             op' = [op EXCEPT ![h].pc = "record",
                              ![h].lease = l,
                              ![h].object.target = IF op[h].driver = "generic_token"
                                                   THEN @ ELSE op[h].driver,
                              ![h].object.expiresAt = now + op[h].object.ttl]
      PROVE  Mints(h, l)
  <2> DEFINE n == IF op[h].driver = "generic_token" THEN op[h].object.target ELSE op[h].driver
             e == now + op[h].object.ttl
             q == [op[h].object EXCEPT !.target = n, !.expiresAt = e]
             r == [op[h] EXCEPT !.pc = "record", !.lease = l, !.object = q]
  <2>1. op' = [op EXCEPT ![h] = r]
    BY <1>5, ZenonT(30)
  <2>2. r.pc = "record" /\ r.lease = l /\ r.todo = op[h].todo /\ r.driver = op[h].driver
    <3> HIDE DEF q
    <3> QED BY <1>1 DEF Broker!Operation
  <2> HIDE DEF r
  <2>3. Lone(h) /\ op'[h] = r
    BY <1>1, <2>1, LoneMove
  <2>4. /\ credential'[l] = [driver |-> op[h].driver, state |-> "live"]
        /\ \A k \in Lease \ {l} : credential'[k] = credential[k]
    BY <1>2, <1>5
  <2> QED BY <1>2, <1>3, <1>5, <2>2, <2>3, <2>4 DEF Mints, GenericOK, Revoking
<1> QED BY <1>1, <1>4, <1>5 DEF Broker!Generate

LEMMA RecordEffect ==
  ASSUME RunInv, SideInv, NEW h \in Caller, Broker!RecordLease(h)
  PROVE  /\ op[h].pc = "record" /\ op'[h] = Broker!Idle /\ Lone(h) /\ GenericOK(op'[h])
         /\ op[h].lease \in Lease /\ leases' = [leases EXCEPT ![op[h].lease] = 1]
         /\ \A l \in Lease : Marked(l) => Marked(l)'
         /\ late' # {} => late # {} \/ closed
         /\ UNCHANGED <<credential, drivers, revokeFailed, closed>>
<1> DEFINE l == op[h].lease
           t == <<l, 1>>
           o == [op EXCEPT ![t].pc = "armed"]
<1>1. /\ h \in Broker!Goroutine /\ h \notin Broker!Timer /\ op[h].pc = "record" /\ l \in Lease
      /\ Generic /\ Issuing /\ leases \in [Lease -> 0 .. MaxRenewals + 1]
      /\ object \in [Lease -> [Broker!Version -> Broker!Object]]
      /\ op \in [Broker!Goroutine -> Broker!Operation]
      /\ \A k \in Caller : k \in Broker!Goroutine /\ k \notin Broker!Timer
  BY RunFacts, BrokerTypes DEF Broker!TypeOK, SideInv, Broker!RecordLease
<1>2. t \in Broker!Timer /\ t \in Broker!Goroutine /\ 1 \in Broker!Version
  BY <1>1, StandaloneAssumption DEF Broker!Timer, Broker!Version, Broker!Goroutine,
     Broker!BrokerAssumption
<1>3. leases[l] = 0
  BY <1>1 DEF Issuing
<1>4. op[t].pc \in Resting
  <2>1. op[t].pc \in {"idle", "armed", "stopped", "fired", "done", "drop", "mark"}
        /\ (op[t].pc \in Revoking => op[t].lease = t[1])
    BY <1>2, BrokerTypes
  <2>2. op[t].pc \in Revoking => leases[op[t].lease] # 0
    BY <1>1, <1>2 DEF Issuing
  <2>3. t[1] = l
    OBVIOUS
  <2> HIDE DEF t, l
  <2> QED BY <1>3, <2>1, <2>2, <2>3 DEF Revoking, Resting
<1>5. op' = [o EXCEPT ![h] = Broker!Idle]
  BY DEF Broker!RecordLease
<1>6. /\ o[t].pc = "armed" /\ SameCall(o[t], op[t])
      /\ \A k \in Broker!Goroutine \ {t} : o[k] = op[k]
      /\ DOMAIN o = Broker!Goroutine
  <2> HIDE DEF t
  <2>1. op[t] \in Broker!Operation
    BY <1>1, <1>2
  <2> QED BY <1>1, <1>2, <2>1 DEF SameCall, Broker!Operation
<1>7. op'[h] = Broker!Idle /\ Lone(h)
  <2> HIDE DEF o, t
  <2>1. op'[h] = Broker!Idle /\ \A k \in Broker!Goroutine \ {h} : op'[k] = o[k]
    BY <1>1, <1>5, <1>6
  <2>2. \A k \in Caller \ {h} : op'[k] = op[k]
    BY <1>1, <1>2, <1>6, <2>1
  <2>3. ASSUME NEW k \in Broker!Goroutine \ {h}
        PROVE  /\ SameCall(op'[k], op[k])
               /\ op'[k].pc = op[k].pc \/ (k \in Broker!Timer /\ {op[k].pc, op'[k].pc} \subseteq Resting)
    <3>1. CASE k = t
      BY <1>2, <1>4, <1>6, <2>1, <3>1 DEF Resting
    <3>2. CASE k # t
      BY <1>6, <2>1, <3>2 DEF SameCall
    <3> QED BY <3>1, <3>2
  <2> QED BY <2>1, <2>2, <2>3 DEF Lone
<1>8. GenericOK(op'[h])
  BY <1>7 DEF Broker!Idle, GenericOK, Revoking
<1>9. /\ leases' = [leases EXCEPT ![l] = 1] /\ object' = [object EXCEPT ![l][1] = op[h].object]
      /\ late' = IF closed THEN late \cup {l} ELSE late
      /\ UNCHANGED <<credential, drivers, revokeFailed, closed>>
  BY DEF Broker!RecordLease
<1>10. ASSUME NEW k \in Lease, Marked(k) PROVE Marked(k)'
  <2>1. k # l
    BY <1>3, <1>10 DEF Marked
  <2>2. leases'[k] = leases[k] /\ object'[k] = object[k]
    BY <1>1, <1>9, <2>1
  <2> QED BY <1>10, <2>2 DEF Marked, Broker!Current
<1> QED BY <1>1, <1>7, <1>8, <1>9, <1>10

LEMMA RevokeEffect ==
  ASSUME RunInv, SideInv, NEW g \in Broker!Goroutine, NEW l \in Lease, Broker!RevokeLease(g, l)
  PROVE  /\ Quiet(g) /\ op'[g].pc = "drop" /\ op'[g].lease = l /\ op'[g].todo = op[g].todo
         /\ closed' = closed
<1> DEFINE r == [op[g] EXCEPT !.pc = "drop", !.lease = l, !.version = leases[l],
                              !.driver = Broker!DriverFor(Broker!Current(l).target)]
           T == Broker!Registered(l)
<1>1. /\ op[g] \in Broker!Operation /\ Generic /\ leases[l] # 0
      /\ leases \in [Lease -> 0 .. MaxRenewals + 1]
      /\ object \in [Lease -> [Broker!Version -> Broker!Object]]
  BY BrokerTypes DEF Broker!TypeOK, SideInv, Broker!RevokeLease, Broker!Unrevoked, Broker!Recorded
<1>2. leases[l] = 1 /\ leases[l] \in Broker!Version
  BY <1>1, StandaloneAssumption DEF Generic, Broker!Version, Broker!BrokerAssumption
<1>3. Broker!Current(l).target \in Target
  BY <1>1, <1>2 DEF Broker!Current, Broker!Object
<1>4. Broker!DriverFor(Broker!Current(l).target) = "generic_token"
  BY <1>1, <1>3, OnlyGeneric
<1>5. /\ r.pc = "drop" /\ r.lease = l /\ r.todo = op[g].todo /\ r.version = 1
      /\ r.driver = "generic_token"
  BY <1>1, <1>2, <1>4 DEF Broker!Operation
<1>6. op' = [Broker!Stop(op, T) EXCEPT ![g] = r] /\ T \in SUBSET Broker!Timer
  BY DEF Broker!RevokeLease, Broker!Registered, Broker!Timer
<1> HIDE DEF r, T
<1>7. Lone(g) /\ op'[g] = r
  BY <1>6, LoneStop
<1>8. UNCHANGED <<closed, drivers, leases, object, credential, revokeFailed, late>>
  BY DEF Broker!RevokeLease
<1>9. \A k : Marked(k) => Marked(k)'
  BY <1>8 DEF Marked, Broker!Current
<1>10. op[g].pc # "record"
  BY DEF Broker!RevokeLease, Broker!CallsRevoke
<1> QED BY <1>1, <1>5, <1>7, <1>8, <1>9, <1>10 DEF Quiet, GenericOK, Revoking


LEMMA NothingEffect ==
  ASSUME RunInv, SideInv, NEW g \in Broker!Goroutine, NEW l \in Lease, op[g].pc # "idle",
         Broker!RevokeNothing(g, l)
  PROVE  /\ Quiet(g) /\ (g \in Caller => op[g].pc = "shutdown" /\ op'[g].pc = "shutdown")
         /\ closed' = closed
<1> DEFINE r == IF g \in Broker!Timer THEN [Broker!Idle EXCEPT !.pc = "done"]
                ELSE [op[g] EXCEPT !.todo = op[g].todo \ {l}]
<1>1. /\ op[g] \in Broker!Operation /\ Generic /\ GenericOK(op[g])
      /\ g \in Caller => g \notin Broker!Timer
      /\ op[g].pc \in {"fired", "shutdown"} /\ (g \in Caller \/ g \in Broker!Timer)
  BY BrokerTypes, RunFacts DEF Broker!TypeOK, SideInv, Broker!RevokeNothing, Broker!CallsRevoke,
     Generic, Broker!Goroutine
<1>2. g \in Caller => op[g].pc = "shutdown"
  BY <1>1 DEF Broker!RevokeNothing, Broker!CallsRevoke
<1>3. op' = [op EXCEPT ![g] = r]
  BY DEF Broker!RevokeNothing
<1>4. GenericOK(r) /\ r.pc \in {"done", op[g].pc} /\ (g \in Caller => r.pc = op[g].pc)
  <2>1. CASE g \in Broker!Timer
    <3>1. r = [Broker!Idle EXCEPT !.pc = "done"]
      BY <2>1
    <3>2. r.pc = "done" /\ r.driver = "generic_token"
      <4> HIDE DEF r
      <4> QED BY <3>1 DEF Broker!Idle
    <3> HIDE DEF r
    <3> QED BY <1>1, <2>1, <3>2 DEF GenericOK, Revoking
  <2>2. CASE g \notin Broker!Timer
    <3>1. r = [op[g] EXCEPT !.todo = op[g].todo \ {l}]
      BY <2>2
    <3>2. r.pc = op[g].pc /\ r.driver = op[g].driver
      <4> HIDE DEF r
      <4> QED BY <1>1, <3>1 DEF Broker!Operation
    <3> HIDE DEF r
    <3> QED BY <1>1, <3>2 DEF GenericOK, Revoking
  <2> QED BY <2>1, <2>2
<1> HIDE DEF r
<1>5. Lone(g) /\ op'[g] = r
  BY <1>3, LoneMove
<1>6. UNCHANGED <<closed, drivers, leases, object, credential, revokeFailed, late>>
  BY DEF Broker!RevokeNothing
<1>7. \A k : Marked(k) => Marked(k)'
  BY <1>6 DEF Marked, Broker!Current
<1> QED BY <1>1, <1>2, <1>4, <1>5, <1>6, <1>7 DEF Quiet, Revoking

LEMMA DropEffect ==
  ASSUME RunInv, SideInv, NEW g \in Broker!Goroutine, Broker!DropCredential(g)
  PROVE  /\ op[g].pc = "drop" /\ Quiet(g) /\ op'[g].pc = "mark"
         /\ op'[g].lease = op[g].lease /\ op'[g].todo = op[g].todo
         /\ closed' = closed
<1> DEFINE r == [op[g] EXCEPT !.pc = "mark"]
           l == op[g].lease
<1>1. /\ op[g] \in Broker!Operation /\ GenericOK(op[g]) /\ op[g].pc = "drop"
      /\ l \in Lease /\ leases[l] # 0 /\ credential \in [Lease -> Broker!Credential]
  BY BrokerTypes DEF Broker!TypeOK, SideInv, Broker!DropCredential, Generic, Issuing, Revoking
<1>2. /\ r.pc = "mark" /\ r.lease = op[g].lease /\ r.todo = op[g].todo
      /\ r.version = op[g].version /\ r.driver = op[g].driver
  BY <1>1 DEF Broker!Operation
<1>3. op' = [op EXCEPT ![g] = r]
  BY DEF Broker!DropCredential
<1> HIDE DEF r
<1>4. Lone(g) /\ op'[g] = r
  BY <1>3, LoneMove
<1>5. op[g].driver \notin FailingDrivers
  BY <1>1, StandaloneAssumption DEF GenericOK, Broker!BrokerAssumption
<1>6. /\ credential' = [credential EXCEPT ![l].state =
                            IF op[g].driver = credential[l].driver THEN "dropped" ELSE @]
      /\ revokeFailed' = revokeFailed
  BY <1>5 DEF Broker!DropCredential
<1>7. \A k \in Lease : /\ credential'[k].driver = credential[k].driver
                       /\ credential'[k].state = "none" <=> credential[k].state = "none"
  <2>1. credential[l].state # "none"
    BY <1>1 DEF SideInv, Issuing
  <2>2. credential[l] \in Broker!Credential
    BY <1>1
  <2>3. ASSUME NEW k \in Lease, k # l PROVE credential'[k] = credential[k]
    BY <1>1, <1>6, <2>3
  <2>4. PICK s \in {"dropped", credential[l].state} : credential' = [credential EXCEPT ![l].state = s]
    BY <1>6
  <2>5. credential'[l] = [credential[l] EXCEPT !.state = s]
    BY <1>1, <2>4
  <2>6. credential'[l].driver = credential[l].driver /\ credential'[l].state # "none"
    BY <2>1, <2>2, <2>5 DEF Broker!Credential
  <2> QED BY <2>1, <2>3, <2>6
<1>8. UNCHANGED <<closed, drivers, leases, object, late>>
  BY DEF Broker!DropCredential
<1>9. \A k : Marked(k) => Marked(k)'
  BY <1>8 DEF Marked, Broker!Current
<1> QED BY <1>1, <1>2, <1>4, <1>6, <1>7, <1>8, <1>9 DEF Quiet, GenericOK, Revoking

LEMMA MarkEffect ==
  ASSUME RunInv, SideInv, NEW g \in Broker!Goroutine, Broker!MarkRevoked(g)
  PROVE  /\ op[g].pc = "mark" /\ Quiet(g)
         /\ \A l \in Lease : l = op[g].lease => Marked(l)'
         /\ g \in Caller => op'[g].pc \in {"idle", "shutdown"}
         /\ g \in Caller /\ op[g].todo = {} => op'[g] = Broker!Idle
         /\ closed' = closed
<1> DEFINE r == Broker!Return(g)
           l == op[g].lease
           v == op[g].version
<1>1. /\ op[g] \in Broker!Operation /\ GenericOK(op[g]) /\ op[g].pc = "mark"
      /\ l \in Lease /\ leases[l] = 1 /\ v = 1
      /\ object \in [Lease -> [Broker!Version -> Broker!Object]]
  BY BrokerTypes DEF Broker!TypeOK, SideInv, Broker!MarkRevoked, Generic, GenericOK, Issuing, Revoking
<1>2. g \in Caller => g \notin Broker!Timer
  BY RunFacts
<1>3. /\ r.pc \in {"done", "idle", "shutdown"} /\ r.driver = "generic_token"
      /\ g \in Caller => r.pc \in {"idle", "shutdown"}
      /\ g \in Caller /\ op[g].todo = {} => r = Broker!Idle
  BY <1>2 DEF Broker!Return, Broker!Idle
<1>4. op' = [op EXCEPT ![g] = r] /\ object' = [object EXCEPT ![l][v].revoked = TRUE]
      /\ UNCHANGED <<closed, drivers, leases, credential, revokeFailed, late>>
  BY DEF Broker!MarkRevoked
<1> HIDE DEF r
<1>5. Lone(g) /\ op'[g] = r
  BY <1>4, LoneMove
<1>6. ASSUME NEW k \in Lease, Marked(k) \/ k = l PROVE Marked(k)'
  <2>1. 1 \in Broker!Version
    BY StandaloneAssumption DEF Broker!Version, Broker!BrokerAssumption
  <2>2. CASE k = l
    <3>1. object[l][1] \in Broker!Object
      BY <1>1, <2>1
    <3>2. object'[l][1] = [object[l][1] EXCEPT !.revoked = TRUE]
      BY <1>1, <1>4, <2>1
    <3>3. object'[l][1].revoked = TRUE
      BY <3>1, <3>2 DEF Broker!Object
    <3> QED BY <1>1, <1>4, <2>2, <3>3 DEF Marked, Broker!Current
  <2>3. CASE k # l
    <3>1. object'[k] = object[k] /\ Marked(k)
      BY <1>1, <1>4, <1>6, <2>3
    <3> QED BY <1>4, <3>1 DEF Marked, Broker!Current
  <2> QED BY <2>2, <2>3
<1>7. GenericOK(r) /\ r.pc \notin Revoking \cup {"record"}
  BY <1>3 DEF GenericOK, Revoking
<1> QED BY <1>1, <1>3, <1>4, <1>5, <1>6, <1>7 DEF Quiet

LEMMA ShutdownEffect ==
  ASSUME RunInv, SideInv, NEW g \in Caller, Broker!Shutdown(g)
  PROVE  Quiet(g) /\ op'[g].pc = "shutdown" /\ closed'
<1> DEFINE r == [Broker!Idle EXCEPT !.pc = "shutdown", !.todo = {l \in Lease : timers[l] # 0}]
           T == UNION {Broker!Registered(l) : l \in Lease}
<1>1. g \in Broker!Goroutine
  BY RunFacts
<1>2. r.pc = "shutdown" /\ r.driver = "generic_token"
  BY DEF Broker!Idle
<1>3. T \in SUBSET Broker!Timer
  BY DEF Broker!Registered, Broker!Timer
<1>4. op' = [Broker!Stop(op, T) EXCEPT ![g] = r] /\ op[g].pc = "idle" /\ closed'
  BY DEF Broker!Shutdown
<1> HIDE DEF r, T
<1>5. Lone(g) /\ op'[g] = r
  BY <1>1, <1>3, <1>4, LoneStop
<1>6. UNCHANGED <<drivers, leases, object, credential, revokeFailed, late>>
  BY DEF Broker!Shutdown
<1>7. \A k : Marked(k) => Marked(k)'
  BY <1>6 DEF Marked, Broker!Current
<1> QED BY <1>2, <1>4, <1>5, <1>6, <1>7 DEF Quiet, GenericOK, Revoking

LEMMA ShutdownReturnsEffect ==
  ASSUME RunInv, SideInv, NEW g \in Broker!Goroutine, Broker!ShutdownReturns(g)
  PROVE  Quiet(g) /\ op[g].pc = "shutdown" /\ op'[g] = Broker!Idle /\ closed' = closed
<1>1. /\ op[g].pc = "shutdown" /\ op' = [op EXCEPT ![g] = Broker!Idle]
      /\ UNCHANGED <<closed, drivers, leases, object, credential, revokeFailed, late>>
  BY DEF Broker!ShutdownReturns
<1>2. Lone(g) /\ op'[g] = Broker!Idle
  BY <1>1, LoneMove
<1>3. Broker!Idle.pc = "idle" /\ Broker!Idle.driver = "generic_token"
  BY DEF Broker!Idle
<1>4. \A k : Marked(k) => Marked(k)'
  BY <1>1 DEF Marked, Broker!Current
<1> QED BY <1>1, <1>2, <1>3, <1>4 DEF Quiet, GenericOK, Revoking

LEMMA FireEffect ==
  ASSUME RunInv, SideInv, NEW g \in Broker!Timer, Broker!Fire(g)
  PROVE  Quiet(g) /\ closed' = closed
<1> DEFINE r == [op[g] EXCEPT !.pc = "fired"]
<1>1. /\ op[g].pc = "armed" /\ op' = [op EXCEPT ![g] = r]
      /\ UNCHANGED <<closed, drivers, leases, object, credential, revokeFailed, late>>
  BY DEF Broker!Fire
<1>2. g \in Broker!Goroutine /\ op[g] \in Broker!Operation /\ GenericOK(op[g])
  BY BrokerTypes DEF Broker!TypeOK, Broker!Goroutine, SideInv, Generic
<1>3. r.pc = "fired" /\ r.driver = op[g].driver
  BY <1>2 DEF Broker!Operation
<1> HIDE DEF r
<1>4. Lone(g) /\ op'[g] = r
  BY <1>1, <1>2, LoneMove
<1>5. \A k : Marked(k) => Marked(k)'
  BY <1>1 DEF Marked, Broker!Current
<1> QED BY <1>1, <1>2, <1>3, <1>4, <1>5 DEF Quiet, GenericOK, Revoking


\* The parts of the invariant, step by step.

LEMMA GenericKept ==
  ASSUME RunInv, Generic, NEW g \in Broker!Goroutine, Lone(g), GenericOK(op'[g]),
         UNCHANGED <<drivers, revokeFailed>>,
         \A l \in Lease : credential'[l].driver = "generic_token" /\ leases'[l] \in {0, 1}
  PROVE  Generic'
<1>1. ASSUME NEW k \in Broker!Goroutine, k # g PROVE GenericOK(op'[k])
  <2>1. GenericOK(op[k])
    BY DEF Generic
  <2>2. /\ op'[k].driver = op[k].driver /\ op'[k].version = op[k].version
        /\ op'[k].pc = op[k].pc \/ op'[k].pc \in Resting
    BY <1>1 DEF Lone, SameCall
  <2> QED BY <2>1, <2>2 DEF GenericOK, Revoking, Resting
<1>2. \A k \in Broker!Goroutine : GenericOK(op'[k])
  BY <1>1
<1>3. drivers' = drivers /\ revokeFailed' = revokeFailed
  OBVIOUS
<1>4. Broker!Goroutine' = Broker!Goroutine
  BY DEF Broker!Goroutine, Broker!Timer, Broker!Version
<1> QED BY <1>2, <1>3, <1>4 DEF Generic, GenericOK

\* What the others are doing still fits the map and the credentials.
LEMMA OthersIssue ==
  ASSUME RunInv, Issuing, NEW g \in Broker!Goroutine, Lone(g),
         \A l \in Lease : /\ credential[l].state # "none" => credential'[l].state # "none"
                          /\ leases[l] # 0 => leases'[l] # 0
  PROVE  \A k \in Broker!Goroutine \ {g} :
            /\ op'[k].pc = "record" => /\ k \in Caller /\ op'[k].lease = op[k].lease
                                       /\ op[k].pc = "record" /\ op[k].lease \in Lease
                                       /\ credential'[op'[k].lease].state # "none"
            /\ op'[k].pc \in Revoking => leases'[op'[k].lease] # 0
<1> TAKE k \in Broker!Goroutine \ {g}
<1>1. /\ op'[k].lease = op[k].lease
      /\ op'[k].pc = op[k].pc \/ op'[k].pc \in Resting
  BY DEF Lone, SameCall
<1>2. op[k].pc \in {"record", "drop", "mark"} => op[k].lease \in Lease
  BY BrokerTypes
<1>3. /\ op[k].pc = "record" => k \in Caller /\ credential[op[k].lease].state # "none"
      /\ op[k].pc \in Revoking => leases[op[k].lease] # 0
  BY DEF Issuing
<1>4. op'[k].pc \in {"record", "drop", "mark"} => op[k].pc = op'[k].pc
  BY <1>1 DEF Resting
<1>5. ASSUME op'[k].pc = "record"
      PROVE  /\ k \in Caller /\ op'[k].lease = op[k].lease
             /\ op[k].pc = "record" /\ op[k].lease \in Lease
             /\ credential'[op'[k].lease].state # "none"
  BY <1>1, <1>2, <1>3, <1>4, <1>5
<1>6. ASSUME op'[k].pc \in Revoking PROVE leases'[op'[k].lease] # 0
  BY <1>1, <1>2, <1>3, <1>4, <1>6 DEF Revoking
<1> QED BY <1>5, <1>6

LEMMA QuietKeeps ==
  ASSUME RunInv, Generic, Issuing, NEW g \in Broker!Goroutine, Quiet(g)
  PROVE  Generic' /\ Issuing'
<1>1. /\ Lone(g) /\ GenericOK(op'[g]) /\ op[g].pc # "record" /\ op'[g].pc # "record"
      /\ op'[g].pc \in Revoking => leases[op'[g].lease] # 0
      /\ \A l \in Lease : /\ credential'[l].driver = credential[l].driver
                          /\ credential'[l].state = "none" <=> credential[l].state = "none"
      /\ leases' = leases /\ UNCHANGED <<drivers, revokeFailed>>
  BY DEF Quiet
<1>2. \A l \in Lease : credential'[l].driver = "generic_token" /\ leases'[l] \in {0, 1}
  BY <1>1 DEF Generic
<1>3. Generic'
  BY <1>1, <1>2, GenericKept
<1>4. \A k \in Broker!Goroutine \ {g} :
            /\ op'[k].pc = "record" => /\ k \in Caller /\ op'[k].lease = op[k].lease
                                       /\ op[k].pc = "record" /\ op[k].lease \in Lease
                                       /\ credential'[op'[k].lease].state # "none"
            /\ op'[k].pc \in Revoking => leases'[op'[k].lease] # 0
  BY <1>1, OthersIssue
<1>5. \A k \in Broker!Goroutine :
          /\ op'[k].pc = "record" => k \in Caller /\ leases'[op'[k].lease] = 0
                                    /\ credential'[op'[k].lease].state # "none"
          /\ op'[k].pc \in Revoking => leases'[op'[k].lease] # 0
  BY <1>1, <1>4 DEF Issuing
<1>6. \A j, k \in Broker!Goroutine :
          op'[j].pc = "record" /\ op'[k].pc = "record" /\ j # k => op'[j].lease # op'[k].lease
  BY <1>1, <1>4 DEF Issuing
<1>7. ASSUME NEW l \in Lease, credential'[l].state # "none", leases'[l] = 0
      PROVE  \E k \in Caller : op'[k].pc = "record" /\ op'[k].lease = l
  <2>1. PICK k \in Caller : op[k].pc = "record" /\ op[k].lease = l
    BY <1>1, <1>7 DEF Issuing, BeingIssued
  <2>2. op'[k] = op[k]
    BY <1>1, <2>1 DEF Lone
  <2> QED BY <2>1, <2>2
<1>8. \A l \in Lease : leases'[l] # 0 => credential'[l].state # "none"
  BY <1>1 DEF Issuing
<1>9. Broker!Goroutine' = Broker!Goroutine
  BY DEF Broker!Goroutine, Broker!Timer, Broker!Version
<1> QED BY <1>3, <1>5, <1>6, <1>7, <1>8, <1>9 DEF Issuing, BeingIssued

LEMMA MintKeeps ==
  ASSUME RunInv, Generic, Issuing, NEW h \in Caller, NEW l \in Lease, Mints(h, l),
         op[h].pc # "record"
  PROVE  Generic' /\ Issuing'
<1>1. /\ Lone(h) /\ GenericOK(op'[h]) /\ op'[h].pc = "record" /\ op'[h].lease = l
      /\ credential[l].state = "none" /\ credential'[l].state # "none"
      /\ credential'[l].driver = "generic_token"
      /\ \A k \in Lease \ {l} : credential'[k] = credential[k]
      /\ leases' = leases /\ UNCHANGED <<drivers, revokeFailed>>
  BY DEF Mints
<1>2. h \in Broker!Goroutine
  BY RunFacts
<1>3. \A k \in Lease : credential'[k].driver = "generic_token" /\ leases'[k] \in {0, 1}
  BY <1>1 DEF Generic
<1>4. Generic'
  BY <1>1, <1>2, <1>3, GenericKept
<1>5. \A k \in Broker!Goroutine \ {h} :
            /\ op'[k].pc = "record" => /\ k \in Caller /\ op'[k].lease = op[k].lease
                                       /\ op[k].pc = "record" /\ op[k].lease \in Lease
                                       /\ credential'[op'[k].lease].state # "none"
            /\ op'[k].pc \in Revoking => leases'[op'[k].lease] # 0
  BY <1>1, <1>2, OthersIssue
<1>6. leases[l] = 0
  BY <1>1 DEF Issuing
<1>7. \A k \in Broker!Goroutine :
          /\ op'[k].pc = "record" => k \in Caller /\ leases'[op'[k].lease] = 0
                                    /\ credential'[op'[k].lease].state # "none"
          /\ op'[k].pc \in Revoking => leases'[op'[k].lease] # 0
  BY <1>1, <1>5, <1>6 DEF Issuing, Revoking
<1>8. \A k \in Broker!Goroutine \ {h} : op'[k].pc = "record" => op'[k].lease # l
  BY <1>1, <1>5 DEF Issuing
<1>9. \A j, k \in Broker!Goroutine :
          op'[j].pc = "record" /\ op'[k].pc = "record" /\ j # k => op'[j].lease # op'[k].lease
  BY <1>1, <1>5, <1>8 DEF Issuing
<1>10. ASSUME NEW k \in Lease, credential'[k].state # "none", leases'[k] = 0
       PROVE  \E i \in Caller : op'[i].pc = "record" /\ op'[i].lease = k
  <2>1. CASE k = l
    BY <1>1, <2>1
  <2>2. CASE k # l
    <3>1. PICK i \in Caller : op[i].pc = "record" /\ op[i].lease = k
      BY <1>1, <1>10, <2>2 DEF Issuing, BeingIssued
    <3>2. op'[i] = op[i]
      BY <1>1, <3>1 DEF Lone
    <3> QED BY <3>1, <3>2
  <2> QED BY <2>1, <2>2
<1>11. \A k \in Lease : leases'[k] # 0 => credential'[k].state # "none"
  BY <1>1 DEF Issuing
<1>12. Broker!Goroutine' = Broker!Goroutine
  BY DEF Broker!Goroutine, Broker!Timer, Broker!Version
<1> QED BY <1>4, <1>7, <1>9, <1>10, <1>11, <1>12 DEF Issuing, BeingIssued

LEMMA RecordKeeps ==
  ASSUME RunInv, SideInv, NEW h \in Caller, Broker!RecordLease(h)
  PROVE  Generic' /\ Issuing'
<1> DEFINE l == op[h].lease
<1>1. /\ op[h].pc = "record" /\ op'[h] = Broker!Idle /\ Lone(h) /\ GenericOK(op'[h])
      /\ l \in Lease /\ leases' = [leases EXCEPT ![l] = 1]
      /\ credential' = credential /\ UNCHANGED <<drivers, revokeFailed>>
  BY RecordEffect
<1>2. h \in Broker!Goroutine /\ Generic /\ Issuing /\ leases \in [Lease -> 0 .. MaxRenewals + 1]
  BY RunFacts, BrokerTypes DEF SideInv, Broker!TypeOK
<1> HIDE DEF l
<1>3. leases'[l] = 1 /\ \A k \in Lease \ {l} : leases'[k] = leases[k]
  BY <1>1, <1>2
<1>4. \A k \in Lease : credential'[k].driver = "generic_token" /\ leases'[k] \in {0, 1}
  BY <1>1, <1>2, <1>3 DEF Generic
<1>5. Generic'
  BY <1>1, <1>2, <1>4, GenericKept
<1>6. \A k \in Lease : /\ credential[k].state # "none" => credential'[k].state # "none"
                       /\ leases[k] # 0 => leases'[k] # 0
  BY <1>1, <1>3
<1>7. \A k \in Broker!Goroutine \ {h} :
            /\ op'[k].pc = "record" => /\ k \in Caller /\ op'[k].lease = op[k].lease
                                       /\ op[k].pc = "record" /\ op[k].lease \in Lease
                                       /\ credential'[op'[k].lease].state # "none"
            /\ op'[k].pc \in Revoking => leases'[op'[k].lease] # 0
  BY <1>1, <1>2, <1>6, OthersIssue
<1>8. \A k \in Broker!Goroutine \ {h} : op'[k].pc = "record" => op'[k].lease # l
  BY <1>1, <1>2, <1>7 DEF Issuing, l
<1>9. op'[h].pc = "idle"
  BY <1>1 DEF Broker!Idle
<1>10. \A k \in Broker!Goroutine :
          /\ op'[k].pc = "record" => k \in Caller /\ leases'[op'[k].lease] = 0
                                    /\ credential'[op'[k].lease].state # "none"
          /\ op'[k].pc \in Revoking => leases'[op'[k].lease] # 0
  BY <1>2, <1>3, <1>7, <1>8, <1>9 DEF Issuing, Revoking
<1>11. \A j, k \in Broker!Goroutine :
          op'[j].pc = "record" /\ op'[k].pc = "record" /\ j # k => op'[j].lease # op'[k].lease
  BY <1>2, <1>7, <1>9 DEF Issuing
<1>12. ASSUME NEW k \in Lease, credential'[k].state # "none", leases'[k] = 0
       PROVE  \E i \in Caller : op'[i].pc = "record" /\ op'[i].lease = k
  <2>1. k # l /\ leases[k] = 0 /\ credential[k].state # "none"
    BY <1>1, <1>3, <1>12
  <2>2. PICK i \in Caller : op[i].pc = "record" /\ op[i].lease = k
    BY <1>2, <2>1 DEF Issuing, BeingIssued
  <2>3. i # h
    BY <2>1, <2>2 DEF l
  <2>4. op'[i] = op[i]
    BY <1>1, <2>3 DEF Lone
  <2> QED BY <2>2, <2>4
<1>13. \A k \in Lease : leases'[k] # 0 => credential'[k].state # "none"
  <2>1. credential[l].state # "none"
    BY <1>1, <1>2 DEF Issuing, l
  <2> QED BY <1>1, <1>2, <1>3, <2>1 DEF Issuing
<1>14. Broker!Goroutine' = Broker!Goroutine
  BY DEF Broker!Goroutine, Broker!Timer, Broker!Version
<1> QED BY <1>5, <1>10, <1>11, <1>12, <1>13, <1>14 DEF Issuing, BeingIssued

\* A task that is asked to revoke a lease is in the call or in the tool.
LEMMA AskedFrame ==
  ASSUME NEW t, NEW l, TaskOK(t), t.inner \in BOOLEAN, Asks(t.message, l)
  PROVE  FrameOf(t) = "revoke" \/ (~t.inner /\ FrameOf(t) = "call" /\ t.message.method = "call")
  BY DEF TaskOK, Asks, FrameOf

\* A step of h in the broker, or on its own task, while the server serves.
LEMMA CallsKept ==
  ASSUME CallsInv, NEW h \in Caller, UNCHANGED <<server, closed>>, server.pc # "exited",
         \A k \in Caller \ {h} : op'[k] = op[k] /\ task'[k] = task[k],
         Fits(h, op'[h], task'[h], server.pc),
         late' # {} => late # {} \/ (closed /\ server.mode = "sse")
  PROVE  CallsInv'
<1>1. server' = server /\ closed' = closed
  OBVIOUS
<1>2. \A k \in Caller : Fits(k, op'[k], task'[k], server.pc)
  BY DEF CallsInv
<1>3. \A k \in Caller : Fits(k, op'[k], task'[k], server'.pc)
  BY <1>1, <1>2
<1>4. /\ closed' => server'.pc \in {"shutdown", "exited"}
      /\ late' # {} => closed' /\ server'.mode = "sse"
      /\ server'.pc # "exited"
  BY <1>1 DEF CallsInv
<1> QED BY <1>3, <1>4 DEF CallsInv, Fits, FrameOf

\* A step that does not touch the broker.
LEMMA NoBroker ==
  ASSUME CallsInv, Flow', UNCHANGED brokerVars,
         \A k \in Caller : IF task[k].pc = "broker" THEN task'[k] = task[k]
                           ELSE task'[k].pc # "broker",
         server.pc \in {"shutdown", "exited"} => server'.pc \in {"shutdown", "exited"},
         server'.mode = server.mode \/ server.pc = "boot",
         server'.pc = "exited" /\ server'.mode # "none" => closed /\ op[Main].pc = "idle"
  PROVE  CallsInv'
<1>1. op' = op /\ closed' = closed /\ late' = late
  BY DEF brokerVars
<1>2. Main \in Caller
  BY StandaloneAssumption
<1>3. server'.pc \in {"shutdown", "exited"} => task'[Main].pc = "idle"
  BY DEF Flow
<1>4. Broker!Idle.pc = "idle"
  BY DEF Broker!Idle
<1>5. ASSUME NEW k \in Caller PROVE Fits(k, op[k], task'[k], server'.pc)
  <2>1. Fits(k, op[k], task[k], server.pc)
    BY DEF CallsInv
  <2>2. CASE k = Main /\ server'.pc \in {"shutdown", "exited"}
    <3>1. task[k].pc # "broker"
      BY <1>3, <2>2
    <3> QED BY <1>4, <2>1, <2>2, <3>1 DEF Fits
  <2>3. CASE ~(k = Main /\ server'.pc \in {"shutdown", "exited"})
    <3>1. CASE task[k].pc = "broker"
      BY <2>1, <2>3, <3>1 DEF Fits
    <3>2. CASE task[k].pc # "broker"
      BY <2>1, <2>3, <3>2 DEF Fits
    <3> QED BY <3>1, <3>2
  <2> QED BY <2>2, <2>3
<1>6. /\ closed => server'.pc \in {"shutdown", "exited"}
      /\ late # {} => closed /\ server'.mode = "sse"
  BY DEF CallsInv
<1> QED BY <1>1, <1>5, <1>6 DEF CallsInv, Fits, FrameOf

LEMMA AnswersKept ==
  ASSUME AnswersInv, NEW h \in Caller,
         \A l \in Lease : Marked(l) => Marked(l)',
         \A k \in Caller \ {h} : task'[k] = task[k],
         \A l \in Lease : Asks(task'[h].message, l) /\ Succeeded(task'[h]) => Marked(l)',
         revoked' \subseteq Lease, \A l \in revoked' \ revoked : Marked(l)
  PROVE  AnswersInv'
<1>1. ASSUME NEW k \in Caller, NEW l \in Lease, Asks(task'[k].message, l), Succeeded(task'[k])
      PROVE  Marked(l)'
  <2>1. CASE k = h
    BY <1>1, <2>1
  <2>2. CASE k # h
    <3>1. Asks(task[k].message, l) /\ Succeeded(task[k])
      BY <1>1, <2>2
    <3> QED BY <3>1 DEF AnswersInv
  <2> QED BY <2>1, <2>2
<1>2. ASSUME NEW l \in revoked' PROVE Marked(l)'
  <2>1. Marked(l)
    BY DEF AnswersInv
  <2> QED BY <2>1
<1> QED BY <1>1, <1>2 DEF AnswersInv, Asks, Succeeded, FrameOf

\* Nothing is marked or answered.
LEMMA SameAnswers ==
  ASSUME AnswersInv, \A l \in Lease : Marked(l) => Marked(l)', UNCHANGED <<task, revoked>>,
         TypeOK
  PROVE  AnswersInv'
<1>1. task' = task /\ revoked' = revoked /\ revoked \subseteq Lease
  BY DEF TypeOK
<1>2. \A l \in revoked' : Marked(l)'
  BY <1>1 DEF AnswersInv
<1>3. \A k \in Caller, l \in Lease : Asks(task'[k].message, l) /\ Succeeded(task'[k]) => Marked(l)'
  BY <1>1 DEF AnswersInv
<1> QED BY <1>2, <1>3 DEF AnswersInv, Asks, Succeeded, FrameOf

LEMMA SameBroker ==
  ASSUME Generic, Issuing, UNCHANGED brokerVars
  PROVE  Generic' /\ Issuing' /\ \A l \in Lease : Marked(l) => Marked(l)'
<1>1. /\ op' = op /\ drivers' = drivers /\ revokeFailed' = revokeFailed /\ leases' = leases
      /\ credential' = credential /\ object' = object
  BY DEF brokerVars
<1>2. Broker!Goroutine' = Broker!Goroutine
  BY DEF Broker!Goroutine, Broker!Timer, Broker!Version
<1>3. Generic'
  BY <1>1, <1>2 DEF Generic, GenericOK
<1>4. Issuing'
  BY <1>1, <1>2 DEF Issuing, BeingIssued
<1>5. \A l \in Lease : Marked(l) => Marked(l)'
  BY <1>1 DEF Marked, Broker!Current
<1> QED BY <1>3, <1>4, <1>5

\* The handler at work, and what its task says.
LEMMA AtWork ==
  ASSUME DispatchInv, NEW h \in Caller, task[h].pc # "idle"
  PROVE  /\ TypeOK /\ Flow /\ TaskOK(task[h]) /\ task[h] \in Task /\ task[h].inner \in BOOLEAN
         /\ task[h].failed \in BOOLEAN /\ task[h].message \in Messages
         /\ server.mode # "none" /\ h \in Handlers
         /\ ~(h = Main /\ server.pc \in {"shutdown", "exited"})
<1>1. Flow /\ TypeOK
  BY DEF DispatchInv, Flow
<1> QED BY <1>1, TaskFacts DEF Flow

\* Steps of a handler that leave the broker alone.
LEMMA OutsideKeeps ==
  ASSUME DispatchInv, DispatchInv', SideInv, NEW h \in Caller,
         server.pc # "exited", Enter(h) \/ Leave(h) \/ Return(h)
  PROVE  SideInv'
<1> DEFINE t == task[h]
           m == t.message
           s == task'[h]
<1>1. t.pc \in {"enter", "leave", "return"}
  BY DEF Enter, Leave, Return
<1>2. /\ TypeOK /\ TaskOK(t) /\ t.inner \in BOOLEAN /\ t.failed \in BOOLEAN
      /\ Generic /\ Issuing /\ CallsInv /\ AnswersInv /\ Flow'
  BY <1>1, AtWork DEF SideInv, DispatchInv
<1>3. /\ UNCHANGED <<brokerVars, startVars, revoked>> /\ Touches(h)
      /\ s.pc # "broker"
      /\ \A l \in Lease : Asks(m, l) /\ Succeeded(s) => Succeeded(t)
  <2>1. CASE Enter(h)
    <3>1. /\ UNCHANGED <<brokerVars, startVars, revoked>> /\ Touches(h)
          /\ \/ s.pc = "return" /\ s.outcome \in {"error", "refused"}
             \/ s.pc = "handle" /\ s.outcome = t.outcome
      BY <1>2, <2>1, EnterEffect DEF Becomes
    <3>2. t.outcome = "none"
      BY <1>2, <2>1 DEF Enter, TaskOK
    <3> QED BY <3>1, <3>2 DEF Succeeded
  <2>2. CASE Leave(h)
    <3>1. /\ UNCHANGED <<brokerVars, startVars, revoked>> /\ Touches(h) /\ s.pc = "return"
          /\ \/ s.outcome = "error"
             \/ ~t.failed /\ t.outcome = "none"
             \/ s.outcome = t.outcome
      BY <1>2, <2>2, LeaveEffect DEF Becomes
    <3>2. t.pc = "leave"
      BY <2>2 DEF Leave
    <3> QED BY <1>2, <3>1, <3>2 DEF Succeeded, TaskOK
  <2>3. CASE Return(h)
    <3>1. /\ UNCHANGED <<brokerVars, startVars, revoked>> /\ Touches(h)
          /\ s.outcome = t.outcome
          /\ \/ t.inner /\ s.pc = "leave" /\ ~s.inner
             \/ ~t.inner /\ s.pc = "answer"
      BY <1>2, <2>3, ReturnEffect DEF Becomes
    <3>2. s.message = m
      BY <3>1 DEF Touches
    <3>3. t.inner => FrameOf(s) = "call" \/ s.inner
      BY <1>2, <3>2 DEF TaskOK, FrameOf
    <3> QED BY <3>1, <3>3 DEF Succeeded
  <2> QED BY <2>1, <2>2, <2>3
<1>4. /\ server' = server /\ revoked' = revoked /\ s.message = m /\ revoked \subseteq Lease
      /\ \A k \in Caller \ {h} : task'[k] = task[k]
  BY <1>2, <1>3 DEF startVars, Touches, TypeOK
<1>5. Generic' /\ Issuing' /\ \A l \in Lease : Marked(l) => Marked(l)'
  BY <1>2, <1>3, SameBroker
<1>6. CallsInv'
  <2>1. server.pc = "exited" => FALSE
    OBVIOUS
  <2>2. \A k \in Caller : IF task[k].pc = "broker" THEN task'[k] = task[k]
                          ELSE task'[k].pc # "broker"
    BY <1>1, <1>3, <1>4
  <2> QED BY <1>2, <1>3, <1>4, <2>1, <2>2, NoBroker
<1>7. AnswersInv'
  <2>1. \A l \in Lease : Asks(s.message, l) /\ Succeeded(s) => Marked(l)'
    BY <1>2, <1>3, <1>4, <1>5 DEF AnswersInv
  <2>2. revoked' \subseteq Lease /\ \A l \in revoked' \ revoked : Marked(l)
    BY <1>4
  <2> HIDE DEF s, t
  <2> QED BY <1>2, <1>4, <1>5, <2>1, <2>2, AnswersKept DEF s
<1> QED BY <1>5, <1>6, <1>7 DEF SideInv

\* A client is told nothing that its handler does not know.
LEMMA AnswerKeeps ==
  ASSUME DispatchInv, DispatchInv', SideInv, NEW h \in Caller, server.pc # "exited", Answer(h)
  PROVE  SideInv'
<1> DEFINE t == task[h]
<1>1. t.pc = "answer"
  BY DEF Answer
<1>2. /\ TypeOK /\ Generic /\ Issuing /\ CallsInv /\ AnswersInv /\ Flow'
  BY <1>1, AtWork DEF SideInv, DispatchInv
<1>3. /\ UNCHANGED brokerVars /\ task' = [task EXCEPT ![h] = Free]
      /\ \/ revoked' = revoked \cup ToldRevoked(h) /\ server' = server
         \/ revoked' = revoked /\ server' = [server EXCEPT !.pc = "shutdown"]
  BY DEF Answer
<1>4. task'[h] = Free /\ \A k \in Caller \ {h} : task'[k] = task[k]
  BY <1>2, <1>3 DEF TypeOK
<1>5. Generic' /\ Issuing' /\ \A l \in Lease : Marked(l) => Marked(l)'
  BY <1>2, <1>3, SameBroker
<1>6. server'.mode = server.mode /\ server'.pc \in {server.pc, "shutdown"}
  BY <1>2, <1>3 DEF TypeOK
<1>7. CallsInv'
  <2>1. server.pc \in {"shutdown", "exited"} => server'.pc \in {"shutdown", "exited"}
    BY <1>6
  <2>2. \A k \in Caller : IF task[k].pc = "broker" THEN task'[k] = task[k]
                          ELSE task'[k].pc # "broker"
    BY <1>1, <1>4, FreeFacts
  <2>3. server'.pc # "exited"
    BY <1>6
  <2> QED BY <1>2, <1>3, <1>6, <2>1, <2>2, <2>3, NoBroker
<1>8. \A l \in ToldRevoked(h) : l \in Lease /\ Asks(t.message, l) /\ Succeeded(t)
  BY DEF ToldRevoked, Asks, Succeeded
<1>9. AnswersInv'
  <2>1. ~Succeeded(Free)
    BY FreeFacts DEF Succeeded
  <2>2. revoked' \subseteq Lease /\ \A l \in revoked' \ revoked : Marked(l)
    BY <1>2, <1>3, <1>8 DEF AnswersInv, TypeOK
  <2> QED BY <1>2, <1>4, <1>5, <2>1, <2>2, AnswersKept
<1> QED BY <1>5, <1>7, <1>9 DEF SideInv

LEMMA ReceiveKeeps ==
  ASSUME DispatchInv', SideInv, TypeOK, NEW h \in Caller, NEW m \in Messages, Receive(h, m)
  PROVE  SideInv'
<1> DEFINE r == [Free EXCEPT !.pc = "enter", !.message = m]
<1>1. /\ server.pc = "serving" /\ task[h].pc = "idle" /\ UNCHANGED <<brokerVars, revoked>>
      /\ task' = task \/ task' = [task EXCEPT ![h] = r]
      /\ server' = server \/ server' = [server EXCEPT !.pc = "shutdown"]
  BY ReceiveEffect
<1>2. r.pc = "enter" /\ r.outcome = "none"
  BY DEF Free
<1> HIDE DEF r
<1>3. /\ server'.mode = server.mode /\ server'.pc \in {"serving", "shutdown"}
      /\ task' = task \/ (task'[h] = r /\ \A k \in Caller \ {h} : task'[k] = task[k])
  BY <1>1 DEF TypeOK
<1>4. Generic' /\ Issuing' /\ \A l \in Lease : Marked(l) => Marked(l)'
  BY <1>1, SameBroker DEF SideInv
<1>5. CallsInv'
  <2>1. \A k \in Caller : IF task[k].pc = "broker" THEN task'[k] = task[k]
                          ELSE task'[k].pc # "broker"
    BY <1>1, <1>2, <1>3
  <2>2. Flow' /\ CallsInv
    BY DEF DispatchInv, SideInv
  <2> QED BY <1>1, <1>3, <2>1, <2>2, NoBroker
<1>6. AnswersInv'
  <2>1. AnswersInv /\ revoked' = revoked /\ revoked \subseteq Lease
    BY <1>1 DEF SideInv, TypeOK
  <2>2. CASE task' = task
    BY <1>4, <2>1, <2>2, SameAnswers
  <2>3. CASE task'[h] = r /\ \A k \in Caller \ {h} : task'[k] = task[k]
    <3>1. ~Succeeded(r)
      BY <1>2 DEF Succeeded
    <3> QED BY <1>4, <2>1, <2>3, <3>1, AnswersKept
  <2> QED BY <1>3, <2>2, <2>3
<1> QED BY <1>4, <1>5, <1>6 DEF SideInv

LEMMA ServerKeeps ==
  ASSUME DispatchInv, DispatchInv', SideInv, BootInv, Start \/ StopServing \/ Exit
  PROVE  SideInv'
<1>1. Flow /\ TypeOK /\ Flow' /\ CallsInv /\ AnswersInv /\ Generic /\ Issuing
  BY DEF DispatchInv, Flow, SideInv
<1>2. /\ UNCHANGED brokerVars /\ task' = task /\ revoked' = revoked
      /\ server.pc \in {"shutdown", "exited"} => server'.pc \in {"shutdown", "exited"}
      /\ server'.mode = server.mode \/ server.pc = "boot"
      /\ server'.pc = "exited" /\ server'.mode # "none" => closed /\ op[Main].pc = "idle"
  <2>1. CASE Start
    <3>1. /\ UNCHANGED <<brokerVars, dispatchVars>> /\ boot.pc # "done"
          /\ \/ UNCHANGED server
             \/ server' = [server EXCEPT !.pc = "exited"]
             \/ server' \in [pc: {"serving"}, mode: {"stdio", "sse"}, guard: BOOLEAN, policy: BOOLEAN,
                             audit: BOOLEAN]
      BY <2>1, StartEffect
    <3>2. server.pc = "boot" /\ server.mode = "none"
      BY <1>1, <3>1 DEF Flow
    <3>3. server'.pc = "exited" => server'.mode = "none"
      BY <1>1, <3>1, <3>2 DEF TypeOK
    <3> QED BY <3>1, <3>2, <3>3 DEF dispatchVars
  <2>2. CASE StopServing
    <3>1. /\ UNCHANGED <<brokerVars, dispatchVars>>
          /\ server.pc \in {"serving", "draining"}
          /\ \/ server' = [server EXCEPT !.pc = "shutdown"]
             \/ server' = [server EXCEPT !.pc = "draining"]
      BY <2>2 DEF StopServing
    <3>2. server'.mode = server.mode /\ server'.pc \in {"shutdown", "draining"}
      BY <1>1, <3>1 DEF TypeOK
    <3> QED BY <3>1, <3>2 DEF dispatchVars
  <2>3. CASE Exit
    <3>1. /\ UNCHANGED <<brokerVars, dispatchVars>> /\ server.pc = "shutdown"
          /\ closed /\ op[Main].pc = "idle" /\ server' = [server EXCEPT !.pc = "exited"]
      BY <2>3 DEF Exit
    <3>2. server'.mode = server.mode /\ server'.pc = "exited"
      BY <1>1, <3>1 DEF TypeOK
    <3> QED BY <3>1, <3>2 DEF dispatchVars
  <2> QED BY <2>1, <2>2, <2>3
<1>3. Generic' /\ Issuing' /\ \A l \in Lease : Marked(l) => Marked(l)'
  BY <1>1, <1>2, SameBroker
<1>4. CallsInv'
  <2>1. \A k \in Caller : IF task[k].pc = "broker" THEN task'[k] = task[k]
                          ELSE task'[k].pc # "broker"
    BY <1>2
  <2> QED BY <1>1, <1>2, <2>1, NoBroker
<1>5. AnswersInv'
  BY <1>1, <1>2, <1>3, SameAnswers
<1> QED BY <1>3, <1>4, <1>5 DEF SideInv

LEMMA HandleKeeps ==
  ASSUME RunInv, DispatchInv, DispatchInv', SideInv, NEW h \in Caller,
         server.pc # "exited", Handle(h)
  PROVE  SideInv'
<1> DEFINE t == task[h]
           m == t.message
           a == m.argument
           s == task'[h]
<1>1. t.pc = "handle"
  BY DEF Handle
<1>2. /\ TypeOK /\ TaskOK(t) /\ t.inner \in BOOLEAN /\ m \in Messages
      /\ Generic /\ Issuing /\ CallsInv /\ AnswersInv /\ Flow'
      /\ ~(h = Main /\ server.pc \in {"shutdown", "exited"})
  BY <1>1, AtWork DEF SideInv, DispatchInv
<1>3. /\ UNCHANGED <<startVars, revoked>> /\ Touches(h)
      /\ \/ UNCHANGED brokerVars /\ s.pc = "enter" /\ s.outcome = t.outcome
         \/ UNCHANGED brokerVars /\ s.pc = "leave" /\ s.outcome = t.outcome /\ s.failed
         \/ /\ UNCHANGED brokerVars /\ s.pc = "leave" /\ s.outcome = t.outcome
            /\ FrameOf(t) \in {"ping", "list"}
         \/ /\ FrameOf(t) = "request" /\ a \in RequestTarget /\ Broker!IssueLease(h, a, m.ttl)
            /\ s.pc = "broker" /\ s.outcome = t.outcome /\ s.inner = t.inner
         \/ /\ FrameOf(t) = "revoke" /\ a \in Lease /\ Broker!RevokeLease(h, a)
            /\ s.pc = "broker" /\ s.outcome = t.outcome /\ s.inner = t.inner
         \/ /\ FrameOf(t) = "revoke" /\ a \in Lease /\ Broker!RevokeNothing(h, a)
            /\ s.pc = "leave" /\ s.outcome = t.outcome /\ s.failed = ~Broker!Recorded(a)
  <2>1. TypeOK /\ Handle(h)
    BY <1>2
  <2> QED BY <2>1, HandleEffect DEF Becomes
<1>4. t.outcome = "none" /\ op[h] = Broker!Idle
  BY <1>1, <1>2 DEF TaskOK, CallsInv, Fits
<1>5. /\ server' = server /\ revoked' = revoked /\ s.message = m /\ revoked \subseteq Lease
      /\ \A k \in Caller \ {h} : task'[k] = task[k]
      /\ revoked' \subseteq Lease /\ \A l \in revoked' \ revoked : Marked(l)
  BY <1>2, <1>3 DEF startVars, Touches, TypeOK
<1>6. Broker!Idle.pc = "idle" /\ Broker!Idle.todo = {}
  BY DEF Broker!Idle
<1>7. ASSUME UNCHANGED brokerVars, s.pc # "broker",
             \A l \in Lease : Asks(m, l) => ~Succeeded(s) \/ Marked(l)
      PROVE  SideInv'
  <2>1. Generic' /\ Issuing' /\ \A l \in Lease : Marked(l) => Marked(l)'
    BY <1>2, <1>7, SameBroker
  <2>2. CallsInv'
    <3>1. \A k \in Caller : IF task[k].pc = "broker" THEN task'[k] = task[k]
                            ELSE task'[k].pc # "broker"
      BY <1>1, <1>5, <1>7
    <3> QED BY <1>2, <1>5, <1>7, <3>1, NoBroker
  <2>3. AnswersInv'
    <3>1. \A l \in Lease : Asks(s.message, l) /\ Succeeded(s) => Marked(l)'
      BY <1>5, <1>7, <2>1
    <3> HIDE DEF s, t
    <3> QED BY <1>2, <1>5, <2>1, <3>1, AnswersKept DEF s
  <2> QED BY <2>1, <2>2, <2>3 DEF SideInv
<1>8. ASSUME Quiet(h), closed' = closed, s.pc = "broker", s.outcome = "none", s.inner = t.inner,
             op'[h].todo = {},
             \/ FrameOf(t) = "request" /\ op'[h].pc \in {"generate", "record"}
             \/ FrameOf(t) = "revoke" /\ op'[h].pc \in Revoking /\ op'[h].lease = a
      PROVE  SideInv'
  <2>1. h \in Broker!Goroutine
    BY RunFacts
  <2>2. Generic' /\ Issuing'
    BY <1>2, <1>8, <2>1, QuietKeeps
  <2>3. FrameOf(s) = FrameOf(t)
    BY <1>5, <1>8 DEF FrameOf
  <2>4. Fits(h, op'[h], s, server.pc)
    BY <1>2, <1>5, <1>8, <2>3 DEF Fits
  <2>5. /\ \A k \in Caller \ {h} : op'[k] = op[k]
        /\ late' = late /\ \A l \in Lease : Marked(l) => Marked(l)'
    BY <1>8 DEF Quiet, Lone
  <2>6. CallsInv'
    <3> HIDE DEF t
    <3> QED BY <1>2, <1>5, <1>8, <2>4, <2>5, CallsKept
  <2>7. AnswersInv'
    <3>1. ~Succeeded(s)
      BY <1>8 DEF Succeeded
    <3> HIDE DEF t
    <3> QED BY <1>2, <1>5, <2>5, <3>1, AnswersKept
  <2> QED BY <2>2, <2>6, <2>7 DEF SideInv
<1>9. CASE UNCHANGED brokerVars /\ s.pc = "enter" /\ s.outcome = t.outcome
  BY <1>4, <1>7, <1>9 DEF Succeeded
<1>10. CASE UNCHANGED brokerVars /\ s.pc = "leave" /\ s.outcome = t.outcome /\ s.failed
  BY <1>4, <1>7, <1>10 DEF Succeeded
<1>11. CASE /\ UNCHANGED brokerVars /\ s.pc = "leave" /\ s.outcome = t.outcome
            /\ FrameOf(t) \in {"ping", "list"}
  <2>1. \A l \in Lease : ~Asks(m, l)
    BY <1>2, <1>11, AskedFrame
  <2> QED BY <1>7, <1>11, <2>1
<1>12. CASE /\ FrameOf(t) = "request" /\ a \in RequestTarget /\ Broker!IssueLease(h, a, m.ttl)
            /\ s.pc = "broker" /\ s.outcome = t.outcome /\ s.inner = t.inner
  <2>1. m.ttl \in RequestTTL
    BY <1>2, MessageFacts
  <2>2. Quiet(h) /\ op'[h].pc = "generate" /\ op'[h].todo = op[h].todo /\ closed' = closed
    BY <1>12, <2>1, IssueEffect
  <2> QED BY <1>4, <1>6, <1>8, <1>12, <2>2
<1>13. CASE /\ FrameOf(t) = "revoke" /\ a \in Lease /\ Broker!RevokeLease(h, a)
            /\ s.pc = "broker" /\ s.outcome = t.outcome /\ s.inner = t.inner
  <2>1. h \in Broker!Goroutine
    BY RunFacts
  <2>2. /\ Quiet(h) /\ op'[h].pc = "drop" /\ op'[h].lease = a /\ op'[h].todo = op[h].todo
        /\ closed' = closed
    BY <1>13, <2>1, RevokeEffect
  <2> QED BY <1>4, <1>6, <1>8, <1>13, <2>2 DEF Revoking
<1>14. CASE /\ FrameOf(t) = "revoke" /\ a \in Lease /\ Broker!RevokeNothing(h, a)
            /\ s.pc = "leave" /\ s.outcome = t.outcome /\ s.failed = ~Broker!Recorded(a)
  <2>1. UNCHANGED brokerVars
    <3>1. op[h].pc = "idle"
      BY <1>4, <1>6
    <3>2. UNCHANGED Broker!vars
      BY <1>14, <3>1, NothingStutters
    <3> QED BY <3>2 DEF Broker!vars, brokerVars
  <2>2. ~s.failed => Marked(a)
    BY <1>14 DEF Broker!RevokeNothing, Broker!Unrevoked, Broker!Recorded, Marked
  <2>3. \A l \in Lease : Asks(m, l) => ~Succeeded(s) \/ Marked(l)
    BY <1>4, <1>14, <2>2 DEF Succeeded, Asks
  <2> QED BY <1>7, <1>14, <2>1, <2>3
<1> QED BY <1>3, <1>9, <1>10, <1>11, <1>12, <1>13, <1>14

LEMMA InBrokerKeeps ==
  ASSUME RunInv, DispatchInv, DispatchInv', SideInv, NEW h \in Caller,
         server.pc # "exited", InBroker(h)
  PROVE  SideInv'
<1> DEFINE t == task[h]
           m == t.message
           s == task'[h]
<1>1. /\ t.pc = "broker" /\ UNCHANGED <<startVars, revoked>>
      /\ \/ Broker!Generate(h) \/ Broker!RecordLease(h)
         \/ Broker!DropCredential(h) \/ Broker!MarkRevoked(h)
      /\ \/ op'[h] # Broker!Idle /\ task' = task
         \/ /\ op'[h] = Broker!Idle /\ Touches(h) /\ s.pc = "leave"
            /\ s.outcome = t.outcome /\ s.failed = (op[h].pc = "generate")
  <2>1. TypeOK
    BY DEF DispatchInv, Flow
  <2> QED BY <2>1, InBrokerEffect DEF Becomes
<1>2. /\ TypeOK /\ TaskOK(t) /\ t.inner \in BOOLEAN
      /\ Generic /\ Issuing /\ CallsInv /\ AnswersInv
      /\ ~(h = Main /\ server.pc \in {"shutdown", "exited"}) /\ h \in Handlers
      /\ h \in Broker!Goroutine
  BY <1>1, AtWork, RunFacts DEF SideInv
<1>3. /\ t.outcome = "none" /\ op[h].todo = {}
      /\ IF FrameOf(t) = "request" THEN op[h].pc \in {"generate", "record"}
         ELSE FrameOf(t) = "revoke" /\ op[h].pc \in Revoking /\ op[h].lease = m.argument
  BY <1>1, <1>2 DEF TaskOK, CallsInv, Fits
<1>4. /\ server' = server /\ revoked' = revoked /\ s.message = m /\ revoked \subseteq Lease
      /\ \A k \in Caller \ {h} : task'[k] = task[k]
      /\ revoked' \subseteq Lease /\ \A l \in revoked' \ revoked : Marked(l)
  BY <1>1, <1>2 DEF startVars, Touches, TypeOK
<1>5. closed => server.mode = "sse"
  <2>1. closed => server.pc \in {"shutdown", "exited"}
    BY <1>2 DEF CallsInv
  <2>2. server.mode # "sse" => h = Main
    BY <1>2 DEF Handlers
  <2> QED BY <1>2, <2>1, <2>2
<1>6. ASSUME \A k \in Caller \ {h} : op'[k] = op[k],
             late' # {} => late # {} \/ closed, closed' = closed,
             \A l \in Lease : Marked(l) => Marked(l)',
             Generic', Issuing',
             \/ op'[h] = Broker!Idle
             \/ /\ op'[h] # Broker!Idle /\ op'[h].todo = {}
                /\ IF FrameOf(t) = "request" THEN op'[h].pc \in {"generate", "record"}
                   ELSE op'[h].pc \in Revoking /\ op'[h].lease = m.argument,
             op'[h] = Broker!Idle /\ ~s.failed /\ FrameOf(t) = "revoke" =>
                \A l \in Lease : l = op[h].lease => Marked(l)'
      PROVE  SideInv'
  <2>1. Fits(h, op'[h], s, server.pc)
    <3>1. CASE op'[h] = Broker!Idle
      <4>1. s.pc # "broker"
        BY <1>1, <3>1
      <4> QED BY <1>2, <3>1, <4>1 DEF Fits
    <3>2. CASE op'[h] # Broker!Idle
      <4>1. s = t
        BY <1>1, <3>2
      <4> QED BY <1>1, <1>2, <1>6, <3>2, <4>1 DEF Fits
    <3> QED BY <3>1, <3>2
  <2>2. CallsInv'
    <3> HIDE DEF t
    <3> QED BY <1>2, <1>4, <1>5, <1>6, <2>1, CallsKept
  <2>3. ASSUME NEW l \in Lease, Asks(s.message, l), Succeeded(s) PROVE Marked(l)'
    <3>1. Asks(m, l)
      BY <1>4, <2>3
    <3>2. FrameOf(t) = "revoke"
      <4>1. FrameOf(t) = "revoke" \/ FrameOf(t) = "call"
        BY <1>2, <3>1, AskedFrame
      <4> QED BY <1>1, <1>2, <4>1 DEF TaskOK
    <3>3. op'[h] = Broker!Idle
      <4>1. CASE task' = task
        BY <1>1, <1>3, <2>3, <4>1 DEF Succeeded
      <4>2. CASE op'[h] = Broker!Idle
        BY <4>2
      <4> QED BY <1>1, <4>1, <4>2
    <3>4. ~s.failed
      BY <1>1, <1>3, <2>3, <3>3 DEF Succeeded
    <3>5. l = op[h].lease
      BY <1>3, <3>1, <3>2 DEF Asks
    <3> QED BY <1>6, <3>2, <3>3, <3>4, <3>5
  <2>4. AnswersInv'
    <3> HIDE DEF t
    <3> QED BY <1>2, <1>4, <1>6, <2>3, AnswersKept
  <2> QED BY <1>6, <2>2, <2>4 DEF SideInv
<1>7. Broker!Idle.pc = "idle"
  BY DEF Broker!Idle
<1>8. ASSUME Quiet(h)
      PROVE  /\ Generic' /\ Issuing' /\ late' = late
             /\ \A k \in Caller \ {h} : op'[k] = op[k]
             /\ \A l \in Lease : Marked(l) => Marked(l)'
  <2>1. Generic' /\ Issuing'
    BY <1>2, <1>8, QuietKeeps
  <2> QED BY <1>8, <2>1 DEF Quiet, Lone
<1>9. CASE Broker!Generate(h)
  <2>1. op[h].pc = "generate" /\ FrameOf(t) = "request"
    BY <1>3, <1>9, GenerateEffect DEF Revoking
  <2>2. CASE Quiet(h) /\ op'[h] = Broker!Idle /\ closed' = closed
    <3>1. s.failed
      BY <1>1, <2>1, <2>2
    <3> QED BY <1>6, <1>8, <2>1, <2>2, <3>1
  <2>3. ASSUME NEW l \in Lease, Mints(h, l) PROVE SideInv'
    <3>1. Generic' /\ Issuing'
      BY <1>2, <2>1, <2>3, MintKeeps
    <3>2. /\ op'[h].pc = "record" /\ op'[h].todo = op[h].todo /\ closed' = closed /\ late' = late
          /\ leases' = leases /\ object' = object /\ \A k \in Caller \ {h} : op'[k] = op[k]
      BY <2>3 DEF Mints, Lone
    <3>3. \A k \in Lease : Marked(k) => Marked(k)'
      BY <3>2 DEF Marked, Broker!Current
    <3>4. op'[h] # Broker!Idle
      BY <1>7, <3>2
    <3> QED BY <1>3, <1>6, <2>1, <3>1, <3>2, <3>3, <3>4
  <2> QED BY <1>9, <2>2, <2>3, GenerateEffect
<1>10. CASE Broker!RecordLease(h)
  <2>1. /\ op[h].pc = "record" /\ op'[h] = Broker!Idle /\ Lone(h)
        /\ \A l \in Lease : Marked(l) => Marked(l)'
        /\ late' # {} => late # {} \/ closed
        /\ closed' = closed
    BY <1>10, RecordEffect
  <2>2. FrameOf(t) = "request" /\ \A k \in Caller \ {h} : op'[k] = op[k]
    BY <1>3, <2>1 DEF Lone, Revoking
  <2>3. Generic' /\ Issuing'
    BY <1>10, RecordKeeps
  <2> QED BY <1>6, <2>1, <2>2, <2>3
<1>11. CASE Broker!DropCredential(h)
  <2>1. /\ op[h].pc = "drop" /\ Quiet(h) /\ op'[h].pc = "mark"
        /\ op'[h].lease = op[h].lease /\ op'[h].todo = op[h].todo /\ closed' = closed
    BY <1>2, <1>11, DropEffect
  <2>2. FrameOf(t) = "revoke" /\ op'[h] # Broker!Idle /\ op[h].lease = m.argument
    BY <1>3, <1>7, <2>1
  <2> QED BY <1>3, <1>6, <1>8, <2>1, <2>2 DEF Revoking
<1>12. CASE Broker!MarkRevoked(h)
  <2>1. /\ op[h].pc = "mark" /\ Quiet(h) /\ closed' = closed
        /\ \A l \in Lease : l = op[h].lease => Marked(l)'
        /\ op'[h] = Broker!Idle
    BY <1>2, <1>3, <1>12, MarkEffect
  <2> QED BY <1>6, <1>8, <2>1
<1> QED BY <1>1, <1>9, <1>10, <1>11, <1>12

LEMMA ShutdownKeeps ==
  ASSUME RunInv, DispatchInv, SideInv, ShutdownBroker
  PROVE  SideInv'
<1>1. /\ server.pc = "shutdown" /\ server' = server /\ task' = task /\ revoked' = revoked
      /\ (~closed /\ Broker!Shutdown(Main)) \/ Broker!Step(Main)
  BY DEF ShutdownBroker, startVars, dispatchVars
<1>2. /\ Main \in Caller /\ Main \in Broker!Goroutine /\ TypeOK
      /\ Generic /\ Issuing /\ CallsInv /\ AnswersInv
  BY StandaloneAssumption, RunFacts DEF DispatchInv, Flow, SideInv
<1>3. op[Main].pc \in {"idle", "shutdown"} \cup Revoking
  BY <1>1, <1>2 DEF CallsInv, Fits
<1>4. ASSUME Quiet(Main), op'[Main].pc \in {"idle", "shutdown"} \cup Revoking,
             closed' = closed \/ closed'
      PROVE  SideInv'
  <2>1. Generic' /\ Issuing'
    BY <1>2, <1>4, QuietKeeps
  <2>2. /\ \A k \in Caller \ {Main} : op'[k] = op[k]
        /\ late' = late /\ \A l \in Lease : Marked(l) => Marked(l)'
    BY <1>4 DEF Quiet, Lone
  <2>3. ASSUME NEW k \in Caller PROVE Fits(k, op'[k], task'[k], server'.pc)
    <3>1. CASE k = Main
      BY <1>1, <1>4, <3>1 DEF Fits
    <3>2. CASE k # Main
      BY <1>1, <1>2, <2>2, <3>2 DEF CallsInv
    <3> QED BY <3>1, <3>2
  <2>4. /\ closed' => server'.pc \in {"shutdown", "exited"}
        /\ late' # {} => closed' /\ server'.mode = "sse"
        /\ server'.pc # "exited"
    BY <1>1, <1>2, <1>4, <2>2 DEF CallsInv
  <2>5. CallsInv'
    BY <2>3, <2>4 DEF CallsInv, Fits, FrameOf
  <2>6. AnswersInv'
    BY <1>1, <1>2, <2>2, SameAnswers
  <2> QED BY <2>1, <2>5, <2>6 DEF SideInv
<1>5. Broker!Idle.pc = "idle"
  BY DEF Broker!Idle
<1>6. CASE Broker!Shutdown(Main)
  BY <1>2, <1>4, <1>6, ShutdownEffect
<1>7. ASSUME NEW l \in Lease, Broker!RevokeLease(Main, l) PROVE SideInv'
  BY <1>2, <1>4, <1>7, RevokeEffect DEF Revoking
<1>8. ASSUME NEW l \in Lease, op[Main].pc # "idle", Broker!RevokeNothing(Main, l) PROVE SideInv'
  BY <1>2, <1>4, <1>8, NothingEffect
<1>9. CASE Broker!DropCredential(Main)
  BY <1>2, <1>4, <1>9, DropEffect DEF Revoking
<1>10. CASE Broker!MarkRevoked(Main)
  BY <1>2, <1>4, <1>10, MarkEffect
<1>11. CASE Broker!ShutdownReturns(Main)
  BY <1>2, <1>4, <1>5, <1>11, ShutdownReturnsEffect
<1>12. CASE \/ Broker!Generate(Main) \/ Broker!RecordLease(Main)
            \/ Broker!ExtendCredential(Main) \/ Broker!CloneLease(Main) \/ Broker!Rearm(Main)
  <2>1. op[Main].pc \in {"generate", "record", "extend", "clone", "rearm"}
    BY <1>12 DEF Broker!Generate, Broker!RecordLease, Broker!ExtendCredential,
       Broker!CloneLease, Broker!Rearm
  <2> QED BY <1>3, <2>1 DEF Revoking
<1> QED BY <1>1, <1>6, <1>7, <1>8, <1>9, <1>10, <1>11, <1>12 DEF Broker!Step

LEMMA BackgroundKeeps ==
  ASSUME RunInv, DispatchInv, SideInv, Background
  PROVE  SideInv'
<1>1. /\ server.pc # "exited" /\ server' = server /\ task' = task /\ revoked' = revoked
      /\ (\E t \in Broker!Timer : Broker!Fire(t) \/ Broker!Step(t)) \/ Broker!Tick
  BY DEF Background, Serving, startVars, dispatchVars
<1>2. /\ Main \in Caller /\ TypeOK /\ Generic /\ Issuing /\ CallsInv /\ AnswersInv
  BY StandaloneAssumption DEF DispatchInv, Flow, SideInv
<1>3. ASSUME Generic', Issuing', \A k \in Caller : op'[k] = op[k],
             late' = late, closed' = closed, \A l \in Lease : Marked(l) => Marked(l)'
      PROVE  SideInv'
  <2>1. Fits(Main, op'[Main], task'[Main], server.pc)
    BY <1>1, <1>2, <1>3 DEF CallsInv
  <2>2. CallsInv'
    BY <1>1, <1>2, <1>3, <2>1, CallsKept
  <2>3. AnswersInv'
    BY <1>1, <1>2, <1>3, SameAnswers
  <2> QED BY <1>3, <2>2, <2>3 DEF SideInv
<1>4. CASE Broker!Tick
  <2>1. UNCHANGED <<closed, drivers, leases, object, op, credential, revokeFailed, late>>
    BY <1>4 DEF Broker!Tick
  <2>2. Broker!Goroutine' = Broker!Goroutine
    BY DEF Broker!Goroutine, Broker!Timer, Broker!Version
  <2>3. Generic'
    BY <1>2, <2>1, <2>2 DEF Generic, GenericOK
  <2>4. Issuing'
    BY <1>2, <2>1, <2>2 DEF Issuing, BeingIssued
  <2>5. \A l \in Lease : Marked(l) => Marked(l)'
    BY <2>1 DEF Marked, Broker!Current
  <2> QED BY <1>3, <2>1, <2>3, <2>4, <2>5
<1>5. ASSUME NEW t \in Broker!Timer, Broker!Fire(t) \/ Broker!Step(t) PROVE SideInv'
  <2>1. /\ t \in Broker!Goroutine
        /\ op[t].pc \in {"idle", "armed", "stopped", "fired", "done", "drop", "mark"}
        /\ \A k \in Caller : k # t
    BY BrokerTypes, RunFacts DEF Broker!Goroutine
  <2>2. ASSUME Quiet(t), closed' = closed PROVE SideInv'
    <3>1. Generic' /\ Issuing'
      BY <1>2, <2>1, <2>2, QuietKeeps
    <3>2. /\ \A k \in Caller : op'[k] = op[k]
          /\ late' = late /\ \A l \in Lease : Marked(l) => Marked(l)'
      BY <2>1, <2>2 DEF Quiet, Lone
    <3> QED BY <1>3, <2>2, <3>1, <3>2
  <2>3. CASE Broker!Fire(t)
    BY <2>2, <2>3, FireEffect
  <2>4. ASSUME NEW l \in Lease, Broker!RevokeLease(t, l) PROVE SideInv'
    BY <2>1, <2>2, <2>4, RevokeEffect
  <2>5. ASSUME NEW l \in Lease, op[t].pc # "idle", Broker!RevokeNothing(t, l) PROVE SideInv'
    BY <2>1, <2>2, <2>5, NothingEffect
  <2>6. CASE Broker!DropCredential(t)
    BY <2>1, <2>2, <2>6, DropEffect
  <2>7. CASE Broker!MarkRevoked(t)
    BY <2>1, <2>2, <2>7, MarkEffect
  <2>8. CASE \/ Broker!Generate(t) \/ Broker!RecordLease(t) \/ Broker!ShutdownReturns(t)
             \/ Broker!ExtendCredential(t) \/ Broker!CloneLease(t) \/ Broker!Rearm(t)
    <3>1. op[t].pc \in {"generate", "record", "shutdown", "extend", "clone", "rearm"}
      BY <2>8 DEF Broker!Generate, Broker!RecordLease, Broker!ExtendCredential,
         Broker!CloneLease, Broker!Rearm, Broker!ShutdownReturns
    <3> QED BY <2>1, <3>1
  <2> QED BY <1>5, <2>3, <2>4, <2>5, <2>6, <2>7, <2>8 DEF Broker!Step
<1> QED BY <1>1, <1>4, <1>5

LEMMA InitSide == Init => SideInv
<1> SUFFICES ASSUME Init PROVE SideInv
  OBVIOUS
<1>1. /\ closed = FALSE /\ drivers = InitialDrivers /\ leases = [l \in Lease |-> 0]
      /\ op = [g \in Broker!Goroutine |-> Broker!Idle] /\ revokeFailed = {} /\ late = {}
      /\ credential = [l \in Lease |-> [driver |-> "generic_token", state |-> "none"]]
      /\ server = [pc |-> "boot", mode |-> "none", guard |-> FALSE, policy |-> FALSE,
                    audit |-> FALSE]
      /\ task = [h \in Caller |-> Free] /\ revoked = {}
  BY DEF Init, Broker!Init
<1>2. Broker!Idle.pc = "idle" /\ Broker!Idle.driver = "generic_token"
  BY DEF Broker!Idle
<1>3. \A g \in Broker!Goroutine : op[g].pc = "idle" /\ op[g].driver = "generic_token"
  BY <1>1, <1>2
<1>4. \A h \in Caller : h \in Broker!Goroutine
  BY DEF Broker!Goroutine
<1>5. \A l \in Lease : /\ leases[l] = 0 /\ credential[l].driver = "generic_token"
                       /\ credential[l].state = "none"
  BY <1>1
<1>6. Generic
  BY <1>1, <1>3, <1>5 DEF Generic, GenericOK, Revoking
<1>7. Issuing
  BY <1>3, <1>5 DEF Issuing, Revoking
<1>8. CallsInv
  BY <1>1, <1>4, FreeFacts DEF CallsInv, Fits
<1>9. AnswersInv
  BY <1>1, FreeFacts DEF AnswersInv, Succeeded
<1> QED BY <1>6, <1>7, <1>8, <1>9 DEF SideInv

LEMMA SideStep ==
  ASSUME RunInv, DispatchInv, DispatchInv', BootInv, SideInv, [Next]_vars
  PROVE  SideInv'
<1>1. CASE Start \/ StopServing \/ Exit
  BY <1>1, ServerKeeps
<1>2. ASSUME NEW h \in Caller, NEW m \in Messages, Receive(h, m) PROVE SideInv'
  BY <1>2, ReceiveKeeps DEF DispatchInv, Flow
<1>3. ASSUME NEW h \in Caller, Dispatch(h) PROVE SideInv'
  <2>1. server.pc # "exited"
    BY <1>3 DEF Dispatch, Serving
  <2> QED BY <1>3, <2>1, OutsideKeeps, AnswerKeeps, HandleKeeps, InBrokerKeeps DEF Dispatch
<1>4. CASE ShutdownBroker
  BY <1>4, ShutdownKeeps
<1>5. CASE Background
  BY <1>5, BackgroundKeeps
<1>6. CASE UNCHANGED vars
  <2>1. UNCHANGED brokerVars /\ server' = server /\ task' = task /\ revoked' = revoked
    BY <1>6 DEF vars, startVars, dispatchVars
  <2>2. Generic' /\ Issuing' /\ \A l \in Lease : Marked(l) => Marked(l)'
    BY <2>1, SameBroker DEF SideInv
  <2>3. CallsInv'
    BY <2>1 DEF SideInv, CallsInv, Fits, FrameOf, brokerVars
  <2>4. AnswersInv'
    BY <2>1, <2>2, SameAnswers DEF SideInv, DispatchInv, Flow
  <2> QED BY <2>2, <2>3, <2>4 DEF SideInv
<1> QED BY <1>1, <1>2, <1>3, <1>4, <1>5, <1>6 DEF Next

LEMMA SideInvariant == Spec => []SideInv
<1>1. Init => SideInv
  BY InitSide
<1>2. /\ RunInv /\ (DispatchInv /\ BootInv) /\ (DispatchInv /\ BootInv)' /\ SideInv /\ [Next]_vars
      => SideInv'
  BY SideStep
<1> QED BY <1>1, <1>2, RunInvariant, DispatchInvariant, PTL DEF Spec

\* What the broker's theorems say of it inside of the server.
LEMMA ServerStableNames == Proved!StableNames
<1>1. \A t \in Target : Proved!Resolve(t) = "generic_token"
  <2>1. "generic_token" \in Target /\ InitialDrivers["generic_token"] # None
    BY StandaloneAssumption DEF Broker!BrokerAssumption, Broker!Driver
  <2>2. InitialDrivers["generic_token"] = "generic_token"
    BY <2>1, StandaloneAssumption
  <2> QED BY <2>2, StandaloneAssumption DEF Proved!Resolve
<1>2. Registrations = {}
  BY StandaloneAssumption
<1> QED BY <1>1, <1>2 DEF Proved!StableNames

LEMMA BrokerHolds ==
  Spec => [](Broker!RevokedMeansDropped /\ Broker!ShutdownCoversSettledLeases)
<1>1. Proved!RevokedMeansDropped => Broker!RevokedMeansDropped
  BY SameData DEF Proved!RevokedMeansDropped, Broker!RevokedMeansDropped
<1>2. Proved!ShutdownCoversSettledLeases => Broker!ShutdownCoversSettledLeases
  <2>1. \A r, l : Proved!Watches(r, l) <=> Broker!Watches(r, l)
    BY DEF Proved!Watches, Broker!Watches
  <2>2. \A l : Proved!BeingRevoked(l) <=> Broker!BeingRevoked(l)
    BY <2>1, SameData DEF Proved!BeingRevoked, Broker!BeingRevoked
  <2> QED BY <2>2, SameHelpers DEF Proved!ShutdownCoversSettledLeases,
             Broker!ShutdownCoversSettledLeases
<1>3. Proved!Spec => []Proved!RevokedMeansDropped
  BY Proved!RevocationIsReal, SameAssumption, ServerStableNames
<1>4. Proved!Spec => []Proved!ShutdownCoversSettledLeases
  BY Proved!ShutdownCovers, SameAssumption
<1> QED BY <1>1, <1>2, <1>3, <1>4, RunsTheBroker, SameSpec, PTL

\* A lease that is marked in the map has no secret that works.
LEMMA MarkedIsDropped ==
  ASSUME SideInv, Broker!RevokedMeansDropped, NEW l \in Lease, Marked(l)
  PROVE  credential[l].state = "dropped"
<1>1. leases[l] = 1 /\ 1 \in Broker!Version /\ revokeFailed = {}
  BY StandaloneAssumption DEF SideInv, Generic, Marked, Broker!Version, Broker!BrokerAssumption
<1>2. object[l][1].revoked
  BY <1>1 DEF Marked, Broker!Current
<1> QED BY <1>1, <1>2 DEF Broker!RevokedMeansDropped

\* What a client was told is true and stays true, although the handler may have
\* answered without revoking anything, because a timer, Shutdown or another
\* handler did: krypton_revoke_credential succeeds only for a lease that is
\* marked, and a mark means that the secret is gone.
THEOREM RevokedAnswersAreTrue == Spec => []RevokedAnswersHold
<1>1. (DispatchInv /\ BootInv) /\ SideInv
      /\ (Broker!RevokedMeansDropped /\ Broker!ShutdownCoversSettledLeases) => RevokedAnswersHold
  <2> SUFFICES ASSUME DispatchInv, SideInv, Broker!RevokedMeansDropped, NEW l \in revoked
               PROVE  credential[l].state = "dropped" /\ l \notin Broker!ActiveLeases
    BY DEF RevokedAnswersHold
  <2>1. l \in Lease /\ Marked(l)
    BY DEF DispatchInv, Flow, TypeOK, SideInv, AnswersInv
  <2>2. credential[l].state = "dropped"
    BY <2>1, MarkedIsDropped
  <2>3. l \notin Broker!ActiveLeases
    BY <2>1 DEF Marked, Broker!ActiveLeases, Broker!Unrevoked
  <2> QED BY <2>2, <2>3
<1> QED BY <1>1, SideInvariant, DispatchInvariant, BrokerHolds, PTL

\* Whatever ends the server, what it issued is revoked or about to be; over HTTP
\* a handler that outlives the shutdown may leave a lease behind.
THEOREM NoSecretSurvives == Spec => []ExitLeavesNoSecret
<1>1. (DispatchInv /\ BootInv) /\ SideInv
      /\ (Broker!RevokedMeansDropped /\ Broker!ShutdownCoversSettledLeases) => ExitLeavesNoSecret
  <2> SUFFICES ASSUME DispatchInv, SideInv, Broker!RevokedMeansDropped,
                      Broker!ShutdownCoversSettledLeases,
                      server.pc = "exited", server.mode # "none",
                      NEW l \in Lease, credential[l].state = "live"
               PROVE  \/ Broker!BeingRevoked(l)
                      \/ server.mode = "sse" /\ (l \in late \/ BeingIssued(l))
    BY DEF ExitLeavesNoSecret
  <2>1. Flow /\ TypeOK /\ CallsInv /\ Issuing
    BY DEF DispatchInv, Flow, SideInv
  <2>2. closed /\ op[Main].pc = "idle" /\ (late # {} => server.mode = "sse")
    BY <2>1 DEF CallsInv
  <2>3. Broker!Idle.pc = "idle"
    BY DEF Broker!Idle
  <2>4. CASE leases[l] = 0
    <3>1. PICK k \in Caller : op[k].pc = "record" /\ op[k].lease = l
      BY <2>1, <2>4 DEF Issuing, BeingIssued
    <3>2. BeingIssued(l)
      BY <3>1 DEF BeingIssued
    <3>3. k # Main
      BY <2>2, <3>1
    <3>4. task[k].pc = "broker"
      BY <2>1, <2>3, <3>1, <3>3 DEF CallsInv, Fits
    <3>5. k \in Handlers
      BY <2>1, <3>4 DEF Flow
    <3>6. server.mode = "sse"
      BY <3>3, <3>5 DEF Handlers
    <3> QED BY <3>2, <3>6
  <2>5. CASE leases[l] # 0
    <3>1. ~Marked(l)
      BY MarkedIsDropped
    <3>2. Broker!Unrevoked(l)
      BY <2>5, <3>1 DEF Marked, Broker!Unrevoked, Broker!Recorded
    <3>3. l \in late \/ Broker!BeingRevoked(l)
      BY <2>2, <3>2 DEF Broker!ShutdownCoversSettledLeases
    <3> QED BY <2>2, <3>3
  <2> QED BY <2>4, <2>5
<1> QED BY <1>1, SideInvariant, DispatchInvariant, BrokerHolds, PTL

\* The server is a lease service to its clients, as the broker is to its callers.
THEOREM ServerServesLeases == Spec => Proved!ImplementsLeaseService
<1>1. Proved!Spec => Proved!ImplementsLeaseService
  BY Proved!BrokerImplementsLeaseService, SameAssumption, ServerStableNames
<1> QED BY <1>1, RunsTheBroker, SameSpec, PTL

================================================================================
