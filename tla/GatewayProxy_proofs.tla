--------------------------- MODULE GatewayProxy_proofs ---------------------------
(***************************************************************************)
(* Theorems about GatewayProxy: what the two loops promise to the client,  *)
(* to the subprocess and to the ledger, for any client, any subprocess and *)
(* pipes of any size.                                                      *)
(***************************************************************************)
EXTENDS GatewayProxy, FiniteSetTheorems, TLAPS

-------------------------------------------------------------------------------
\* What the steps do, action by action, in terms of the points of the loops.

UpIs(pc, n) == up' \in Loop /\ up'.pc = pc /\ up'.n = n

DownIs(pc, n) == down' \in Loop /\ down'.pc = pc /\ down'.n = n

\* A loop that moves on stays a loop.
LEMMA LoopMoves ==
    ASSUME NEW l \in Loop, NEW pc \in {"top", "read", "audit", "deliver", "done"}
    PROVE  /\ [l EXCEPT !.pc = pc] \in Loop
           /\ [l EXCEPT !.pc = pc].pc = pc /\ [l EXCEPT !.pc = pc].n = l.n
BY DEF Loop

\* The loop to the subprocess.
LEMMA UpEffect ==
    ASSUME up \in Loop, Up
    PROVE  /\ UNCHANGED <<clientVars, down, childVars, start, signal>>
           /\ \/ /\ up.pc = "top" /\ (UpIs("read", up.n) \/ UpIs("done", up.n))
                 /\ UNCHANGED <<forwarded, received, logged>>
              \/ /\ up.pc = "read" /\ up.n < Len(sent)
                 /\ sent[up.n + 1] = "invalid" /\ UpIs("top", up.n + 1)
                 /\ Give("parse", 0, FALSE) /\ UNCHANGED <<forwarded, logged>>
              \/ /\ up.pc = "read" /\ up.n < Len(sent)
                 /\ sent[up.n + 1] # "invalid" /\ UpIs("audit", up.n + 1)
                 /\ UNCHANGED <<forwarded, received, logged>>
              \/ /\ up.pc = "read" /\ UpIs("done", up.n)
                 /\ UNCHANGED <<forwarded, received, logged>>
              \/ /\ up.pc = "audit" /\ UpIs("deliver", up.n)
                 /\ Logs("client") /\ UNCHANGED <<forwarded, received>>
              \/ /\ up.pc = "deliver" /\ UpIs("top", up.n)
                 /\ \/ sent[up.n] = "blocked" /\ Give("blocked", up.n, FALSE)
                    \/ sent[up.n] = "failing" /\ Give("internal", up.n, FALSE)
                 /\ UNCHANGED <<forwarded, logged>>
              \/ /\ up.pc = "deliver" /\ UpIs("top", up.n)
                 /\ sent[up.n] \in {"allowed", "notification"}
                 /\ forwarded' = Append(forwarded, up.n) /\ UNCHANGED <<received, logged>>
              \/ /\ up.pc = "deliver" /\ UpIs("done", up.n)
                 /\ sent[up.n] \in {"allowed", "notification"}
                 /\ UNCHANGED <<forwarded, received, logged>>
<1>1. CASE UpTop
    <2>1. PICK pc \in {"read", "done"} : up' = [up EXCEPT !.pc = pc]
        BY <1>1 DEF UpTop
    <2>2. UpIs("read", up.n) \/ UpIs("done", up.n)
        BY <2>1 DEF UpIs, Loop
    <2> QED BY <1>1, <2>2 DEF UpTop
<1>2. CASE UpRead
    <2>1. up' \in Loop /\ up'.n = up.n + 1
          /\ up'.pc = IF sent[up.n + 1] = "invalid" THEN "top" ELSE "audit"
        BY <1>2 DEF UpRead, Loop
    <2> QED BY <1>2, <2>1 DEF UpRead, UpIs
<1>3. CASE UpEnd
    BY <1>3, LoopMoves DEF UpEnd, UpIs
<1>4. CASE UpAudit
    BY <1>4, LoopMoves DEF UpAudit, UpIs
<1>5. CASE UpIntercept
    BY <1>5, LoopMoves DEF UpIntercept, UpIs
<1>6. CASE UpForward
    <2>1. UpIs("top", up.n) \/ up' # [up EXCEPT !.pc = "top"]
        BY DEF UpIs, Loop
    <2>2. UpIs("done", up.n) \/ up' # [up EXCEPT !.pc = "done"]
        BY DEF UpIs, Loop
    <2> QED BY <1>6, <2>1, <2>2 DEF UpForward
<1> QED BY <1>1, <1>2, <1>3, <1>4, <1>5, <1>6 DEF Up

\* The loop to the client.
LEMMA DownEffect ==
    ASSUME down \in Loop, Down
    PROVE  /\ UNCHANGED <<clientVars, up, forwarded, childVars, start, signal>>
           /\ \/ /\ down.pc = "top" /\ (DownIs("read", down.n) \/ DownIs("done", down.n))
                 /\ UNCHANGED <<received, logged>>
              \/ /\ down.pc = "read" /\ down.n < Len(written)
                 /\ written[down.n + 1].kind = "invalid" /\ DownIs("done", down.n + 1)
                 /\ UNCHANGED <<received, logged>>
              \/ /\ down.pc = "read" /\ down.n < Len(written)
                 /\ written[down.n + 1].kind # "invalid" /\ DownIs("audit", down.n + 1)
                 /\ UNCHANGED <<received, logged>>
              \/ /\ down.pc = "read" /\ DownIs("done", down.n)
                 /\ UNCHANGED <<received, logged>>
              \/ /\ down.pc = "audit" /\ DownIs("deliver", down.n)
                 /\ Logs("downstream") /\ UNCHANGED received
              \/ /\ down.pc = "deliver" /\ DownIs("top", down.n)
                 /\ received' = Append(received, Relay(written[down.n]))
                 /\ UNCHANGED logged
<1>1. CASE DownTop
    <2>1. PICK pc \in {"read", "done"} : down' = [down EXCEPT !.pc = pc]
        BY <1>1 DEF DownTop
    <2>2. DownIs("read", down.n) \/ DownIs("done", down.n)
        BY <2>1 DEF DownIs, Loop
    <2> QED BY <1>1, <2>2 DEF DownTop
<1>2. CASE DownRead
    <2>1. down' \in Loop /\ down'.n = down.n + 1
          /\ down'.pc = IF written[down.n + 1].kind = "invalid" THEN "done" ELSE "audit"
        BY <1>2 DEF DownRead, Loop
    <2> QED BY <1>2, <2>1 DEF DownRead, DownIs
<1>3. CASE DownEnd
    BY <1>3, LoopMoves DEF DownEnd, DownIs
<1>4. CASE DownAudit
    BY <1>4, LoopMoves DEF DownAudit, DownIs
<1>5. CASE DownDeliver
    <2>1. DownIs("top", down.n)
        BY <1>5, LoopMoves DEF DownDeliver, DownIs
    <2>2. received' = Append(received, Relay(written[down.n]))
        BY <1>5 DEF DownDeliver, Give, Relay
    <2> QED BY <1>5, <2>1, <2>2 DEF DownDeliver
<1> QED BY <1>1, <1>2, <1>3, <1>4, <1>5 DEF Down

\* The subprocess, as seen from the gateway: it reads one message, or writes one.
LEMMA ChildEffect ==
    ASSUME TypeOK, Environment
    PROVE  /\ UNCHANGED <<peer, up, down, forwarded, received, logged, start>>
           /\ \/ /\ UNCHANGED <<consumed, working, written>>
                 /\ sent' = sent \/ \E kind \in Kind : sent' = Append(sent, kind)
              \/ /\ consumed < Len(forwarded) /\ consumed' = consumed + 1
                 /\ working' = IF sent[forwarded[consumed + 1]] \in Request
                               THEN working \cup {forwarded[consumed + 1]} ELSE working
                 /\ UNCHANGED <<sent, written>>
              \/ /\ \E id \in working :
                       /\ working' = working \ {id}
                       /\ written' = Append(written, [kind |-> "response", id |-> id])
                 /\ UNCHANGED <<sent, consumed>>
              \/ /\ \E kind \in {"notification", "invalid"} :
                       written' = Append(written, [kind |-> kind, id |-> 0])
                 /\ UNCHANGED <<sent, consumed, working>>
<1>1. CASE \E kind \in Kind : Send(kind)
    BY <1>1 DEF Send, childVars
<1>2. CASE ClientEnds \/ Signal \/ ChildExits
    BY <1>2 DEF ClientEnds, Signal, ChildExits, childVars, clientVars
<1>3. CASE ChildReads
    BY <1>3 DEF ChildReads, clientVars
<1>4. CASE \E id \in working : ChildAnswers(id)
    BY <1>4 DEF ChildAnswers, clientVars
<1>5. CASE \E kind \in {"notification", "invalid"} : ChildWrites(kind)
    BY <1>5 DEF ChildWrites, clientVars
<1> QED BY <1>1, <1>2, <1>3, <1>4, <1>5 DEF Environment

\* Start touches neither messages nor loops, and closes the ledger for good.
LEMMA StartEffect ==
    ASSUME TypeOK, Start
    PROVE  /\ UNCHANGED <<clientVars, up, down, forwarded, consumed, working, written, stderr,
                          received, logged, signal>>
           /\ start' \in {"launch", "wait", "close", "cancel", "stop", "reap", "exited"}
           /\ child' \in {"none", "running", "exited"}
           /\ LedgerOpen' => LedgerOpen
BY DEF TypeOK, Start, Launch, Returns, CloseLedger, Cancel, Stop, Reap, Kill, LedgerOpen

-------------------------------------------------------------------------------
\* A loop that is past reading has a message that it may pass on.
Holding ==
    /\ up.pc \in {"audit", "deliver"} => up.n > 0 /\ sent[up.n] # "invalid"
    /\ down.pc \in {"audit", "deliver"} => down.n > 0 /\ written[down.n].kind # "invalid"

TypeInv == TypeOK /\ Holding

LEMMA TypeInit == Init => TypeInv
<1> SUFFICES ASSUME Init PROVE TypeInv
    OBVIOUS
<1>1. /\ sent = <<>> /\ written = <<>> /\ forwarded = <<>> /\ received = <<>>
      /\ working = {} /\ logged = {} /\ consumed = 0 /\ stderr = 0
      /\ up = [pc |-> "top", n |-> 0] /\ down = [pc |-> "top", n |-> 0]
    BY DEF Init
<1>2. up \in Loop /\ down \in Loop /\ up.n = 0 /\ down.n = 0 /\ up.pc = "top" /\ down.pc = "top"
    BY <1>1 DEF Loop
<1>3. 0 \in 0..Len(<<>>) /\ 0 \in 0..StderrSize /\ up.n <= Len(<<>>) /\ down.n <= Len(<<>>)
    BY <1>2, ProxyAssumption
<1>4. /\ sent \in Seq(Kind) /\ forwarded \in Seq(1..Len(sent)) /\ written \in Seq(Output)
      /\ received \in Seq(Delivery) /\ working \subseteq 1..Len(sent)
    BY <1>1
<1>5. peer \in Peers /\ eof \in BOOLEAN /\ child = "none" /\ start = "launch" /\ signal \in BOOLEAN
    BY DEF Init
<1>6. TypeOK
    BY <1>1, <1>2, <1>3, <1>4, <1>5, Zenon DEF TypeOK
<1> QED BY <1>2, <1>6 DEF TypeInv, Holding

\* Sequences of the gateway only grow at their end.
LEMMA Grows ==
    ASSUME NEW S, NEW s \in Seq(S), NEW e \in S
    PROVE  /\ Append(s, e) \in Seq(S) /\ Len(s) \in Nat
           /\ Len(Append(s, e)) = Len(s) + 1 /\ Append(s, e)[Len(s) + 1] = e
           /\ \A i \in 1..Len(s) : Append(s, e)[i] = s[i]
           /\ DOMAIN s = 1..Len(s) /\ DOMAIN Append(s, e) = 1..Len(s) + 1
OBVIOUS

\* What every step does to the messages of the two peers: they stay where they are.
LEMMA MessagesStay ==
    ASSUME TypeInv, [Next]_vars
    PROVE  /\ peer' = peer
           /\ sent' \in Seq(Kind) /\ Len(sent) \in Nat /\ Len(sent') \in Nat
           /\ Len(sent) <= Len(sent') /\ \A i \in 1..Len(sent) : sent'[i] = sent[i]
           /\ written' \in Seq(Output) /\ Len(written) \in Nat /\ Len(written') \in Nat
           /\ Len(written) <= Len(written') /\ \A n \in 1..Len(written) : written'[n] = written[n]
<1>1. sent \in Seq(Kind) /\ written \in Seq(Output)
    BY DEF TypeInv, TypeOK
<1>2. CASE UNCHANGED <<clientVars, written>>
    BY <1>1, <1>2 DEF clientVars
<1>3. CASE Up
    <2>1. UNCHANGED <<clientVars, childVars>>
        BY <1>3, UpEffect DEF TypeInv, TypeOK
    <2> QED BY <1>2, <2>1 DEF childVars
<1>4. CASE Down
    <2>1. UNCHANGED <<clientVars, childVars>>
        BY <1>4, DownEffect DEF TypeInv, TypeOK
    <2> QED BY <1>2, <2>1 DEF childVars
<1>5. CASE Start
    BY <1>2, <1>5, StartEffect DEF TypeInv
<1>6. CASE Environment
    <2>1. /\ peer' = peer
          /\ sent' = sent \/ \E kind \in Kind : sent' = Append(sent, kind)
          /\ written' = written \/ \E m \in Output : written' = Append(written, m)
        <3>1. \A id \in working : [kind |-> "response", id |-> id] \in Output
            BY DEF TypeInv, TypeOK, Output
        <3>2. \A kind \in {"notification", "invalid"} : [kind |-> kind, id |-> 0] \in Output
            BY DEF Output
        <3> QED BY <1>6, <3>1, <3>2, ChildEffect DEF TypeInv
    <2>2. /\ sent' \in Seq(Kind) /\ Len(sent) \in Nat /\ Len(sent') \in Nat
          /\ Len(sent) <= Len(sent') /\ \A i \in 1..Len(sent) : sent'[i] = sent[i]
        <3>1. CASE sent' = sent
            BY <1>1, <3>1
        <3>2. ASSUME NEW kind \in Kind, sent' = Append(sent, kind)
              PROVE  /\ sent' \in Seq(Kind) /\ Len(sent) \in Nat /\ Len(sent') = Len(sent) + 1
                     /\ \A i \in 1..Len(sent) : sent'[i] = sent[i]
            BY <1>1, <3>2, Grows
        <3> QED BY <2>1, <3>1, <3>2
    <2>3. /\ written' \in Seq(Output) /\ Len(written) \in Nat /\ Len(written') \in Nat
          /\ Len(written) <= Len(written')
          /\ \A n \in 1..Len(written) : written'[n] = written[n]
        BY <1>1, <2>1, SMTT(20)
    <2> QED BY <2>1, <2>2, <2>3
<1>7. CASE UNCHANGED vars
    BY <1>2, <1>7 DEF vars, childVars
<1> QED BY <1>3, <1>4, <1>5, <1>6, <1>7 DEF Next

LEMMA LoopsType ==
    ASSUME TypeInv, [Next]_vars
    PROVE  /\ up' \in Loop /\ up'.n <= Len(sent') /\ down' \in Loop /\ down'.n <= Len(written')
           /\ Holding'
<1> DEFINE UpOK(l) == /\ l \in Loop /\ l.n <= Len(sent)
                      /\ l.pc \in {"audit", "deliver"} => l.n > 0 /\ sent[l.n] # "invalid"
           DownOK(l) == /\ l \in Loop /\ l.n <= Len(written)
                        /\ l.pc \in {"audit", "deliver"} => l.n > 0 /\ written[l.n].kind # "invalid"
<1>1. TypeOK /\ UpOK(up) /\ DownOK(down) /\ up.n \in Nat /\ down.n \in Nat
    BY DEF TypeInv, TypeOK, Holding, Loop
<1>2. Len(sent) \in Nat /\ Len(written) \in Nat
    BY MessagesStay
<1>3. UpOK(up')
    <2>1. CASE Up
        <3>1. up \in Loop
            BY <1>1
        <3>2. \/ UpIs("read", up.n) \/ UpIs("done", up.n)
              \/ up.n < Len(sent) /\ UpIs("top", up.n + 1)
              \/ up.n < Len(sent) /\ sent[up.n + 1] # "invalid" /\ UpIs("audit", up.n + 1)
              \/ up.pc \in {"audit", "deliver"} /\ (UpIs("deliver", up.n) \/ UpIs("top", up.n))
            BY <2>1, <3>1, UpEffect
        <3> QED BY <1>1, <1>2, <3>2 DEF UpIs, Loop
    <2>2. CASE up' = up
        BY <1>1, <2>2
    <2> QED BY <1>1, <2>1, <2>2, DownEffect, StartEffect, ChildEffect DEF Next, vars
<1>4. DownOK(down')
    <2>1. CASE Down
        <3>1. down \in Loop
            BY <1>1
        <3>2. \/ DownIs("read", down.n) \/ DownIs("done", down.n)
              \/ down.n < Len(written) /\ DownIs("done", down.n + 1)
              \/ /\ down.n < Len(written) /\ written[down.n + 1].kind # "invalid"
                 /\ DownIs("audit", down.n + 1)
              \/ down.pc \in {"audit", "deliver"} /\ (DownIs("deliver", down.n) \/ DownIs("top", down.n))
            BY <2>1, <3>1, DownEffect
        <3> QED BY <1>1, <1>2, <3>2 DEF DownIs, Loop
    <2>2. CASE down' = down
        BY <1>1, <2>2
    <2> QED BY <1>1, <2>1, <2>2, UpEffect, StartEffect, ChildEffect DEF Next, vars
<1>5. up'.n \in Nat /\ down'.n \in Nat
    BY <1>3, <1>4 DEF Loop
<1>6. up' \in Loop /\ up'.n <= Len(sent') /\ down' \in Loop /\ down'.n <= Len(written')
    BY <1>3, <1>4, <1>5, MessagesStay
<1>7. Holding'
    BY <1>3, <1>4, <1>5, MessagesStay DEF Holding
<1> QED BY <1>6, <1>7

LEMMA ForwardedType ==
    ASSUME TypeInv, [Next]_vars
    PROVE  /\ forwarded' \in Seq(1..Len(sent')) /\ consumed' \in 0..Len(forwarded')
           /\ working' \subseteq 1..Len(sent')
<1> DEFINE S == 1..Len(sent)
           T == 1..Len(sent')
<1>1. TypeOK /\ Holding /\ S \subseteq T
    BY MessagesStay DEF TypeInv
<1>2. up \in Loop /\ up.n \in Nat /\ Len(sent) \in Nat /\ up.n <= Len(sent)
    BY <1>1, MessagesStay DEF TypeOK, Loop
<1>3. /\ forwarded \in Seq(S) /\ Len(forwarded) \in Nat /\ consumed \in 0..Len(forwarded)
      /\ working \subseteq S
    BY <1>1 DEF TypeOK
<1>4. /\ forwarded' \in Seq(S) /\ Len(forwarded') \in Nat /\ Len(forwarded) <= Len(forwarded')
      /\ UNCHANGED <<consumed, working>> \/ forwarded' = forwarded
    <2>1. CASE Up
        <3>1. \/ forwarded' = forwarded
              \/ up.pc = "deliver" /\ forwarded' = Append(forwarded, up.n)
            BY <1>2, <2>1, UpEffect
        <3>2. UNCHANGED <<consumed, working>>
            BY <1>2, <2>1, UpEffect DEF childVars
        <3>3. up.pc = "deliver" => up.n \in S
            BY <1>1, <1>2 DEF Holding
        <3>4. up.n \in S => Append(forwarded, up.n) \in Seq(S)
                            /\ Len(Append(forwarded, up.n)) = Len(forwarded) + 1
            BY <1>3
        <3>5. CASE forwarded' = forwarded
            BY <1>3, <3>2, <3>5
        <3>6. CASE up.n \in S /\ forwarded' = Append(forwarded, up.n)
            <4>1. forwarded' \in Seq(S) /\ Len(forwarded') = Len(forwarded) + 1
                BY <3>4, <3>6
            <4> QED BY <1>3, <3>2, <4>1
        <3> QED BY <3>1, <3>3, <3>5, <3>6
    <2>2. CASE forwarded' = forwarded
        BY <1>3, <2>2
    <2> QED BY <1>1, <2>1, <2>2, DownEffect, StartEffect, ChildEffect DEF Next, vars, TypeOK
<1>5. consumed' \in 0..Len(forwarded') /\ working' \subseteq S
    <2>1. CASE UNCHANGED <<consumed, working>>
        BY <1>3, <1>4, <2>1
    <2>2. CASE Environment /\ forwarded' = forwarded
        <3>1. \/ UNCHANGED <<consumed, working>>
              \/ /\ consumed < Len(forwarded) /\ consumed' = consumed + 1
                 /\ working' \subseteq working \cup {forwarded[consumed + 1]}
              \/ consumed' = consumed /\ working' \subseteq working
            BY <1>1, <2>2, ChildEffect
        <3>2. consumed < Len(forwarded) => forwarded[consumed + 1] \in S
            BY <1>3
        <3> HIDE DEF S
        <3>3. consumed' \in 0..Len(forwarded')
            BY <1>3, <2>2, <3>1
        <3>4. working' \subseteq S
            BY <1>3, <3>1, <3>2
        <3> QED BY <3>3, <3>4
    <2> QED BY <1>1, <2>1, <2>2, UpEffect, DownEffect, StartEffect, ChildEffect
            DEF Next, vars, childVars, TypeOK
<1> HIDE DEF S, T
<1>6. forwarded' \in Seq(T) /\ working' \subseteq T
    BY <1>1, <1>4, <1>5
<1> QED BY <1>5, <1>6 DEF T

LEMMA TypeNext == TypeInv /\ [Next]_vars => TypeInv'
<1> SUFFICES ASSUME TypeInv, [Next]_vars PROVE TypeInv'
    OBVIOUS
<1>1. TypeOK /\ Holding /\ up \in Loop /\ down \in Loop /\ up.n \in Nat /\ down.n \in Nat
    BY DEF TypeInv, TypeOK, Loop
<1>2. /\ eof' \in BOOLEAN /\ signal' \in BOOLEAN /\ stderr' \in 0..StderrSize
      /\ child' \in {"none", "running", "exited"}
      /\ start' \in {"launch", "wait", "close", "cancel", "stop", "reap", "exited"}
    <2>1. CASE Environment
        <3>1. stderr' \in 0..StderrSize
            <4>1. stderr' = stderr \/ (stderr < StderrSize /\ stderr' = stderr + 1)
                <5>1. ASSUME NEW id \in working, ChildAnswers(id)
                      PROVE  stderr' = stderr \/ (stderr < StderrSize /\ stderr' = stderr + 1)
                    BY <5>1 DEF ChildAnswers
                <5> QED BY <2>1, <5>1 DEF Environment, Send, ClientEnds, Signal, ChildReads,
                           ChildWrites, ChildExits, childVars
            <4>2. stderr \in 0..StderrSize /\ StderrSize \in Nat
                BY <1>1, ProxyAssumption DEF TypeOK
            <4> QED BY <4>1, <4>2
        <3> QED BY <1>1, <2>1, <3>1 DEF TypeOK, Environment, Send, ClientEnds, Signal, ChildReads,
                   ChildAnswers, ChildWrites, ChildExits, clientVars, childVars
    <2>2. CASE Up \/ Down \/ UNCHANGED vars
        BY <1>1, <2>2, UpEffect, DownEffect DEF TypeOK, vars, clientVars, childVars
    <2>3. CASE Start
        BY <1>1, <2>3, StartEffect DEF TypeOK, clientVars
    <2> QED BY <2>1, <2>2, <2>3 DEF Next
<1>3. received' \in Seq(Delivery)
    <2>1. received \in Seq(Delivery)
        BY <1>1 DEF TypeOK
    <2>2. CASE Up
        <3>1. \/ received' = received
              \/ \E kind \in {"parse", "blocked", "internal"}, id \in {0, up.n} :
                    received' = Append(received, [kind |-> kind, id |-> id, masked |-> FALSE])
            BY <1>1, <2>2, UpEffect DEF Give
        <3>2. \A kind \in {"parse", "blocked", "internal"}, id \in {0, up.n} :
                  [kind |-> kind, id |-> id, masked |-> FALSE] \in Delivery
            BY <1>1 DEF Delivery
        <3>3. received' = received \/ \E d \in Delivery : received' = Append(received, d)
            BY <3>1, <3>2
        <3> QED BY <2>1, <3>3, Grows
    <2>3. CASE Down
        <3>1. \/ received' = received
              \/ down.pc = "deliver" /\ received' = Append(received, Relay(written[down.n]))
            BY <1>1, <2>3, DownEffect
        <3>2. down.pc = "deliver" => written[down.n] \in Output
            BY <1>1 DEF TypeOK, Holding
        <3>3. written[down.n] \in Output => Relay(written[down.n]) \in Delivery
            BY DEF Relay, Output, Delivery
        <3> QED BY <2>1, <3>1, <3>2, <3>3, Grows
    <2> QED BY <1>1, <2>1, <2>2, <2>3, StartEffect, ChildEffect DEF Next, vars
<1>4. logged' \subseteq Record
    <2>1. \A from \in {"client", "downstream"} : Logs(from) => logged' \subseteq Record
        <3>1. \A from \in {"client", "downstream"}, n \in Nat :
                  [from |-> from, n |-> n, masked |-> FALSE] \in Record
            BY DEF Record
        <3>2. logged \subseteq Record
            BY <1>1 DEF TypeOK
        <3> QED BY <1>1, <3>1, <3>2 DEF Logs
    <2>2. logged' = logged \/ Logs("client") \/ Logs("downstream")
        BY <1>1, UpEffect, DownEffect, StartEffect, ChildEffect DEF Next, vars
    <2> QED BY <1>1, <2>1, <2>2 DEF TypeOK
<1>5. TypeOK'
    <2>1. peer' \in Peers
        BY <1>1, MessagesStay DEF TypeOK
    <2> QED BY <1>2, <1>3, <1>4, <2>1, MessagesStay, LoopsType, ForwardedType DEF TypeOK
<1> QED BY <1>5, LoopsType DEF TypeInv

\* The types hold for every value of the constants.
THEOREM TypeCorrect == Spec => []TypeOK
<1>1. TypeInv => TypeOK
    BY DEF TypeInv
<1> QED BY TypeInit, TypeNext, <1>1, PTL DEF Spec

-------------------------------------------------------------------------------
\* The invariants behind the four promises.

\* How many messages of the client are dealt with, and how many of the subprocess.
Dealt == IF up.pc \in {"audit", "deliver"} THEN up.n - 1 ELSE up.n

Given == IF down.pc \in {"audit", "deliver"} THEN down.n - 1 ELSE down.n

\* The subprocess has read message id of the client.
HasRead(id) == \E i \in 1..consumed : forwarded[i] = id

\* It works on requests it has read, and answers one once, when it has no more
\* work with it.
ChildInv ==
    /\ \A id \in working : sent[id] = "allowed" /\ HasRead(id)
    /\ \A n \in DOMAIN written :
          IF written[n].kind = "response"
          THEN /\ written[n].id \in DOMAIN sent \ working /\ HasRead(written[n].id)
               /\ sent[written[n].id] = "allowed"
          ELSE written[n].id = 0
    /\ \A m, n \in DOMAIN written :
          written[m].kind = "response" /\ written[n].id = written[m].id => m = n

\* What the client has got, traced to where it comes from.
Origin(d) ==
    CASE d.kind = "result" -> \E n \in 1..Given : written[n].kind = "response" /\ written[n].id = d.id
      [] d.kind = "blocked" -> d.id \in 1..Dealt /\ sent[d.id] = "blocked"
      [] d.kind = "internal" -> d.id \in 1..Dealt /\ sent[d.id] = "failing"
      [] OTHER -> d.id = 0

AnswersInv ==
    /\ \A i \in DOMAIN received : Origin(received[i])
    /\ \A i, j \in DOMAIN received : received[i].id > 0 /\ received[j].id = received[i].id => j = i

\* A message at hand is in the ledger when it comes to be passed on.
PendingLogged ==
    /\ up.pc = "deliver" => LoggedFrom("client", up.n)
    /\ down.pc = "deliver" => LoggedFrom("downstream", down.n)

LedgerInv == LedgerOpen => Recorded /\ PendingLogged

-------------------------------------------------------------------------------
\* Message n of one side is in the ledger l.
InLedger(l, from, n) == \E r \in l : r.from = from /\ r.n = n

\* What the ledger holds stays in it, and it is not opened again.
LEMMA LedgerGrows ==
    ASSUME TypeInv, [Next]_vars
    PROVE  /\ LedgerOpen' => LedgerOpen
           /\ \A from, n : InLedger(logged, from, n) => InLedger(logged', from, n)
<1>1. TypeOK /\ up \in Loop /\ down \in Loop
    BY DEF TypeInv, TypeOK
<1>2. LedgerOpen' => LedgerOpen
    BY <1>1, UpEffect, DownEffect, StartEffect, ChildEffect DEF Next, vars, LedgerOpen
<1>3. logged' = logged \/ Logs("client") \/ Logs("downstream")
    BY <1>1, UpEffect, DownEffect, StartEffect, ChildEffect DEF Next, vars
<1>4. logged \subseteq logged'
    BY <1>3 DEF Logs
<1> QED BY <1>2, <1>4 DEF InLedger

\* While the ledger is open, a loop that comes to pass a message on has logged it.
LEMMA PendingNext ==
    ASSUME TypeInv, LedgerInv, [Next]_vars, LedgerOpen'
    PROVE  PendingLogged'
<1>1. /\ TypeOK /\ up \in Loop /\ down \in Loop /\ LedgerOpen
      /\ up.pc = "deliver" => InLedger(logged, "client", up.n)
      /\ down.pc = "deliver" => InLedger(logged, "downstream", down.n)
    BY LedgerGrows DEF TypeInv, TypeOK, LedgerInv, PendingLogged, LoggedFrom, InLedger
<1>2. up'.pc = "deliver" => InLedger(logged', "client", up'.n)
    <2>1. CASE up' = up
        BY <1>1, <2>1, LedgerGrows
    <2>2. CASE Up
        <3>1. SUFFICES ASSUME up'.pc = "deliver" PROVE InLedger(logged', "client", up'.n)
            OBVIOUS
        <3>2. Logs("client") /\ up'.n = up.n
            BY <1>1, <2>2, <3>1, UpEffect DEF UpIs
        <3>3. [from |-> "client", n |-> up.n, masked |-> FALSE] \in logged'
            BY <1>1, <3>2 DEF Logs
        <3> QED BY <3>2, <3>3 DEF InLedger
    <2> QED BY <1>1, <2>1, <2>2, DownEffect, StartEffect, ChildEffect DEF Next, vars
<1>3. down'.pc = "deliver" => InLedger(logged', "downstream", down'.n)
    <2>1. CASE down' = down
        BY <1>1, <2>1, LedgerGrows
    <2>2. CASE Down
        <3>1. SUFFICES ASSUME down'.pc = "deliver" PROVE InLedger(logged', "downstream", down'.n)
            OBVIOUS
        <3>2. Logs("downstream") /\ down'.n = down.n
            BY <1>1, <2>2, <3>1, DownEffect DEF DownIs
        <3>3. [from |-> "downstream", n |-> down.n, masked |-> FALSE] \in logged'
            BY <1>1, <3>2 DEF Logs
        <3> QED BY <3>2, <3>3 DEF InLedger
    <2> QED BY <1>1, <2>1, <2>2, UpEffect, StartEffect, ChildEffect DEF Next, vars
<1> QED BY <1>2, <1>3 DEF PendingLogged, LoggedFrom, InLedger

-------------------------------------------------------------------------------
\* Of the first n messages in s, those that pass the guardrails.
PassingIn(s, n) == {i \in 1..n : s[i] \in {"allowed", "notification"}}

\* ForwardsWhatPasses of a loop l that has forwarded f of the messages s.
Forwards(l, f, s) ==
    /\ l.pc \in {"top", "read"} => Enumerates(f, PassingIn(s, l.n))
    /\ l.pc \in {"audit", "deliver"} => Enumerates(f, PassingIn(s, l.n - 1))
    /\ l.pc = "done" => \E n \in {l.n, l.n - 1} \cap Nat : Enumerates(f, PassingIn(s, n))

LEMMA ForwardsDef == ForwardsWhatPasses = Forwards(up, forwarded, sent)
BY DEF ForwardsWhatPasses, Forwards, Passing, PassingIn

\* An enumeration goes on with a larger number.
LEMMA EnumeratesMore ==
    ASSUME NEW f \in Seq(Nat), NEW S, NEW n \in Nat, Enumerates(f, S), \A i \in S : i < n
    PROVE  Enumerates(Append(f, n), S \cup {n})
<1> DEFINE g == Append(f, n)
<1>1. /\ Len(f) \in Nat /\ DOMAIN f = 1..Len(f) /\ DOMAIN g = 1..Len(f) + 1
      /\ g[Len(f) + 1] = n /\ \A i \in 1..Len(f) : g[i] = f[i]
    BY Grows
<1> HIDE DEF g
<1>2. {g[i] : i \in DOMAIN g} = S \cup {n}
    <2>1. {f[i] : i \in 1..Len(f)} = S
        BY <1>1 DEF Enumerates
    <2>2. DOMAIN g = 1..Len(f) \cup {Len(f) + 1}
        BY <1>1
    <2> QED BY <1>1, <2>1, <2>2
<1>3. \A i, j \in DOMAIN g : i < j => g[i] < g[j]
    <2>1. \A i \in 1..Len(f) : f[i] \in S
        BY <1>1 DEF Enumerates
    <2>2. \A i, j \in 1..Len(f) : i < j => f[i] < f[j]
        BY <1>1 DEF Enumerates
    <2>3. \A j \in DOMAIN g : j \in 1..Len(f) \/ j = Len(f) + 1
        BY <1>1
    <2>4. ASSUME NEW i \in DOMAIN g, NEW j \in DOMAIN g, i < j PROVE g[i] < g[j]
        <3>1. i \in 1..Len(f)
            BY <1>1, <2>4
        <3> QED BY <1>1, <2>1, <2>2, <2>3, <3>1, <2>4
    <2> QED BY <2>4
<1> QED BY <1>2, <1>3 DEF Enumerates, g

\* Whether a message passes is settled when it is sent.
LEMMA PassingStays ==
    ASSUME TypeInv, [Next]_vars, NEW n \in Nat, n <= Len(sent)
    PROVE  PassingIn(sent', n) = PassingIn(sent, n)
<1>1. Len(sent) \in Nat /\ \A i \in 1..Len(sent) : sent'[i] = sent[i]
    BY MessagesStay
<1> QED BY <1>1 DEF PassingIn

LEMMA PassingMore ==
    ASSUME NEW s, NEW n \in Nat
    PROVE  /\ s[n + 1] \in {"allowed", "notification"}
                  => PassingIn(s, n + 1) = PassingIn(s, n) \cup {n + 1}
           /\ s[n + 1] \notin {"allowed", "notification"}
                  => PassingIn(s, n + 1) = PassingIn(s, n)
<1>1. 1..n + 1 = 1..n \cup {n + 1}
    OBVIOUS
<1> QED BY <1>1 DEF PassingIn

LEMMA ForwardsInit == Init => ForwardsWhatPasses
<1> SUFFICES ASSUME Init PROVE ForwardsWhatPasses
    OBVIOUS
<1>1. forwarded = <<>> /\ up.pc = "top" /\ up.n = 0
    BY DEF Init
<1>2. PassingIn(sent, 0) = {}
    BY DEF PassingIn
<1>3. Enumerates(<<>>, {})
    BY DEF Enumerates
<1> QED BY <1>1, <1>2, <1>3, ForwardsDef DEF Forwards

LEMMA ForwardsNext == TypeInv /\ ForwardsWhatPasses /\ [Next]_vars => ForwardsWhatPasses'
<1> SUFFICES ASSUME TypeInv, ForwardsWhatPasses, [Next]_vars PROVE ForwardsWhatPasses'
    OBVIOUS
<1>1. /\ TypeOK /\ Holding /\ up \in Loop /\ up.n \in Nat /\ up.n <= Len(sent) /\ Len(sent) \in Nat
      /\ up.pc \in {"top", "read", "audit", "deliver", "done"} /\ down \in Loop
    BY MessagesStay DEF TypeInv, TypeOK, Loop
<1>2. Forwards(up, forwarded, sent)
    BY ForwardsDef
<1>3. Forwards(up', forwarded', sent)
    <2>1. CASE up' = up /\ forwarded' = forwarded
        BY <1>2, <2>1
    <2>2. CASE Up
        <3>1. CASE up.pc = "top" /\ (UpIs("read", up.n) \/ UpIs("done", up.n)) /\ forwarded' = forwarded
            BY <1>1, <1>2, <3>1 DEF Forwards, UpIs
        <3>2. CASE /\ up.pc = "read" /\ sent[up.n + 1] = "invalid"
                   /\ UpIs("top", up.n + 1) /\ forwarded' = forwarded
            <4>1. PassingIn(sent, up.n + 1) = PassingIn(sent, up.n)
                BY <1>1, <3>2, PassingMore
            <4> QED BY <1>2, <3>2, <4>1 DEF Forwards, UpIs
        <3>3. CASE up.pc = "read" /\ UpIs("audit", up.n + 1) /\ forwarded' = forwarded
            <4>1. up'.n - 1 = up.n
                BY <1>1, <3>3 DEF UpIs
            <4> QED BY <1>2, <3>3, <4>1 DEF Forwards, UpIs
        <3>4. CASE up.pc = "read" /\ UpIs("done", up.n) /\ forwarded' = forwarded
            BY <1>1, <1>2, <3>4 DEF Forwards, UpIs
        <3>5. CASE up.pc = "audit" /\ UpIs("deliver", up.n) /\ forwarded' = forwarded
            BY <1>2, <3>5 DEF Forwards, UpIs
        <3>6. ASSUME up.pc = "deliver"
              PROVE  /\ up.n - 1 \in Nat /\ up.n - 1 + 1 = up.n
                     /\ Enumerates(forwarded, PassingIn(sent, up.n - 1))
            BY <1>1, <1>2, <3>6 DEF Forwards, Holding
        <3>7. CASE /\ up.pc = "deliver" /\ UpIs("top", up.n)
                   /\ sent[up.n] \in {"blocked", "failing"} /\ forwarded' = forwarded
            <4>1. PassingIn(sent, up.n) = PassingIn(sent, up.n - 1)
                BY <3>6, <3>7, PassingMore
            <4> QED BY <3>6, <3>7, <4>1 DEF Forwards, UpIs
        <3>8. CASE /\ up.pc = "deliver" /\ UpIs("top", up.n)
                   /\ sent[up.n] \in {"allowed", "notification"}
                   /\ forwarded' = Append(forwarded, up.n)
            <4>1. PassingIn(sent, up.n) = PassingIn(sent, up.n - 1) \cup {up.n}
                BY <3>6, <3>8, PassingMore
            <4>2. \A i \in PassingIn(sent, up.n - 1) : i < up.n
                BY <1>1 DEF PassingIn
            <4>3. forwarded \in Seq(Nat)
                BY <1>1 DEF TypeOK
            <4>4. Enumerates(Append(forwarded, up.n), PassingIn(sent, up.n - 1) \cup {up.n})
                <5> DEFINE S == PassingIn(sent, up.n - 1)
                <5>1. Enumerates(forwarded, S) /\ up.n \in Nat /\ \A i \in S : i < up.n
                    BY <1>1, <3>6, <3>8, <4>2
                <5> HIDE DEF S
                <5>2. Enumerates(Append(forwarded, up.n), S \cup {up.n})
                    BY <4>3, <5>1, EnumeratesMore
                <5> QED BY <5>2 DEF S
            <4> QED BY <3>8, <4>1, <4>4 DEF Forwards, UpIs
        <3>9. CASE up.pc = "deliver" /\ UpIs("done", up.n) /\ forwarded' = forwarded
            BY <3>6, <3>9 DEF Forwards, UpIs
        <3> QED BY <1>1, <2>2, <3>1, <3>2, <3>3, <3>4, <3>5, <3>7, <3>8, <3>9, UpEffect
    <2> QED BY <1>1, <2>1, <2>2, DownEffect, StartEffect, ChildEffect DEF Next, vars
<1>4. up'.n \in Nat /\ up'.n <= Len(sent)
    <2>1. CASE up' = up
        BY <1>1, <2>1
    <2>2. CASE Up
        <3>1. UNCHANGED clientVars
            BY <1>1, <2>2, UpEffect
        <3> QED BY <3>1, LoopsType DEF Loop, clientVars
    <2> QED BY <1>1, <2>1, <2>2, DownEffect, StartEffect, ChildEffect DEF Next, vars
<1>5. Forwards(up', forwarded', sent')
    <2>1. \A n \in {up'.n, up'.n - 1} \cap Nat : PassingIn(sent', n) = PassingIn(sent, n)
        BY <1>1, <1>4, PassingStays
    <2>2. up'.pc \in {"audit", "deliver"} => up'.n - 1 \in Nat
        BY <1>4, LoopsType DEF Holding
    <2> QED BY <1>3, <1>4, <2>1, <2>2 DEF Forwards
<1> QED BY <1>5 DEF ForwardsWhatPasses, Forwards, Passing, PassingIn

\* The subprocess gets what the guardrails let through: all of it, once each, in
\* the client's order, and nothing else.
THEOREM WhatPassesIsForwarded == Spec => []ForwardsWhatPasses
BY TypeInit, TypeNext, ForwardsInit, ForwardsNext, PTL DEF Spec

-------------------------------------------------------------------------------
\* ChildInv of a subprocess that has read c of the messages f, works on w and has
\* written o, when the client has sent s.
ReadOf(f, c, id) == \E i \in 1..c : f[i] = id

Works(f, c, w, o, s) ==
    /\ \A id \in w : s[id] = "allowed" /\ ReadOf(f, c, id)
    /\ \A n \in DOMAIN o :
          IF o[n].kind = "response"
          THEN o[n].id \in DOMAIN s \ w /\ ReadOf(f, c, o[n].id) /\ s[o[n].id] = "allowed"
          ELSE o[n].id = 0
    /\ \A m, n \in DOMAIN o : o[m].kind = "response" /\ o[n].id = o[m].id => m = n

LEMMA WorksDef == ChildInv = Works(forwarded, consumed, working, written, sent)
BY DEF ChildInv, Works, HasRead, ReadOf

\* The messages forwarded are different, and pass the guardrails.
LEMMA ForwardedOnce ==
    ASSUME TypeInv, ForwardsWhatPasses
    PROVE  /\ \A i, j \in 1..Len(forwarded) : forwarded[i] = forwarded[j] => i = j
           /\ \A i \in 1..Len(forwarded) :
                  forwarded[i] \in 1..Len(sent) /\ sent[forwarded[i]] \in {"allowed", "notification"}
<1>1. TypeOK /\ up.pc \in {"top", "read", "audit", "deliver", "done"} /\ Len(sent) \in Nat
    BY DEF TypeInv, TypeOK, Loop
<1>2. /\ DOMAIN forwarded = 1..Len(forwarded) /\ Len(forwarded) \in Nat
      /\ \A i \in 1..Len(forwarded) : forwarded[i] \in 1..Len(sent)
    BY <1>1 DEF TypeOK
<1>3. PICK k : Enumerates(forwarded, PassingIn(sent, k))
    BY <1>1, ForwardsDef DEF Forwards
<1>4. \A i \in 1..Len(forwarded) : forwarded[i] \in PassingIn(sent, k)
    BY <1>2, <1>3 DEF Enumerates
<1>5. \A i, j \in 1..Len(forwarded) : i < j => forwarded[i] < forwarded[j]
    BY <1>2, <1>3 DEF Enumerates
<1>6. \A i, j \in 1..Len(forwarded) : forwarded[i] = forwarded[j] => i = j
    BY <1>2, <1>5
<1> QED BY <1>2, <1>4, <1>6 DEF PassingIn

\* What was forwarded stays so.
LEMMA ForwardedStays ==
    ASSUME TypeInv, [Next]_vars
    PROVE  /\ Len(forwarded) \in Nat /\ Len(forwarded') \in Nat /\ Len(forwarded) <= Len(forwarded')
           /\ \A i \in 1..Len(forwarded) : forwarded'[i] = forwarded[i]
<1>1. TypeOK /\ up \in Loop /\ down \in Loop /\ forwarded \in Seq(Nat) /\ up.n \in Nat
    BY DEF TypeInv, TypeOK, Loop
<1>2. forwarded' = forwarded \/ forwarded' = Append(forwarded, up.n)
    BY <1>1, UpEffect, DownEffect, StartEffect, ChildEffect DEF Next, vars
<1> QED BY <1>1, <1>2

LEMMA ChildInit == Init => ChildInv
BY DEF Init, ChildInv

LEMMA ChildNext == TypeInv /\ ForwardsWhatPasses /\ ChildInv /\ [Next]_vars => ChildInv'
<1> SUFFICES ASSUME TypeInv, ForwardsWhatPasses, ChildInv, [Next]_vars PROVE ChildInv'
    OBVIOUS
<1>1. /\ TypeOK /\ up \in Loop /\ down \in Loop
      /\ consumed \in Nat /\ consumed <= Len(forwarded) /\ Len(forwarded) \in Nat
      /\ working \subseteq 1..Len(sent) /\ written \in Seq(Output)
    BY DEF TypeInv, TypeOK
<1>2. Works(forwarded, consumed, working, written, sent)
    BY WorksDef
<1>3. Works(forwarded, consumed', working', written', sent)
    <2>1. CASE UNCHANGED <<consumed, working, written>>
        BY <1>2, <2>1
    <2>2. CASE /\ consumed < Len(forwarded) /\ consumed' = consumed + 1 /\ written' = written
               /\ working' = IF sent[forwarded[consumed + 1]] \in Request
                             THEN working \cup {forwarded[consumed + 1]} ELSE working
        <3> DEFINE new == forwarded[consumed + 1]
        <3>1. \A id : ReadOf(forwarded, consumed, id) => ReadOf(forwarded, consumed + 1, id) /\ id # new
            <4>1. 1..consumed \subseteq 1..consumed + 1
                BY <1>1
            <4>2. \A i \in 1..consumed : forwarded[i] # new
                BY <1>1, <2>2, ForwardedOnce
            <4> QED BY <4>1, <4>2 DEF ReadOf
        <3>2. ReadOf(forwarded, consumed + 1, new)
            BY <1>1 DEF ReadOf
        <3>3. sent[new] \in {"allowed", "notification"}
            BY <1>1, <2>2, ForwardedOnce
        <3>4. working' \subseteq working \cup {new} /\ (new \in working' => new \in working \/ sent[new] = "allowed")
            BY <2>2, <3>3 DEF Request
        <3> HIDE DEF new
        <3>5. \A id \in working' : sent[id] = "allowed" /\ ReadOf(forwarded, consumed + 1, id)
            BY <1>2, <3>1, <3>2, <3>4 DEF Works
        <3>6. ASSUME NEW n \in DOMAIN written, written[n].kind = "response"
              PROVE  /\ written[n].id \in DOMAIN sent \ working'
                     /\ ReadOf(forwarded, consumed + 1, written[n].id) /\ sent[written[n].id] = "allowed"
            BY <1>2, <3>1, <3>4, <3>6 DEF Works
        <3> QED BY <1>2, <2>2, <3>5, <3>6 DEF Works
    <2>3. ASSUME NEW id \in working, working' = working \ {id}, consumed' = consumed,
                 written' = Append(written, [kind |-> "response", id |-> id])
          PROVE  Works(forwarded, consumed', working', written', sent)
        <3> DEFINE m == [kind |-> "response", id |-> id]
        <3>1. m \in Output /\ id \in 1..Len(sent) /\ DOMAIN sent = 1..Len(sent)
            BY <1>1 DEF Output, TypeOK
        <3>2. /\ Len(written) \in Nat /\ DOMAIN written = 1..Len(written)
              /\ DOMAIN written' = 1..Len(written) + 1 /\ written'[Len(written) + 1] = m
              /\ \A n \in 1..Len(written) : written'[n] = written[n]
            BY <1>1, <2>3, <3>1, Grows
        <3>3. \A n \in DOMAIN written : written[n].id # id
            BY <1>2, <3>1 DEF Works
        <3>4. \A n \in DOMAIN written' : n \in DOMAIN written \/ n = Len(written) + 1
            BY <3>2
        <3>5. m.kind = "response" /\ m.id = id
            OBVIOUS
        <3>6. sent[id] = "allowed" /\ ReadOf(forwarded, consumed, id)
            BY <1>2 DEF Works
        <3> HIDE DEF m
        <3>7. \A n \in DOMAIN written' :
                  IF written'[n].kind = "response"
                  THEN /\ written'[n].id \in DOMAIN sent \ working'
                       /\ ReadOf(forwarded, consumed, written'[n].id) /\ sent[written'[n].id] = "allowed"
                  ELSE written'[n].id = 0
            BY <1>2, <2>3, <3>1, <3>2, <3>4, <3>5, <3>6 DEF Works
        <3>8. \A i, j \in DOMAIN written' :
                  written'[i].kind = "response" /\ written'[j].id = written'[i].id => i = j
            BY <1>2, <3>2, <3>3, <3>4, <3>5 DEF Works
        <3> QED BY <1>2, <2>3, <3>7, <3>8 DEF Works
    <2>4. ASSUME NEW kind \in {"notification", "invalid"}, UNCHANGED <<consumed, working>>,
                 written' = Append(written, [kind |-> kind, id |-> 0])
          PROVE  Works(forwarded, consumed', working', written', sent)
        <3> DEFINE m == [kind |-> kind, id |-> 0]
        <3>1. m \in Output /\ m.kind # "response" /\ m.id = 0
            BY DEF Output
        <3>2. /\ Len(written) \in Nat /\ DOMAIN written = 1..Len(written)
              /\ DOMAIN written' = 1..Len(written) + 1 /\ written'[Len(written) + 1] = m
              /\ \A n \in 1..Len(written) : written'[n] = written[n]
            BY <1>1, <2>4, <3>1, Grows
        <3>3. \A n \in DOMAIN written' : n \in DOMAIN written \/ n = Len(written) + 1
            BY <3>2
        <3>4. \A n \in DOMAIN written : written[n].kind = "response" => written[n].id # 0
            BY <1>1, <1>2 DEF Works, TypeOK
        <3> HIDE DEF m
        <3>5. \A i, j \in DOMAIN written' :
                  written'[i].kind = "response" /\ written'[j].id = written'[i].id => i = j
            BY <1>2, <3>1, <3>2, <3>3, <3>4 DEF Works
        <3>6. \A n \in DOMAIN written' :
                  IF written'[n].kind = "response"
                  THEN /\ written'[n].id \in DOMAIN sent \ working'
                       /\ ReadOf(forwarded, consumed, written'[n].id) /\ sent[written'[n].id] = "allowed"
                  ELSE written'[n].id = 0
            BY <1>2, <2>4, <3>1, <3>2, <3>3 DEF Works
        <3> QED BY <1>2, <2>4, <3>5, <3>6 DEF Works
    <2>5. CASE Environment
        BY <1>1, <2>1, <2>2, <2>3, <2>4, <2>5, ChildEffect
    <2> QED BY <1>1, <2>1, <2>5, UpEffect, DownEffect, StartEffect DEF Next, vars, childVars
<1>4. Works(forwarded', consumed', working', written', sent')
    <2>1. consumed' \in Nat /\ consumed' <= Len(forwarded)
        <3>1. CASE Environment
            <4>1. consumed' = consumed \/ (consumed < Len(forwarded) /\ consumed' = consumed + 1)
                BY <1>1, <3>1, ChildEffect
            <4> QED BY <1>1, <4>1
        <3>2. CASE consumed' = consumed
            BY <1>1, <3>2
        <3> QED BY <1>1, <3>1, <3>2, UpEffect, DownEffect, StartEffect DEF Next, vars, childVars
    <2>2. \A id : ReadOf(forwarded, consumed', id) => ReadOf(forwarded', consumed', id)
        BY <1>1, <2>1, ForwardedStays DEF ReadOf
    <2>3. DOMAIN sent \subseteq DOMAIN sent' /\ \A id \in DOMAIN sent : sent'[id] = sent[id]
        <3>1. DOMAIN sent = 1..Len(sent) /\ (sent' \in Seq(Kind) => DOMAIN sent' = 1..Len(sent'))
            BY <1>1 DEF TypeOK
        <3> QED BY <3>1, MessagesStay
    <2>4. \A id \in working' : id \in DOMAIN sent
        <3>1. \A id \in working' : ReadOf(forwarded, consumed', id)
            BY <1>3 DEF Works
        <3>2. DOMAIN sent = 1..Len(sent)
            BY <1>1 DEF TypeOK
        <3> QED BY <1>1, <2>1, <3>1, <3>2, ForwardedOnce DEF ReadOf
    <2> QED BY <1>3, <2>2, <2>3, <2>4 DEF Works
<1> QED BY <1>4 DEF ChildInv, Works, HasRead, ReadOf

-------------------------------------------------------------------------------
\* Origin of a delivery d, when the first g of the outputs o are delivered and
\* the first k of the messages s are dealt with.
From(g, k, o, s, d) ==
    CASE d.kind = "result" -> \E n \in 1..g : o[n].kind = "response" /\ o[n].id = d.id
      [] d.kind = "blocked" -> d.id \in 1..k /\ s[d.id] = "blocked"
      [] d.kind = "internal" -> d.id \in 1..k /\ s[d.id] = "failing"
      [] OTHER -> d.id = 0

\* The loops go forward.
LEMMA Progress ==
    ASSUME TypeInv, [Next]_vars
    PROVE  /\ Dealt \in Nat /\ Dealt' \in Nat /\ Dealt <= Dealt' /\ Dealt <= Len(sent)
           /\ Given \in Nat /\ Given' \in Nat /\ Given <= Given' /\ Given <= Len(written)
<1>1. /\ TypeOK /\ Holding /\ up \in Loop /\ down \in Loop /\ up.n \in Nat /\ down.n \in Nat
      /\ up.n <= Len(sent) /\ down.n <= Len(written)
    BY DEF TypeInv, TypeOK, Loop
<1>2. Len(sent) \in Nat /\ Len(written) \in Nat
    BY MessagesStay
<1>3. Dealt \in Nat /\ Dealt <= Len(sent) /\ Given \in Nat /\ Given <= Len(written)
    BY <1>1, <1>2 DEF Dealt, Given, Holding
<1>4. Dealt' \in Nat /\ Dealt <= Dealt'
    <2>1. CASE up' = up
        BY <1>3, <2>1 DEF Dealt
    <2>2. CASE Up
        <3>1. \/ up.pc \in {"top", "read"} /\ (UpIs("read", up.n) \/ UpIs("done", up.n))
              \/ up.pc = "read" /\ (UpIs("top", up.n + 1) \/ UpIs("audit", up.n + 1))
              \/ up.pc = "audit" /\ UpIs("deliver", up.n)
              \/ up.pc = "deliver" /\ (UpIs("top", up.n) \/ UpIs("done", up.n))
            BY <1>1, <2>2, UpEffect
        <3> QED BY <1>1, <3>1 DEF Dealt, UpIs, Holding
    <2> QED BY <1>1, <2>1, <2>2, DownEffect, StartEffect, ChildEffect DEF Next, vars
<1>5. Given' \in Nat /\ Given <= Given'
    <2>1. CASE down' = down
        BY <1>3, <2>1 DEF Given
    <2>2. CASE Down
        <3>1. \/ down.pc \in {"top", "read"} /\ (DownIs("read", down.n) \/ DownIs("done", down.n))
              \/ down.pc = "read" /\ (DownIs("done", down.n + 1) \/ DownIs("audit", down.n + 1))
              \/ down.pc = "audit" /\ DownIs("deliver", down.n)
              \/ down.pc = "deliver" /\ DownIs("top", down.n)
            BY <1>1, <2>2, DownEffect
        <3> QED BY <1>1, <3>1 DEF Given, DownIs, Holding
    <2> QED BY <1>1, <2>1, <2>2, UpEffect, StartEffect, ChildEffect DEF Next, vars
<1> QED BY <1>3, <1>4, <1>5

\* What is new in received: an answer of the loop to the subprocess, or the
\* message that the loop to the client holds.
LEMMA Deliveries ==
    ASSUME TypeInv, [Next]_vars
    PROVE  \/ received' = received
           \/ \E d \in Delivery :
                /\ received' = Append(received, d)
                /\ \/ d.kind = "parse" /\ d.id = 0
                   \/ /\ d.id = up.n /\ up.n = Dealt + 1 /\ up.n = Dealt' /\ up.n \in 1..Len(sent)
                      /\ \/ d.kind = "blocked" /\ sent[up.n] = "blocked"
                         \/ d.kind = "internal" /\ sent[up.n] = "failing"
                   \/ /\ d = Relay(written[down.n]) /\ down.n = Given + 1 /\ down.n = Given'
                      /\ down.n \in 1..Len(written)
<1>1. /\ TypeOK /\ Holding /\ up \in Loop /\ down \in Loop /\ up.n \in Nat /\ down.n \in Nat
      /\ up.n <= Len(sent) /\ down.n <= Len(written) /\ written \in Seq(Output)
    BY DEF TypeInv, TypeOK, Loop
<1>2. Len(sent) \in Nat /\ Len(written) \in Nat
    BY MessagesStay
<1>3. \A kind \in {"parse", "blocked", "internal"}, id \in {0, up.n} :
          LET d == [kind |-> kind, id |-> id, masked |-> FALSE]
          IN  d \in Delivery /\ d.kind = kind /\ d.id = id
    BY <1>1 DEF Delivery
<1>4. CASE Up
    <2>1. \/ received' = received
          \/ Give("parse", 0, FALSE)
          \/ /\ up.pc = "deliver" /\ UpIs("top", up.n)
             /\ \/ sent[up.n] = "blocked" /\ Give("blocked", up.n, FALSE)
                \/ sent[up.n] = "failing" /\ Give("internal", up.n, FALSE)
        BY <1>1, <1>4, UpEffect
    <2>2. CASE Give("parse", 0, FALSE)
        BY <1>3, <2>2 DEF Give
    <2>3. CASE /\ up.pc = "deliver" /\ UpIs("top", up.n)
               /\ \/ sent[up.n] = "blocked" /\ Give("blocked", up.n, FALSE)
                  \/ sent[up.n] = "failing" /\ Give("internal", up.n, FALSE)
        <3>1. up.n = Dealt + 1 /\ up.n = Dealt' /\ up.n \in 1..Len(sent)
            BY <1>1, <1>2, <2>3 DEF Dealt, UpIs, Holding
        <3> QED BY <1>3, <2>3, <3>1 DEF Give
    <2> QED BY <2>1, <2>2, <2>3
<1>5. CASE Down
    <2>1. \/ received' = received
          \/ /\ down.pc = "deliver" /\ DownIs("top", down.n)
             /\ received' = Append(received, Relay(written[down.n]))
        BY <1>1, <1>5, DownEffect
    <2>2. CASE /\ down.pc = "deliver" /\ DownIs("top", down.n)
               /\ received' = Append(received, Relay(written[down.n]))
        <3>1. down.n = Given + 1 /\ down.n = Given' /\ down.n \in 1..Len(written)
            BY <1>1, <1>2, <2>2 DEF Given, DownIs, Holding
        <3>2. written[down.n] \in Output
            BY <1>1, <3>1
        <3>3. Relay(written[down.n]) \in Delivery
            BY <3>2 DEF Relay, Output, Delivery
        <3> QED BY <2>2, <3>1, <3>3
    <2> QED BY <2>1, <2>2
<1> QED BY <1>1, <1>4, <1>5, StartEffect, ChildEffect DEF Next, vars

LEMMA AnswersInit == Init => AnswersInv
BY DEF Init, AnswersInv

LEMMA AnswersNext == TypeInv /\ ChildInv /\ AnswersInv /\ [Next]_vars => AnswersInv'
<1> SUFFICES ASSUME TypeInv, ChildInv, AnswersInv, [Next]_vars PROVE AnswersInv'
    OBVIOUS
<1> DEFINE Old(d) == From(Given, Dealt, written, sent, d)
           New(d) == From(Given', Dealt', written', sent', d)
<1>1. received \in Seq(Delivery) /\ sent \in Seq(Kind) /\ written \in Seq(Output)
    BY DEF TypeInv, TypeOK
<1>2. \A i \in DOMAIN received : Old(received[i])
    BY DEF AnswersInv, Origin, From
<1>3. \A d : Old(d) => New(d)
    <2>1. /\ 1..Given \subseteq 1..Given' /\ 1..Dealt \subseteq 1..Dealt'
          /\ 1..Given \subseteq 1..Len(written) /\ 1..Dealt \subseteq 1..Len(sent)
        BY Progress, MessagesStay
    <2>2. /\ \A n \in 1..Given : written'[n] = written[n]
          /\ \A n \in 1..Dealt : sent'[n] = sent[n]
        BY <2>1, MessagesStay
    <2>3. ASSUME NEW d, Old(d) PROVE New(d)
        <3>1. CASE d.kind = "result"
            <4>1. PICK n \in 1..Given : written[n].kind = "response" /\ written[n].id = d.id
                BY <2>3, <3>1 DEF From
            <4>2. n \in 1..Given' /\ written'[n] = written[n]
                BY <2>1, <2>2
            <4> QED BY <3>1, <4>1, <4>2 DEF From
        <3>2. CASE d.kind = "blocked"
            <4>1. d.id \in 1..Dealt /\ sent[d.id] = "blocked"
                BY <2>3, <3>2 DEF From
            <4> QED BY <2>1, <2>2, <3>2, <4>1 DEF From
        <3>3. CASE d.kind = "internal"
            <4>1. d.id \in 1..Dealt /\ sent[d.id] = "failing"
                BY <2>3, <3>3 DEF From
            <4> QED BY <2>1, <2>2, <3>3, <4>1 DEF From
        <3>4. CASE d.kind \notin {"result", "blocked", "internal"}
            BY <2>3, <3>4 DEF From
        <3> QED BY <3>1, <3>2, <3>3, <3>4
    <2> QED BY <2>3
<1>4. CASE received' = received
    BY <1>2, <1>3, <1>4 DEF AnswersInv, Origin, From
<1>5. ASSUME NEW d \in Delivery, received' = Append(received, d), New(d),
             \A i \in DOMAIN received : d.id > 0 => received[i].id # d.id
      PROVE  AnswersInv'
    <2> HIDE DEF Old, New
    <2>1. /\ Len(received) \in Nat /\ DOMAIN received = 1..Len(received)
          /\ DOMAIN received' = 1..Len(received) + 1 /\ received'[Len(received) + 1] = d
          /\ \A i \in 1..Len(received) : received'[i] = received[i]
        BY <1>1, <1>5, Grows
    <2>2. \A i \in DOMAIN received' : i \in DOMAIN received \/ i = Len(received) + 1
        BY <2>1
    <2>3. \A i \in DOMAIN received' : New(received'[i])
        BY <1>2, <1>3, <1>5, <2>1, <2>2
    <2>4. \A i, j \in DOMAIN received :
              received[i].id > 0 /\ received[j].id = received[i].id => j = i
        BY DEF AnswersInv
    <2>5. \A i, j \in DOMAIN received' :
              received'[i].id > 0 /\ received'[j].id = received'[i].id => j = i
        BY <1>5, <2>1, <2>2, <2>4
    <2> QED BY <2>3, <2>5 DEF AnswersInv, Origin, From, New
<1>6. \A i \in DOMAIN received : received[i].kind = "result" =>
          \E n \in 1..Given : /\ n \in DOMAIN written /\ written[n].kind = "response"
                              /\ written[n].id = received[i].id
                              /\ sent[received[i].id] = "allowed"
    <2>1. 1..Given \subseteq DOMAIN written
        BY <1>1, Progress
    <2> QED BY <1>2, <2>1 DEF From, ChildInv
<1>7. ASSUME NEW d \in Delivery, received' = Append(received, d), d.kind = "parse", d.id = 0
      PROVE  AnswersInv'
    BY <1>5, <1>7 DEF From
<1>8. ASSUME NEW d \in Delivery, received' = Append(received, d),
             d.id = up.n, up.n = Dealt + 1, up.n = Dealt', up.n \in 1..Len(sent),
             \/ d.kind = "blocked" /\ sent[up.n] = "blocked"
             \/ d.kind = "internal" /\ sent[up.n] = "failing"
      PROVE  AnswersInv'
    <2>1. New(d)
        <3>1. sent'[up.n] = sent[up.n] /\ up.n \in 1..Dealt'
            BY <1>8, MessagesStay
        <3> QED BY <1>8, <3>1 DEF From
    <2>2. \A i \in DOMAIN received : received[i].id # d.id
        <3>1. ASSUME NEW i \in DOMAIN received, received[i].id = d.id PROVE FALSE
            <4>1. CASE received[i].kind = "result"
                BY <1>6, <1>8, <3>1, <4>1
            <4>2. CASE received[i].kind \in {"blocked", "internal"}
                <5>1. received[i].id \in 1..Dealt
                    BY <1>2, <4>2 DEF From
                <5> QED BY <1>8, <3>1, <5>1, Progress
            <4>3. CASE received[i].kind \notin {"result", "blocked", "internal"}
                <5>1. received[i].id = 0
                    BY <1>2, <4>3 DEF From
                <5> QED BY <1>8, <3>1, <5>1
            <4> QED BY <4>1, <4>2, <4>3
        <3> QED BY <3>1
    <2> QED BY <1>5, <1>8, <2>1, <2>2
<1>9. ASSUME NEW d \in Delivery, received' = Append(received, d), d = Relay(written[down.n]),
             down.n = Given + 1, down.n = Given', down.n \in 1..Len(written)
      PROVE  AnswersInv'
    <2> DEFINE m == written[down.n]
    <2>1. CASE m.kind # "response"
        <3>1. d.kind = "notification" /\ d.id = 0
            BY <1>9, <2>1 DEF Relay
        <3> QED BY <1>5, <1>9, <3>1 DEF From
    <2>2. CASE m.kind = "response"
        <3>1. d.kind = "result" /\ d.id = m.id
            BY <1>9, <2>2 DEF Relay
        <3>2. New(d)
            <4>1. written'[down.n] = m /\ down.n \in 1..Given'
                BY <1>9, MessagesStay
            <4> QED BY <2>2, <3>1, <4>1 DEF From
        <3>3. /\ down.n \in DOMAIN written /\ m.id \in DOMAIN sent /\ sent[m.id] = "allowed"
              /\ \A n \in DOMAIN written : written[n].id = m.id => n = down.n
            BY <1>1, <1>9, <2>2 DEF ChildInv
        <3>4. \A i \in DOMAIN received : received[i].id # d.id
            <4>1. ASSUME NEW i \in DOMAIN received, received[i].id = d.id PROVE FALSE
                <5>1. CASE received[i].kind = "result"
                    <6>1. \E n \in 1..Given : n = down.n
                        BY <1>6, <3>1, <3>3, <4>1, <5>1
                    <6> QED BY <1>9, <6>1, Progress
                <5>2. CASE received[i].kind \in {"blocked", "internal"}
                    <6>1. sent[received[i].id] \in {"blocked", "failing"}
                        BY <1>2, <5>2 DEF From
                    <6> QED BY <3>1, <3>3, <4>1, <6>1
                <5>3. CASE received[i].kind \notin {"result", "blocked", "internal"}
                    <6>1. received[i].id = 0
                        BY <1>2, <5>3 DEF From
                    <6>2. m.id \in 1..Len(sent)
                        BY <1>1, <3>3
                    <6> QED BY <3>1, <4>1, <6>1, <6>2
                <5> QED BY <5>1, <5>2, <5>3
            <4> QED BY <4>1
        <3> QED BY <1>5, <1>9, <3>2, <3>4
    <2> QED BY <2>1, <2>2
<1> HIDE DEF Old, New
<1> QED BY <1>4, <1>7, <1>8, <1>9, Deliveries

\* The client gets one answer to a request at most.  The inductive invariant
\* follows an answer back: a result to what the subprocess wrote and from there to
\* a message it was forwarded, an error to a message the loop is past.
THEOREM AnsweredOnce == Spec => []OneAnswerPerRequest
<1>1. TypeInv /\ ChildInv /\ AnswersInv => OneAnswerPerRequest
    <2> SUFFICES ASSUME TypeInv, ChildInv, AnswersInv, NEW i \in DOMAIN received, received[i].id > 0
                 PROVE  /\ CASE received[i].kind = "result" -> sent[received[i].id] = "allowed"
                             [] received[i].kind = "blocked" -> sent[received[i].id] = "blocked"
                             [] OTHER -> sent[received[i].id] = "failing"
                        /\ \A j \in DOMAIN received : received[j].id = received[i].id => j = i
        BY DEF OneAnswerPerRequest
    <2>1. Origin(received[i]) /\ \A j \in DOMAIN received : received[j].id = received[i].id => j = i
        BY DEF AnswersInv
    <2>2. 1..Given \subseteq DOMAIN written
        <3>1. Given <= Len(written) /\ Given \in Nat
            BY DEF TypeInv, TypeOK, Loop, Holding, Given
        <3>2. written \in Seq(Output)
            BY DEF TypeInv, TypeOK
        <3> QED BY <3>1, <3>2
    <2>3. received[i].kind = "result" => sent[received[i].id] = "allowed"
        BY <2>1, <2>2 DEF Origin, ChildInv
    <2> QED BY <2>1, <2>3 DEF Origin
<1> QED BY TypeInit, TypeNext, ForwardsInit, ForwardsNext, ChildInit, ChildNext,
           AnswersInit, AnswersNext, <1>1, PTL DEF Spec

-------------------------------------------------------------------------------
\* The positions of r that hold a message of the subprocess, and the place of
\* position i among them.
RelayedOf(r) == {i \in DOMAIN r : r[i].kind \in {"result", "notification"}}

PlaceIn(r, i) == Cardinality({j \in RelayedOf(r) : j <= i})

\* DeliversInOrder of a loop l when o is written and r received.
Counts(l, c) ==
    IF l.pc \in {"top", "read"} THEN c = l.n ELSE c = l.n - 1 \/ (l.pc = "done" /\ c = l.n)

InOrder(l, o, r) ==
    /\ \A i \in RelayedOf(r) : PlaceIn(r, i) \in DOMAIN o /\ r[i] = Relay(o[PlaceIn(r, i)])
    /\ Counts(l, Cardinality(RelayedOf(r)))

LEMMA InOrderDef == DeliversInOrder = InOrder(down, written, received)
BY DEF DeliversInOrder, InOrder, Counts, Relayed, RelayedOf, Place, PlaceIn

\* There are finitely many messages, so that one more counts as one more.
LEMMA RelayedFinite ==
    ASSUME NEW r \in Seq(Delivery)
    PROVE  IsFiniteSet(RelayedOf(r)) /\ Cardinality(RelayedOf(r)) \in Nat
<1>1. RelayedOf(r) \subseteq 1..Len(r) /\ Len(r) \in Nat
    BY DEF RelayedOf
<1>2. IsFiniteSet(1..Len(r))
    BY <1>1, FS_Interval
<1>3. IsFiniteSet(RelayedOf(r))
    BY <1>1, <1>2, FS_Subset
<1> QED BY <1>3, FS_CardinalityType

\* What comes later changes no place.
LEMMA PlacesStay ==
    ASSUME NEW r \in Seq(Delivery), NEW d \in Delivery, NEW i \in 1..Len(r)
    PROVE  PlaceIn(Append(r, d), i) = PlaceIn(r, i)
<1> DEFINE q == Append(r, d)
<1>1. /\ Len(r) \in Nat /\ DOMAIN r = 1..Len(r) /\ DOMAIN q = 1..Len(r) + 1
      /\ \A j \in 1..Len(r) : q[j] = r[j]
    BY Grows
<1> HIDE DEF q
<1>2. {j \in RelayedOf(q) : j <= i} = {j \in RelayedOf(r) : j <= i}
    BY <1>1 DEF RelayedOf
<1> QED BY <1>2 DEF PlaceIn, q

LEMMA RelayedMore ==
    ASSUME NEW r \in Seq(Delivery), NEW d \in Delivery
    PROVE  RelayedOf(Append(r, d)) =
               RelayedOf(r) \cup {j \in {Len(r) + 1} : d.kind \in {"result", "notification"}}
<1> DEFINE q == Append(r, d)
<1>1. /\ Len(r) \in Nat /\ DOMAIN r = 1..Len(r) /\ DOMAIN q = 1..Len(r) + 1
      /\ q[Len(r) + 1] = d /\ \A j \in 1..Len(r) : q[j] = r[j]
    BY Grows
<1>2. DOMAIN q = DOMAIN r \cup {Len(r) + 1}
    BY <1>1
<1> HIDE DEF q
<1>3. RelayedOf(q) = RelayedOf(r) \cup {j \in {Len(r) + 1} : d.kind \in {"result", "notification"}}
    BY <1>1, <1>2 DEF RelayedOf
<1> QED BY <1>3 DEF q

\* An answer of the gateway itself relays nothing.
LEMMA RelayedSame ==
    ASSUME NEW r \in Seq(Delivery), NEW d \in Delivery, d.kind \notin {"result", "notification"}
    PROVE  RelayedOf(Append(r, d)) = RelayedOf(r)
BY RelayedMore

\* The gateway's own answers go between the messages of the subprocess.
LEMMA InOrderOther ==
    ASSUME NEW l, NEW o, NEW r \in Seq(Delivery), NEW d \in Delivery,
           d.kind \notin {"result", "notification"}, InOrder(l, o, r)
    PROVE  InOrder(l, o, Append(r, d))
<1> DEFINE q == Append(r, d)
<1>1. RelayedOf(q) = RelayedOf(r)
    BY RelayedSame
<1>2. \A i \in RelayedOf(r) : i \in 1..Len(r)
    BY DEF RelayedOf
<1>3. \A i \in RelayedOf(r) : PlaceIn(q, i) = PlaceIn(r, i) /\ q[i] = r[i]
    BY <1>2, PlacesStay, Grows
<1> HIDE DEF q
<1>4. InOrder(l, o, q)
    BY <1>1, <1>3 DEF InOrder
<1> QED BY <1>4 DEF q

\* The next message of the subprocess has the next place.
LEMMA InOrderNext ==
    ASSUME NEW o, NEW r \in Seq(Delivery), NEW n \in DOMAIN o, n \in Nat, Relay(o[n]) \in Delivery,
           \A i \in RelayedOf(r) : PlaceIn(r, i) \in DOMAIN o /\ r[i] = Relay(o[PlaceIn(r, i)]),
           Cardinality(RelayedOf(r)) = n - 1
    PROVE  LET q == Append(r, Relay(o[n])) IN
           /\ \A i \in RelayedOf(q) : PlaceIn(q, i) \in DOMAIN o /\ q[i] = Relay(o[PlaceIn(q, i)])
           /\ Cardinality(RelayedOf(q)) = n
<1> DEFINE d == Relay(o[n])
           q == Append(r, d)
           k == Len(r) + 1
<1>1. d.kind \in {"result", "notification"} /\ d \in Delivery
    BY DEF Relay
<1>2. RelayedOf(q) = RelayedOf(r) \cup {k}
    BY <1>1, RelayedMore
<1>3. /\ \A i \in RelayedOf(r) : i \in 1..Len(r) /\ i <= k
      /\ k \notin RelayedOf(r) /\ k <= k
    BY DEF RelayedOf
<1>4. q[k] = d /\ \A i \in RelayedOf(r) : PlaceIn(q, i) = PlaceIn(r, i) /\ q[i] = r[i]
    BY <1>1, <1>3, PlacesStay, Grows
<1> HIDE DEF k, q
<1>5. Cardinality(RelayedOf(q)) = n
    <2>1. Cardinality(RelayedOf(r) \cup {k}) = Cardinality(RelayedOf(r)) + 1
        BY <1>3, RelayedFinite, FS_AddElement
    <2> QED BY <1>2, <2>1
<1>6. PlaceIn(q, k) = n
    <2>1. {j \in RelayedOf(q) : j <= k} = RelayedOf(q)
        BY <1>2, <1>3
    <2> QED BY <1>5, <2>1 DEF PlaceIn
<1>7. \A i \in RelayedOf(q) : PlaceIn(q, i) \in DOMAIN o /\ q[i] = Relay(o[PlaceIn(q, i)])
    BY <1>2, <1>4, <1>6 DEF d
<1> QED BY <1>5, <1>7 DEF q, d

LEMMA InOrderInit == Init => DeliversInOrder
<1> SUFFICES ASSUME Init PROVE DeliversInOrder
    OBVIOUS
<1>1. received = <<>> /\ down.pc = "top" /\ down.n = 0
    BY DEF Init
<1>2. RelayedOf(<<>>) = {} /\ Cardinality({}) = 0
    BY FS_EmptySet DEF RelayedOf
<1> QED BY <1>1, <1>2, InOrderDef DEF InOrder, Counts

LEMMA InOrderStep == TypeInv /\ DeliversInOrder /\ [Next]_vars => DeliversInOrder'
<1> SUFFICES ASSUME TypeInv, DeliversInOrder, [Next]_vars PROVE DeliversInOrder'
    OBVIOUS
<1>1. /\ TypeOK /\ Holding /\ up \in Loop /\ down \in Loop /\ up.n \in Nat /\ down.n \in Nat
      /\ down.n <= Len(written) /\ written \in Seq(Output) /\ received \in Seq(Delivery)
      /\ down.pc \in {"top", "read", "audit", "deliver", "done"}
    BY DEF TypeInv, TypeOK, Loop
<1>2. InOrder(down, written, received)
    BY InOrderDef
<1>3. InOrder(down', written, received')
    <2>1. CASE down' = down /\ received' = received
        BY <1>2, <2>1
    <2>2. CASE Up
        <3>1. down' = down /\ (received' = received \/ \E kind \in {"parse", "blocked", "internal"},
                                 id \in {0, up.n} : Give(kind, id, FALSE))
            BY <1>1, <2>2, UpEffect
        <3>2. ASSUME NEW kind \in {"parse", "blocked", "internal"}, NEW id \in {0, up.n},
                     Give(kind, id, FALSE)
              PROVE  InOrder(down, written, received')
            <4> DEFINE d == [kind |-> kind, id |-> id, masked |-> FALSE]
            <4>1. d \in Delivery /\ d.kind \notin {"result", "notification"}
                BY <1>1 DEF Delivery
            <4>2. received' = Append(received, d)
                BY <3>2 DEF Give
            <4> HIDE DEF d
            <4> QED BY <1>1, <1>2, <4>1, <4>2, InOrderOther
        <3> QED BY <1>2, <3>1, <3>2
    <2>3. CASE Down
        <3>1. CASE received' = received
            <4>1. \/ down.pc \in {"top", "read"} /\ (DownIs("read", down.n) \/ DownIs("done", down.n))
                  \/ down.pc = "read" /\ (DownIs("done", down.n + 1) \/ DownIs("audit", down.n + 1))
                  \/ down.pc = "audit" /\ DownIs("deliver", down.n)
                  \/ received' = Append(received, Relay(written[down.n]))
                BY <1>1, <2>3, DownEffect
            <4>2. received' # Append(received, Relay(written[down.n]))
                BY <1>1, <3>1
            <4>3. Counts(down, Cardinality(RelayedOf(received)))
                BY <1>2 DEF InOrder
            <4>4. Counts(down', Cardinality(RelayedOf(received)))
                BY <1>1, <4>1, <4>2, <4>3 DEF Counts, DownIs
            <4> QED BY <1>2, <3>1, <4>4 DEF InOrder
        <3>2. CASE received' # received
            <4>1. /\ down.pc = "deliver" /\ DownIs("top", down.n)
                  /\ received' = Append(received, Relay(written[down.n]))
                BY <1>1, <2>3, <3>2, DownEffect
            <4>2. down.n \in DOMAIN written /\ Relay(written[down.n]) \in Delivery
                <5>1. down.n \in DOMAIN written /\ written[down.n] \in Output
                    BY <1>1, <4>1 DEF Holding
                <5> QED BY <5>1 DEF Relay, Output, Delivery
            <4>3. Cardinality(RelayedOf(received)) = down.n - 1
                BY <1>2, <4>1 DEF InOrder, Counts
            <4>4. /\ \A i \in RelayedOf(received') : /\ PlaceIn(received', i) \in DOMAIN written
                                                    /\ received'[i] = Relay(written[PlaceIn(received', i)])
                  /\ Cardinality(RelayedOf(received')) = down.n
                <5>1. /\ received \in Seq(Delivery) /\ down.n \in Nat
                      /\ \A i \in RelayedOf(received) :
                            /\ PlaceIn(received, i) \in DOMAIN written
                            /\ received[i] = Relay(written[PlaceIn(received, i)])
                    BY <1>1, <1>2 DEF InOrder
                <5>2. LET q == Append(received, Relay(written[down.n])) IN
                      /\ \A i \in RelayedOf(q) : /\ PlaceIn(q, i) \in DOMAIN written
                                                 /\ q[i] = Relay(written[PlaceIn(q, i)])
                      /\ Cardinality(RelayedOf(q)) = down.n
                    BY ONLY <4>2, <4>3, <5>1, InOrderNext
                <5> QED BY ONLY <4>1, <5>2
            <4> QED BY <4>1, <4>4 DEF InOrder, Counts, DownIs
        <3> QED BY <3>1, <3>2
    <2> QED BY <1>1, <2>1, <2>2, <2>3, StartEffect, ChildEffect DEF Next, vars
<1>4. InOrder(down', written', received')
    <2>1. \A n \in DOMAIN written : n \in DOMAIN written' /\ written'[n] = written[n]
        <3>1. DOMAIN written = 1..Len(written) /\ (written' \in Seq(Output) => DOMAIN written' = 1..Len(written'))
            BY <1>1
        <3> QED BY <3>1, MessagesStay
    <2> QED BY <1>3, <2>1 DEF InOrder
<1> QED BY <1>4 DEF DeliversInOrder, InOrder, Counts, Relayed, RelayedOf, Place, PlaceIn

\* What the subprocess wrote reaches the client in its order, without a gap and
\* with every result masked, whatever the other loop writes in between.
THEOREM DeliveredInOrder == Spec => []DeliversInOrder
BY TypeInit, TypeNext, InOrderInit, InOrderStep, PTL DEF Spec

-------------------------------------------------------------------------------
\* The ledger l accounts for a delivery d of the gateway itself.
Accounts(l, d) == d.kind \in {"blocked", "internal"} => InLedger(l, "client", d.id)

\* A step relays one message more, the one at hand, or none.
LEMMA RelayedCount ==
    ASSUME TypeInv, DeliversInOrder, [Next]_vars
    PROVE  \/ Cardinality(RelayedOf(received')) = Cardinality(RelayedOf(received))
           \/ down.pc = "deliver" /\ Cardinality(RelayedOf(received')) = down.n
<1>1. /\ TypeOK /\ Holding /\ up \in Loop /\ down \in Loop /\ up.n \in Nat /\ down.n \in Nat
      /\ received \in Seq(Delivery) /\ written \in Seq(Output) /\ down.n <= Len(written)
    BY DEF TypeInv, TypeOK, Loop
<1>2. CASE received' = received
    BY <1>2
<1>3. CASE Up /\ received' # received
    <2>1. PICK kind \in {"parse", "blocked", "internal"}, id \in {0, up.n} : Give(kind, id, FALSE)
        BY <1>1, <1>3, UpEffect
    <2> DEFINE d == [kind |-> kind, id |-> id, masked |-> FALSE]
    <2>2. d \in Delivery /\ d.kind \notin {"result", "notification"}
        BY <1>1 DEF Delivery
    <2>3. received' = Append(received, d)
        BY <2>1 DEF Give
    <2> HIDE DEF d
    <2>4. RelayedOf(Append(received, d)) = RelayedOf(received)
        BY ONLY <1>1, <2>2, RelayedSame
    <2> QED BY ONLY <2>3, <2>4
<1>4. CASE Down /\ received' # received
    <2>1. down.pc = "deliver" /\ received' = Append(received, Relay(written[down.n]))
        BY <1>1, <1>4, DownEffect
    <2>2. down.n \in DOMAIN written /\ Relay(written[down.n]) \in Delivery
        <3>1. down.n \in DOMAIN written /\ written[down.n] \in Output
            BY <1>1, <2>1 DEF Holding
        <3> QED BY <3>1 DEF Relay, Output, Delivery
    <2>3. /\ Cardinality(RelayedOf(received)) = down.n - 1
          /\ \A i \in RelayedOf(received) : /\ PlaceIn(received, i) \in DOMAIN written
                                            /\ received[i] = Relay(written[PlaceIn(received, i)])
        BY <2>1, InOrderDef DEF InOrder, Counts
    <2>4. Cardinality(RelayedOf(Append(received, Relay(written[down.n])))) = down.n
        BY ONLY <1>1, <2>2, <2>3, InOrderNext
    <2> QED BY <2>1, <2>4
<1> QED BY <1>1, <1>2, <1>3, <1>4, StartEffect, ChildEffect DEF Next, vars

\* While the ledger is open, what a step passes on is logged.
LEMMA RecordedNext ==
    ASSUME TypeInv, LedgerInv, DeliversInOrder, [Next]_vars, LedgerOpen'
    PROVE  Recorded'
<1>1. TypeOK /\ Holding /\ up \in Loop /\ down \in Loop /\ up.n \in Nat /\ down.n \in Nat
    BY DEF TypeInv, TypeOK, Loop
<1>2. LedgerOpen /\ Recorded /\ PendingLogged
    BY LedgerGrows DEF LedgerInv
<1>3. /\ up.pc = "deliver" => InLedger(logged', "client", up.n)
      /\ down.pc = "deliver" => InLedger(logged', "downstream", down.n)
    BY <1>2, LedgerGrows DEF PendingLogged, LoggedFrom, InLedger
<1>4. \A i \in DOMAIN forwarded' : InLedger(logged', "client", forwarded'[i])
    <2>1. \A i \in DOMAIN forwarded : InLedger(logged', "client", forwarded[i])
        BY <1>2, LedgerGrows DEF Recorded, LoggedFrom, InLedger
    <2>2. CASE forwarded' = forwarded
        BY <2>1, <2>2
    <2>3. CASE Up /\ forwarded' # forwarded
        <3>1. up.pc = "deliver" /\ forwarded' = Append(forwarded, up.n)
            BY <1>1, <2>3, UpEffect
        <3>2. forwarded \in Seq(Nat)
            BY <1>1 DEF TypeOK
        <3>3. \A i \in DOMAIN forwarded' : i \in DOMAIN forwarded \/ forwarded'[i] = up.n
            BY <1>1, <3>1, <3>2
        <3>4. \A i \in DOMAIN forwarded : forwarded'[i] = forwarded[i]
            BY <1>1, <3>1, <3>2
        <3> QED BY <1>3, <2>1, <3>1, <3>3, <3>4
    <2> QED BY <1>1, <2>2, <2>3, DownEffect, StartEffect, ChildEffect DEF Next, vars
<1>5. \A i \in DOMAIN received' : Accounts(logged', received'[i])
    <2>1. \A i \in DOMAIN received : Accounts(logged', received[i])
        BY <1>2, LedgerGrows DEF Recorded, LoggedFrom, InLedger, Accounts
    <2>2. received' = received \/ \E d : received' = Append(received, d) /\ Accounts(logged', d)
        <3>1. CASE Up
            <4>1. \/ received' = received
                  \/ Give("parse", 0, FALSE)
                  \/ up.pc = "deliver" /\ (Give("blocked", up.n, FALSE) \/ Give("internal", up.n, FALSE))
                BY <1>1, <3>1, UpEffect
            <4>2. Accounts(logged', [kind |-> "parse", id |-> 0, masked |-> FALSE])
                BY DEF Accounts
            <4>3. up.pc = "deliver" =>
                    /\ Accounts(logged', [kind |-> "blocked", id |-> up.n, masked |-> FALSE])
                    /\ Accounts(logged', [kind |-> "internal", id |-> up.n, masked |-> FALSE])
                BY <1>3 DEF Accounts
            <4> QED BY <4>1, <4>2, <4>3 DEF Give
        <3>2. CASE Down
            <4>1. received' = received \/ received' = Append(received, Relay(written[down.n]))
                BY <1>1, <3>2, DownEffect
            <4>2. Accounts(logged', Relay(written[down.n]))
                BY DEF Relay, Accounts
            <4> QED BY <4>1, <4>2
        <3> QED BY <1>1, <3>1, <3>2, StartEffect, ChildEffect DEF Next, vars
    <2>3. received \in Seq(Delivery)
        BY <1>1 DEF TypeOK
    <2>4. \A d : LET r == Append(received, d) IN
              \A i \in DOMAIN r : r[i] = d \/ (i \in DOMAIN received /\ r[i] = received[i])
        BY <2>3
    <2> QED BY <2>1, <2>2, <2>4
<1>6. \A n \in 1..Cardinality(RelayedOf(received')) : InLedger(logged', "downstream", n)
    <2>1. \A n \in 1..Cardinality(RelayedOf(received)) : InLedger(logged', "downstream", n)
        BY <1>2, LedgerGrows DEF Recorded, LoggedFrom, InLedger, Relayed, RelayedOf
    <2>2. \/ Cardinality(RelayedOf(received')) = Cardinality(RelayedOf(received))
          \/ down.pc = "deliver" /\ Cardinality(RelayedOf(received')) = down.n
        BY RelayedCount
    <2>3. down.pc = "deliver" => Cardinality(RelayedOf(received)) = down.n - 1
        BY InOrderDef DEF InOrder, Counts
    <2> HIDE DEF RelayedOf
    <2> QED BY <1>1, <1>3, <2>1, <2>2, <2>3
<1> QED BY <1>4, <1>5, <1>6 DEF Recorded, LoggedFrom, Accounts, InLedger, Relayed, RelayedOf

\* Nothing passes the gateway before it is in the ledger, until Start closes it.
\* The inductive invariant adds the message that a loop is about to pass on.
THEOREM NothingUnlogged == Spec => []NothingPassesUnlogged
<1>1. Init => LedgerInv
    <2> SUFFICES ASSUME Init PROVE LedgerInv
        OBVIOUS
    <2>1. Relayed = {} /\ Cardinality({}) = 0
        BY FS_EmptySet DEF Init, Relayed
    <2> QED BY <2>1 DEF Init, LedgerInv, Recorded, PendingLogged
<1>2. TypeInv /\ LedgerInv /\ DeliversInOrder /\ [Next]_vars => LedgerInv'
    BY PendingNext, RecordedNext DEF LedgerInv
<1>3. LedgerInv => NothingPassesUnlogged
    BY DEF LedgerInv, NothingPassesUnlogged
<1> QED BY TypeInit, TypeNext, InOrderInit, InOrderStep, <1>1, <1>2, <1>3, PTL DEF Spec

===============================================================================
