-------------------------- MODULE FramingReader_proofs --------------------------
(***************************************************************************)
(* Theorems about FramingReader and their proofs.                          *)
(***************************************************************************)
EXTENDS FramingReader, TLAPS

Line == [length: Nat, blank: BOOLEAN]

Outcome == [kind: {"none", "line", "too large", "eof"}, line: Nat, from: Nat, length: Nat]

\* A line that was returned, or that waits in the channel.
Got(i) ==
    \/ sent.kind = "line" /\ sent.line = i
    \/ \E j \in DOMAIN results : results[j].kind = "line" /\ results[j].line = i

\* Whether outcome r, if it is a line, ends a line of the input that lies before
\* line n, and is all of it when the line is within the limit.
EndsLine(r, n) ==
    r.kind = "line" =>
        /\ r.line \in DOMAIN input /\ r.line < n
        /\ r.from + r.length = input[r.line].length
        /\ input[r.line].length <= MaxSize => r.from = 0

\* The lines are ordered.
Ordered(s) ==
    \A i \in DOMAIN s, j \in DOMAIN s :
        j < i /\ s[i].kind = "line" /\ s[j].kind = "line" => s[j].line < s[i].line

\* Where the goroutine is: it gathers the line that the bufio.Reader is at, and
\* a position inside of a line is one where a read was given up as too large.
Place ==
    /\ line \in 1 .. Len(input) + 1
    /\ offset \in Nat
    /\ \E k \in Nat : offset = k * Buffer
    /\ line <= Len(input) => offset <= input[line].length
    /\ line = Len(input) + 1 => offset = 0
    /\ reader = "reading" => /\ full.line = line /\ full.from + full.length = offset
                             /\ full.from = 0 \/ full.from > MaxSize
                             /\ full.length <= MaxSize
    /\ reader # "reading" => offset = 0 \/ offset > MaxSize \/ sent.kind = "eof" \/ caller = "ended"

Types ==
    /\ input \in Seq(Line) /\ terminated \in BOOLEAN
    /\ \A i \in DOMAIN input : input[i].length = 0 => input[i].blank
    /\ cancelled \in BOOLEAN /\ caller \in {"idle", "select", "ended"}
    /\ reader \in {"none", "reading", "sent"} /\ full \in Position
    /\ sent \in Outcome /\ results \in Seq(Outcome)
    /\ (caller = "select" => reader # "none") /\ (caller = "idle" => reader = "none")
    /\ (sent = Nothing) = (reader # "sent")
    /\ sent.kind = "none" => sent = Nothing

\* What was returned, and what is in the channel after it.
Returned ==
    /\ \A i \in DOMAIN results : EndsLine(results[i], line)
    /\ EndsLine(sent, line)
    /\ Ordered(results)
    /\ sent.kind = "line" =>
          \A i \in DOMAIN results : results[i].kind = "line" => results[i].line < sent.line

\* Every line that was read whole is somewhere, and the end of the input comes
\* when all were read.
Complete ==
    /\ \A i \in DOMAIN input : i < line /\ Readable(i) => Got(i)
    /\ sent.kind = "eof" => AtEnd
    /\ (\E n \in DOMAIN results : results[n].kind = "eof") =>
           AtEnd /\ caller = "ended" /\ reader = "none"

\* The inductive invariant.
FramingInv == Types /\ Place /\ Returned /\ Complete

-------------------------------------------------------------------------------

\* What FramingAssumption says of the numbers.
LEMMA Sizes == Buffer \in Nat \ {0} /\ MaxSize \in Nat \ {0} /\ Length \subseteq Nat /\ MaxLines \in Nat
  BY FramingAssumption

LEMMA Multiples ==
  ASSUME NEW b \in Nat \ {0}, NEW k \in Nat
  PROVE  (k * b) % b = 0 /\ (k + 1) * b = k * b + b /\ 0 * b = 0
  BY SMT

LEMMA NothingFits == Nothing \in Outcome /\ Nothing.kind = "none"
  BY DEF Nothing, Outcome

LEMMA InitInv == Init => FramingInv
<1> SUFFICES ASSUME Init PROVE FramingInv
  OBVIOUS
<1>1. input \in Seq(Line)
  <2>1. PICK n \in 0 .. MaxLines : input \in [1 .. n -> [length: Length, blank: BOOLEAN]]
    BY DEF Init
  <2>2. n \in Nat /\ \A x \in [length: Length, blank: BOOLEAN] : x \in Line
    <3>1. ASSUME NEW x \in [length: Length, blank: BOOLEAN] PROVE x \in Line
      <4>1. x.length \in Nat /\ x.blank \in BOOLEAN /\ x = [length |-> x.length, blank |-> x.blank]
        BY Sizes
      <4> QED BY <4>1 DEF Line
    <3> QED BY <3>1, Sizes
  <2>3. input \in [1 .. n -> Line]
    BY <2>1, <2>2
  <2> QED BY <2>2, <2>3
<1>2. Types
  <2>1. [line |-> 1, from |-> 0, length |-> 0] \in Position /\ <<>> \in Seq(Outcome)
    BY DEF Position
  <2>2. \A i \in DOMAIN input : input[i].length = 0 => input[i].blank
    BY DEF Init
  <2>3. terminated \in BOOLEAN /\ cancelled = FALSE /\ caller = "idle" /\ reader = "none"
    BY DEF Init
  <2>4. full \in Position /\ results \in Seq(Outcome) /\ sent = Nothing
    BY <2>1 DEF Init
  <2> QED BY <1>1, <2>2, <2>3, <2>4, NothingFits DEF Types
<1>3. Place
  <2>1. 0 = 0 * Buffer
    BY Sizes, Multiples
  <2>2. \A i \in DOMAIN input : input[i].length \in Nat
    <3>1. \A i \in DOMAIN input : input[i] \in Line
      BY <1>1
    <3> QED BY <3>1 DEF Line
  <2>3. line \in 1 .. Len(input) + 1 /\ (line <= Len(input) => offset <= input[line].length)
    BY <1>1, <2>2 DEF Init
  <2> QED BY <2>1, <2>3 DEF Init, Place
<1>4. Returned
  BY NothingFits DEF Init, Returned, EndsLine, Ordered
<1>5. Complete
  <2>1. \A i \in DOMAIN input : ~(i < line)
    BY <1>1 DEF Init
  <2> QED BY <2>1, NothingFits DEF Init, Complete
<1> QED BY <1>2, <1>3, <1>4, <1>5 DEF FramingInv

\* What holds of the line that is being read.
LEMMA Gathering ==
  ASSUME FramingInv, reader = "reading", ~AtEnd
  PROVE  /\ line \in Nat /\ line \in DOMAIN input /\ line <= Len(input)
         /\ offset \in Nat /\ input[line].length \in Nat /\ offset <= input[line].length
         /\ full.line = line /\ full.from \in Nat /\ full.length \in Nat
         /\ full.from + full.length = offset
         /\ full.from = 0 \/ full.from > MaxSize
         /\ sent = Nothing
         /\ \A n \in DOMAIN results : results[n].kind # "eof"
<1>1. Types /\ Place /\ Complete
  BY DEF FramingInv
<1>2. line \in Nat /\ line <= Len(input) /\ line \in DOMAIN input
  BY <1>1 DEF Types, Place, AtEnd
<1>3. input[line] \in Line
  BY <1>1, <1>2 DEF Types
<1>4. input[line].length \in Nat
  BY <1>3 DEF Line
<1>5. full.from \in Nat /\ full.length \in Nat
  BY <1>1 DEF Types, Position
<1>6. sent = Nothing /\ \A n \in DOMAIN results : results[n].kind # "eof"
  BY <1>1 DEF Types, Complete
<1> QED BY <1>1, <1>2, <1>4, <1>5, <1>6 DEF Place

\* A goroutine begins at the place where the bufio.Reader is.
LEMMA StartPlace ==
  ASSUME FramingInv, UNCHANGED <<inputVars, line, offset>>, Start,
         reader # "reading", sent.kind # "eof", caller # "ended"
  PROVE  Place' /\ full' \in Position
<1>1. Place /\ Types /\ MaxSize \in Nat
  BY Sizes DEF FramingInv
<1>2. full' = [line |-> line, from |-> offset, length |-> 0] /\ reader' = "reading"
  BY DEF Start
<1>3. line \in Nat /\ offset \in Nat /\ (offset = 0 \/ offset > MaxSize)
  BY <1>1 DEF Place, Types
<1>4. full'.line = line /\ full'.from = offset /\ full'.length = 0
  BY <1>2
<1>5. full' \in Position
  BY <1>2, <1>3 DEF Position
<1> QED BY <1>1, <1>2, <1>3, <1>4, <1>5 DEF Place, inputVars

LEMMA ReadRawLineInv ==
  ASSUME FramingInv, ReadRawLine
  PROVE  FramingInv'
<1>1. Types /\ Place /\ Returned /\ Complete
  BY DEF FramingInv
<1>2. /\ UNCHANGED <<inputVars, line, offset, cancelled, sent, results>> /\ Start
      /\ caller = "idle" /\ caller' = "select" /\ reader' = "reading"
  BY DEF ReadRawLine, Start
<1>3. reader = "none" /\ sent = Nothing /\ sent.kind = "none"
  BY <1>1, <1>2, NothingFits DEF Types
<1>4. Place' /\ full' \in Position
  BY <1>2, <1>3, StartPlace
<1>5. Types'
  BY <1>1, <1>2, <1>3, <1>4 DEF Types, inputVars
<1>6. Returned'
  BY <1>1, <1>2 DEF Returned, EndsLine, Ordered, inputVars
<1>7. Complete'
  BY <1>1, <1>2, <1>3 DEF Complete, Readable, Got, AtEnd, inputVars
<1> QED BY <1>4, <1>5, <1>6, <1>7 DEF FramingInv

LEMMA ReadEndInv ==
  ASSUME FramingInv, ReadEnd
  PROVE  FramingInv'
<1>1. Types /\ Place /\ Returned /\ Complete
  BY DEF FramingInv
<1>2. /\ UNCHANGED <<inputVars, line, offset, cancelled, caller, full, results>>
      /\ reader = "reading" /\ reader' = "sent" /\ AtEnd
      /\ sent' = [Nothing EXCEPT !.kind = "eof"]
  BY DEF ReadEnd, Send
<1>3. sent' \in Outcome /\ sent'.kind = "eof" /\ sent' # Nothing
  BY <1>2 DEF Nothing, Outcome
<1>4. sent = Nothing /\ sent.kind = "none"
  BY <1>1, <1>2, NothingFits DEF Types
<1>5. Types'
  BY <1>1, <1>2, <1>3 DEF Types, inputVars
<1>6. Place'
  BY <1>1, <1>2, <1>3 DEF Place, inputVars
<1>7. Returned'
  BY <1>1, <1>2, <1>3 DEF Returned, EndsLine, Ordered, inputVars
<1>8. Complete'
  <2>1. AtEnd'
    BY <1>2 DEF AtEnd, Rest, inputVars
  <2>2. ~\E n \in DOMAIN results : results[n].kind = "eof"
    BY <1>1, <1>2 DEF Complete
  <2>3. \A i : Readable(i)' = Readable(i)
    BY <1>2 DEF Readable, inputVars
  <2>4. \A i : Got(i) => Got(i)'
    BY <1>2, <1>4 DEF Got
  <2> QED BY <1>1, <1>2, <1>3, <2>1, <2>2, <2>3, <2>4 DEF Complete, inputVars
<1> QED BY <1>5, <1>6, <1>7, <1>8 DEF FramingInv

\* The goroutine has gathered some more.
LEMMA Longer ==
  ASSUME NEW f \in Position, NEW n \in Nat
  PROVE  LET g == [f EXCEPT !.length = @ + n] IN
         g \in Position /\ g.line = f.line /\ g.from = f.from /\ g.length = f.length + n
  BY DEF Position

\* What may be sent.
LEMMA Sendable ==
  /\ [Nothing EXCEPT !.kind = "too large"] \in Outcome
  /\ [Nothing EXCEPT !.kind = "too large"].kind = "too large"
  /\ \A i, m, n \in Nat :
        [kind |-> "line", line |-> i, from |-> m, length |-> n] \in Outcome
  BY DEF Nothing, Outcome

LEMMA ReadPrefixInv ==
  ASSUME FramingInv, ReadPrefix
  PROVE  FramingInv'
<1>1. Types /\ Place /\ Returned /\ Complete
  BY DEF FramingInv
<1>2. /\ UNCHANGED <<inputVars, line, cancelled, caller, results>>
      /\ reader = "reading" /\ ~AtEnd /\ input[line].length - offset >= Buffer
      /\ offset' = offset + Buffer /\ full' = [full EXCEPT !.length = @ + Buffer]
  BY DEF ReadPrefix, Rest
<1>3. /\ line \in Nat /\ line \in DOMAIN input /\ line <= Len(input)
      /\ offset \in Nat /\ input[line].length \in Nat /\ offset <= input[line].length
      /\ full.line = line /\ full.from \in Nat /\ full.length \in Nat
      /\ full.from + full.length = offset
      /\ full.from = 0 \/ full.from > MaxSize
      /\ sent = Nothing
      /\ \A n \in DOMAIN results : results[n].kind # "eof"
  BY <1>2, Gathering
<1>4. full' \in Position /\ full'.line = line /\ full'.from = full.from
         /\ full'.length = full.length + Buffer
  <2>1. full \in Position /\ Buffer \in Nat
    BY <1>1, Sizes DEF Types
  <2> QED BY ONLY <1>2, <1>3, <2>1, Longer
<1>5. \/ full'.length > MaxSize /\ sent' = [Nothing EXCEPT !.kind = "too large"] /\ reader' = "sent"
      \/ full'.length <= MaxSize /\ sent' = sent /\ reader' = reader
  <2>1. full'.length \in Nat /\ MaxSize \in Nat
    BY <1>4, Sizes DEF Position
  <2>2. IF full'.length > MaxSize
        THEN sent' = [Nothing EXCEPT !.kind = "too large"] /\ reader' = "sent"
        ELSE UNCHANGED <<reader, sent>>
    BY DEF ReadPrefix, Send
  <2>3. CASE full'.length > MaxSize
    BY ONLY <2>2, <2>3
  <2>4. CASE ~(full'.length > MaxSize)
    <3>1. full'.length <= MaxSize
      BY ONLY <2>1, <2>4
    <3> QED BY ONLY <2>2, <2>4, <3>1
  <2> QED BY ONLY <2>3, <2>4
<1>6. /\ sent' \in Outcome /\ sent'.kind \notin {"line", "eof"} /\ (sent'.kind = "none" => sent' = Nothing)
      /\ reader' \in {"reading", "sent"} /\ (sent' = Nothing) = (reader' # "sent")
  BY ONLY <1>2, <1>3, <1>5, Sendable, NothingFits
<1>7. Types'
  BY <1>1, <1>2, <1>4, <1>6 DEF Types, inputVars
<1>8. Place'
  <2>1. \E k \in Nat : offset' = k * Buffer
    <3>1. PICK k \in Nat : offset = k * Buffer
      BY <1>1 DEF Place
    <3>2. offset' = (k + 1) * Buffer /\ k + 1 \in Nat
      BY <1>2, <3>1, Sizes, Multiples
    <3> QED BY <3>2
  <2>2. offset' \in Nat /\ offset' <= input[line].length /\ full'.from + full'.length = offset'
    <3>1. Buffer \in Nat
      BY Sizes
    <3> QED BY ONLY <1>2, <1>3, <1>4, <3>1, SMTT(20)
  <2>3. input' = input /\ line' = line
    BY <1>2 DEF inputVars
  <2>4. line \in 1 .. Len(input) + 1 /\ line # Len(input) + 1
    BY <1>1, <1>3 DEF Place, Types
  <2>5. reader' = "reading" => full'.length <= MaxSize
    BY ONLY <1>2, <1>5
  <2>6. reader' # "reading" => offset' > MaxSize
    <3>1. MaxSize \in Nat
      BY Sizes
    <3>2. reader' # "reading" => full'.length > MaxSize
      BY ONLY <1>2, <1>5
    <3>3. full'.from \in Nat /\ full'.length \in Nat /\ full'.from + full'.length = offset'
      BY <1>3, <1>4, <2>2 DEF Position
    <3> QED BY ONLY <3>1, <3>2, <3>3
  <2> QED BY <1>3, <1>4, <2>1, <2>2, <2>3, <2>4, <2>5, <2>6 DEF Place
<1>9. Returned'
  BY <1>1, <1>2, <1>6 DEF Returned, EndsLine, Ordered, inputVars
<1>10. Complete'
  <2>1. \A i : (Readable(i)' = Readable(i)) /\ (Got(i) => Got(i)')
    BY <1>2, <1>3, NothingFits DEF Readable, Got, inputVars
  <2> QED BY <1>1, <1>2, <1>3, <1>6, <2>1 DEF Complete, inputVars
<1> QED BY <1>7, <1>8, <1>9, <1>10 DEF FramingInv

LEMMA ReadLastInv ==
  ASSUME FramingInv, ReadLast
  PROVE  FramingInv'
<1>1. Types /\ Place /\ Returned /\ Complete
  BY DEF FramingInv
<1>2. /\ UNCHANGED <<inputVars, cancelled, caller, results>>
      /\ reader = "reading" /\ ~AtEnd
      /\ line' = line + 1 /\ offset' = 0
      /\ full' = [full EXCEPT !.length = @ + (input[line].length - offset)]
      /\ reader' = "sent"
      /\ sent' = IF full'.length > MaxSize THEN [Nothing EXCEPT !.kind = "too large"]
                 ELSE [kind |-> "line", line |-> full.line, from |-> full.from, length |-> full'.length]
  BY DEF ReadLast, Rest, Send
<1>3. /\ line \in Nat /\ line \in DOMAIN input /\ line <= Len(input)
      /\ offset \in Nat /\ input[line].length \in Nat /\ offset <= input[line].length
      /\ full.line = line /\ full.from \in Nat /\ full.length \in Nat
      /\ full.from + full.length = offset
      /\ full.from = 0 \/ full.from > MaxSize
      /\ sent = Nothing
      /\ \A n \in DOMAIN results : results[n].kind # "eof"
  BY <1>2, Gathering
<1>4. /\ full' \in Position
      /\ full'.length = full.length + (input[line].length - offset)
      /\ full'.length \in Nat /\ full.from + full'.length = input[line].length
  <2>1. full \in Position /\ input[line].length - offset \in Nat
    BY <1>1, <1>3 DEF Types
  <2>2. /\ full' \in Position
        /\ full'.length = full.length + (input[line].length - offset)
    BY ONLY <1>2, <2>1, Longer
  <2>3. full'.length \in Nat
    BY ONLY <1>3, <2>1, <2>2
  <2>4. full.from + full'.length = input[line].length
    BY ONLY <1>3, <2>2
  <2> QED BY ONLY <2>2, <2>3, <2>4
<1>5. MaxSize \in Nat
  BY Sizes
<1>6. \/ full'.length > MaxSize /\ sent' = [Nothing EXCEPT !.kind = "too large"]
      \/ /\ full'.length <= MaxSize
         /\ sent' = [kind |-> "line", line |-> line, from |-> full.from, length |-> full'.length]
  <2>1. CASE full'.length > MaxSize
    BY ONLY <1>2, <2>1
  <2>2. CASE ~(full'.length > MaxSize)
    <3>1. full'.length <= MaxSize
      BY ONLY <1>4, <1>5, <2>2
    <3>2. sent' = [kind |-> "line", line |-> line, from |-> full.from, length |-> full'.length]
      BY ONLY <1>2, <1>3, <2>2
    <3> QED BY ONLY <3>1, <3>2
  <2> QED BY ONLY <2>1, <2>2
<1>7. sent' \in Outcome /\ sent'.kind \in {"line", "too large"} /\ sent' # Nothing
  <2>1. CASE sent' = [Nothing EXCEPT !.kind = "too large"]
    BY ONLY <2>1, Sendable, NothingFits
  <2>2. CASE sent' = [kind |-> "line", line |-> line, from |-> full.from, length |-> full'.length]
    <3>1. sent'.kind = "line"
      BY ONLY <2>2
    <3>2. sent' \in Outcome
      BY ONLY <1>3, <1>4, <2>2, Sendable
    <3> QED BY ONLY <3>1, <3>2, NothingFits
  <2> QED BY ONLY <1>6, <2>1, <2>2
<1>8. sent'.kind = "line" =>
         /\ sent'.line = line /\ sent'.from = full.from /\ sent'.length = full'.length
         /\ full'.length <= MaxSize
  <2>1. CASE sent' = [Nothing EXCEPT !.kind = "too large"]
    BY ONLY <2>1, Sendable
  <2>2. CASE /\ full'.length <= MaxSize
             /\ sent' = [kind |-> "line", line |-> line, from |-> full.from, length |-> full'.length]
    BY ONLY <2>2
  <2> QED BY ONLY <1>6, <2>1, <2>2
<1>9. sent'.kind # "line" => input[line].length > MaxSize
  <2>1. sent'.kind # "line" => full'.length > MaxSize
    <3>1. CASE full'.length > MaxSize
      BY ONLY <3>1
    <3>2. CASE sent' = [kind |-> "line", line |-> line, from |-> full.from, length |-> full'.length]
      BY ONLY <3>2
    <3> QED BY ONLY <1>6, <3>1, <3>2
  <2> QED BY ONLY <1>3, <1>4, <1>5, <2>1
<1>10. input' = input /\ terminated' = terminated
  BY <1>2 DEF inputVars
<1>11. Types'
  BY <1>1, <1>2, <1>4, <1>7, <1>10 DEF Types
<1>12. Place'
  <2>1. line + 1 \in 1 .. Len(input) + 1 /\ Len(input) \in Nat
    BY <1>1, <1>3 DEF Types
  <2>2. line + 1 <= Len(input) => 0 <= input[line + 1].length
    <3>1. ASSUME line + 1 <= Len(input) PROVE input[line + 1] \in Line
      BY <1>1, <1>3, <3>1, <2>1 DEF Types
    <3> QED BY <3>1 DEF Line
  <2>3. \E k \in Nat : 0 = k * Buffer
    BY Sizes, Multiples
  <2> QED BY <1>2, <1>10, <2>1, <2>2, <2>3 DEF Place
<1>13. Returned'
  <2>1. \A i \in DOMAIN results : EndsLine(results[i], line)
    BY <1>1 DEF Returned
  <2>2. \A i \in DOMAIN results : EndsLine(results[i], line + 1)
    <3>1. \A i \in DOMAIN input : i \in Nat
      BY <1>1 DEF Types
    <3> QED BY <1>3, <2>1, <3>1 DEF EndsLine
  <2>3. \A i \in DOMAIN results : results[i].kind = "line" => results[i].line < line
    BY <2>1 DEF EndsLine
  <2>4. sent'.kind = "line" /\ input[line].length <= MaxSize => full.from = 0
    BY ONLY <1>3, <1>4, <1>5, SMTT(20)
  <2>5. EndsLine(sent', line + 1)
    <3>1. sent'.kind = "line" =>
             /\ sent'.line = line /\ line \in DOMAIN input /\ line < line + 1
             /\ sent'.from + sent'.length = input[line].length
             /\ input[line].length <= MaxSize => sent'.from = 0
      BY ONLY <1>3, <1>4, <1>8, <2>4
    <3> QED BY ONLY <3>1 DEF EndsLine
  <2> QED BY <1>1, <1>2, <1>8, <1>10, <2>2, <2>3, <2>5 DEF Returned, EndsLine, Ordered
<1>14. Complete'
  <2>1. \A i : Readable(i)' = Readable(i)
    BY <1>10 DEF Readable
  <2>2. \A i \in DOMAIN input : i < line /\ Readable(i) => Got(i)'
    BY <1>1, <1>2, <1>3, NothingFits DEF Complete, Got
  <2>3. \A i : i = line /\ Readable(i) => Got(i)'
    <3>1. Readable(line) => input[line].length <= MaxSize
      BY DEF Readable
    <3>2. Readable(line) => sent'.kind = "line" /\ sent'.line = line
      BY ONLY <1>3, <1>5, <1>8, <1>9, <3>1
    <3> QED BY <3>2 DEF Got
  <2>4. \A i \in DOMAIN input : i < line + 1 => i < line \/ i = line
    BY <1>1, <1>3 DEF Types
  <2> QED BY <1>2, <1>3, <1>7, <1>10, <2>1, <2>2, <2>3, <2>4 DEF Complete
<1> QED BY <1>11, <1>12, <1>13, <1>14 DEF FramingInv

\* A line that ReadRawLine passes over is one that nobody misses.
LEMMA BlankIsNotReadable ==
  ASSUME FramingInv, Blank(sent)
  PROVE  ~Readable(sent.line)
<1>1. Types /\ Returned
  BY DEF FramingInv
<1>2. sent.kind = "line" /\ (sent.length = 0 \/ input[sent.line].blank)
  BY DEF Blank
<1>3. /\ sent.line \in DOMAIN input
      /\ sent.from + sent.length = input[sent.line].length
      /\ input[sent.line].length <= MaxSize => sent.from = 0
  BY <1>1, <1>2 DEF Returned, EndsLine
<1>4. sent.from \in Nat /\ sent.length \in Nat
  BY <1>1 DEF Types, Outcome
<1>5. sent.length = 0 /\ input[sent.line].length <= MaxSize => input[sent.line].length = 0
  BY ONLY <1>3, <1>4
<1> QED BY <1>1, <1>2, <1>3, <1>5 DEF Readable, Types

LEMMA ReceiveBlankInv ==
  ASSUME FramingInv, Receive, Blank(sent)
  PROVE  FramingInv'
<1>1. Types /\ Place /\ Returned /\ Complete
  BY DEF FramingInv
<1>2. /\ UNCHANGED <<inputVars, line, offset, cancelled, caller, results>> /\ Start
      /\ caller = "select" /\ reader = "sent" /\ sent' = Nothing /\ reader' = "reading"
  BY DEF Receive, Start
<1>3. sent.kind = "line"
  BY DEF Blank
<1>4. Place' /\ full' \in Position
  BY <1>2, <1>3, StartPlace
<1>5. Types'
  BY <1>1, <1>2, <1>4, NothingFits DEF Types, inputVars
<1>6. Returned'
  BY <1>1, <1>2, NothingFits DEF Returned, EndsLine, Ordered, inputVars
<1>7. Complete'
  <2>1. \A i : Readable(i)' = Readable(i)
    BY <1>2 DEF Readable, inputVars
  <2>2. \A i : Readable(i) /\ Got(i) => Got(i)'
    BY <1>2, BlankIsNotReadable DEF Got
  <2> QED BY <1>1, <1>2, <2>1, <2>2, NothingFits DEF Complete, inputVars
<1> QED BY <1>4, <1>5, <1>6, <1>7 DEF FramingInv

LEMMA ReceiveInv ==
  ASSUME FramingInv, Receive, ~Blank(sent)
  PROVE  FramingInv'
<1>1. Types /\ Place /\ Returned /\ Complete
  BY DEF FramingInv
<1>2. /\ UNCHANGED <<inputVars, line, offset, cancelled, full>>
      /\ caller = "select" /\ reader = "sent" /\ sent' = Nothing /\ reader' = "none"
      /\ caller' = IF sent.kind = "eof" THEN "ended" ELSE "idle"
      /\ results' = Append(results, sent)
  BY DEF Receive
<1>3. /\ results \in Seq(Outcome) /\ sent \in Outcome /\ Len(results) \in Nat
      /\ DOMAIN results' = 1 .. Len(results) + 1 /\ DOMAIN results = 1 .. Len(results)
      /\ \A i \in DOMAIN results : i \in DOMAIN results' /\ results'[i] = results[i]
      /\ Len(results) + 1 \in DOMAIN results' /\ results'[Len(results) + 1] = sent
  BY <1>1, <1>2 DEF Types
<1>4. \A i \in DOMAIN results' : i \in DOMAIN results \/ i = Len(results) + 1
  BY ONLY <1>3
<1>5. input' = input /\ terminated' = terminated /\ line' = line /\ offset' = offset
  BY <1>2 DEF inputVars
<1>6. Types'
  BY <1>1, <1>2, <1>5, NothingFits DEF Types
<1>7. Place'
  BY <1>1, <1>2, <1>5 DEF Place
<1>8. Returned'
  <2>1. \A i \in DOMAIN results' : EndsLine(results'[i], line)
    BY <1>1, <1>3, <1>4 DEF Returned
  <2>2. Ordered(results')
    <3> SUFFICES ASSUME NEW i \in DOMAIN results', NEW j \in DOMAIN results', j < i,
                        results'[i].kind = "line", results'[j].kind = "line"
                 PROVE  results'[j].line < results'[i].line
      BY DEF Ordered
    <3>1. j \in DOMAIN results /\ results'[j] = results[j]
      BY <1>3
    <3>2. CASE i \in DOMAIN results
      BY <1>1, <1>3, <3>1, <3>2 DEF Returned, Ordered
    <3>3. CASE i = Len(results) + 1
      BY <1>1, <1>3, <3>1, <3>3 DEF Returned
    <3> QED BY <1>4, <3>2, <3>3
  <2> QED BY <1>2, <1>5, <2>1, <2>2, NothingFits DEF Returned, EndsLine, Ordered
<1>9. Complete'
  <2>1. \A i : Readable(i)' = Readable(i)
    BY <1>5 DEF Readable
  <2>2. \A i : Got(i) => Got(i)'
    BY <1>3 DEF Got
  <2>3. (\E n \in DOMAIN results' : results'[n].kind = "eof") => sent.kind = "eof"
    BY <1>1, <1>2, <1>3, <1>4 DEF Complete
  <2>4. AtEnd' = AtEnd
    BY <1>5 DEF AtEnd, Rest
  <2> QED BY <1>1, <1>2, <1>5, <2>1, <2>2, <2>3, <2>4, NothingFits DEF Complete
<1> QED BY <1>6, <1>7, <1>8, <1>9 DEF FramingInv

\* The caller goes, the context is cancelled, or nothing happens.
LEMMA OtherInv ==
  ASSUME FramingInv, ReturnCancelled \/ EndWhenCancelled \/ Cancel \/ UNCHANGED vars
  PROVE  FramingInv'
<1>1. Types /\ Place /\ Returned /\ Complete
  BY DEF FramingInv
<1>2. /\ UNCHANGED <<inputVars, line, offset, reader, full, sent, results>>
      /\ cancelled' \in BOOLEAN
      /\ caller' = caller \/ (caller \in {"idle", "select"} /\ caller' = "ended")
  BY <1>1 DEF ReturnCancelled, EndWhenCancelled, Cancel, vars, Types
<1>3. input' = input /\ terminated' = terminated
  BY <1>2 DEF inputVars
<1>4. Types'
  BY <1>1, <1>2, <1>3 DEF Types
<1>5. Place'
  BY <1>1, <1>2, <1>3 DEF Place
<1>6. Returned'
  BY <1>1, <1>2, <1>3 DEF Returned, EndsLine, Ordered
<1>7. Complete'
  BY <1>1, <1>2, <1>3 DEF Complete, Readable, Got, AtEnd, Rest
<1> QED BY <1>4, <1>5, <1>6, <1>7 DEF FramingInv

\* The invariant is inductive.
LEMMA FramingInvariant == Spec => []FramingInv
<1>1. FramingInv /\ [Next]_vars => FramingInv'
  BY ReadRawLineInv, ReadEndInv, ReadPrefixInv, ReadLastInv, ReceiveBlankInv, ReceiveInv, OtherInv
     DEF Next, Caller, Reader
<1> QED BY <1>1, InitInv, PTL DEF Spec

\* ReadRawLine and its goroutine keep their types, for any input and any sizes.
THEOREM TypeCorrect == Spec => []TypeOK
<1>1. FramingInv => TypeOK
  BY DEF FramingInv, Types, Place, TypeOK, Outcome
<1> QED BY <1>1, FramingInvariant, PTL

\* What ReadRawLine returns as lines are lines of the input, whole, in order and
\* each once, and at the end of the input none within the limit is missing: for
\* any input, buffer and limit, whatever is cancelled.
THEOREM LinesAreRead == Spec => []ReadsEveryLine
<1>1. FramingInv => ReadsEveryLine
  <2> SUFFICES ASSUME FramingInv PROVE ReadsEveryLine
    OBVIOUS
  <2>1. Types /\ Place /\ Returned /\ Complete
    BY DEF FramingInv
  <2>2. ASSUME NEW i \in DOMAIN results, results[i].kind = "line"
        PROVE  /\ results[i].from + results[i].length = input[results[i].line].length
               /\ input[results[i].line].length <= MaxSize => results[i].from = 0
               /\ \A j \in 1 .. i - 1 : results[j].kind = "line" => results[j].line < results[i].line
    <3>1. \A j \in 1 .. i - 1 : j \in DOMAIN results /\ j < i
      BY <2>1 DEF Types
    <3> QED BY <2>1, <2>2, <3>1 DEF Returned, EndsLine, Ordered
  <2>3. ASSUME NEW n \in DOMAIN results, results[n].kind = "eof",
               NEW i \in DOMAIN input, Readable(i)
        PROVE  \E j \in DOMAIN results : results[j].kind = "line" /\ results[j].line = i
    <3>1. AtEnd /\ reader = "none"
      BY <2>1, <2>3 DEF Complete
    <3>2. sent.kind # "line"
      BY <2>1, <3>1, NothingFits DEF Types
    <3>3. i < line
      <4>1. i \in 1 .. Len(input) /\ Len(input) \in Nat /\ line \in Nat
        BY <2>1 DEF Types, Place
      <4>2. CASE line > Len(input)
        BY <4>1, <4>2
      <4>3. CASE line = Len(input) /\ ~terminated /\ input[line].length - offset = 0
        <5>1. PICK k \in Nat : offset = k * Buffer
          BY <2>1 DEF Place
        <5>2. offset % Buffer = 0 /\ offset \in Nat
          BY <2>1, <5>1, Sizes, Multiples DEF Place
        <5>3. input[line].length \in Nat
          <6>1. input[line] \in Line
            BY <2>1, <4>1, <4>3 DEF Types
          <6> QED BY <6>1 DEF Line
        <5>4. input[line].length = offset
          BY <4>3, <5>2, <5>3
        <5>5. i # line
          BY <2>3, <4>3, <5>2, <5>4 DEF Readable
        <5> QED BY <4>1, <4>3, <5>5
      <4> QED BY <3>1, <4>2, <4>3 DEF AtEnd, Rest
    <3> QED BY <2>1, <2>3, <3>2, <3>3 DEF Complete, Got
  <2> QED BY <2>2, <2>3 DEF ReadsEveryLine
<1> QED BY <1>1, FramingInvariant, PTL

\* A cancelled read takes at most one line of the pipe with it: of any two lines
\* that were read one was returned, or waits in the channel nobody reads.
THEOREM CancelledReadsLoseOne == Spec => []CancelLosesOneLine
<1>1. FramingInv => CancelLosesOneLine
  <2> SUFFICES ASSUME FramingInv, NEW i \in 1 .. line - 1, Readable(i)
               PROVE  \E k \in DOMAIN results \cup {0} :
                         LET r == IF k = 0 THEN sent ELSE results[k]
                         IN  r.kind = "line" /\ r.line = i
    BY DEF CancelLosesOneLine
  <2>1. Types /\ Place /\ Complete
    BY DEF FramingInv
  <2>2. i \in DOMAIN input /\ i < line
    BY <2>1 DEF Types, Place
  <2>3. Got(i)
    BY <2>1, <2>2 DEF Complete
  <2>4. \A j \in DOMAIN results : j # 0
    BY <2>1 DEF Types
  <2> QED BY <2>3, <2>4 DEF Got
<1> QED BY <1>1, FramingInvariant, PTL

=================================================================================
