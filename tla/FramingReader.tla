------------------------------ MODULE FramingReader ------------------------------
(***************************************************************************)
(* FramingReader of pkg/mcp: newline-delimited messages read from a pipe   *)
(* by a caller that may be cancelled.                                      *)
(*                                                                         *)
(* Every ReadRawLine starts a goroutine that gathers a line from a         *)
(* bufio.Reader, one buffer at a time, and sends it on a channel; the      *)
(* caller waits for the channel or for its context.  A goroutine whose     *)
(* caller has gone stays in the read.  As in the loops of the gateway, the *)
(* caller goes on after an error that is not the end of the input, and     *)
(* does not read again once its context is cancelled.                      *)
(*                                                                         *)
(* Of a line only its length matters, and whether it is white space.       *)
(***************************************************************************)
EXTENDS Integers, Sequences

CONSTANTS
    Length,    \* lengths of lines
    MaxLines,  \* bound on the lines of the input
    Buffer,    \* size of the bufio.Reader, 64 KB in the code
    MaxSize,   \* fr.maxSize, 16 MB in the code
    MayCancel  \* the context may be cancelled

ASSUME FramingAssumption ==
    /\ Length \subseteq Nat
    /\ MaxLines \in Nat
    /\ Buffer \in Nat \ {0} /\ MaxSize \in Nat \ {0}
    /\ MayCancel \in BOOLEAN

VARIABLES
    input,       \* the lines: length, white space or not
    terminated,  \* the last line ends with a newline
    line,        \* position of the bufio.Reader: number of the line
    offset,      \* and the bytes of it that were read
    cancelled,   \* the context
    caller,      \* "idle", "select", or "ended" for good
    reader,      \* the goroutine: "none", "reading" or "sent"
    full,        \* fullLine: where it began, and its length
    sent,        \* what is in the channel
    results      \* history: what ReadRawLine returned

inputVars == <<input, terminated>>
vars == <<inputVars, line, offset, cancelled, caller, reader, full, sent, results>>

Nothing == [kind |-> "none", line |-> 0, from |-> 0, length |-> 0]

Result(kind) == [kind |-> kind, line |-> full.line, from |-> full.from, length |-> full.length]

Init ==
    /\ input \in UNION {[1 .. n -> [length: Length, blank: BOOLEAN]] : n \in 0 .. MaxLines}
    /\ \A i \in DOMAIN input : input[i].length = 0 => input[i].blank
    /\ terminated \in BOOLEAN
    /\ line = 1 /\ offset = 0
    /\ cancelled = FALSE
    /\ caller = "idle" /\ reader = "none"
    /\ full = [line |-> 1, from |-> 0, length |-> 0]
    /\ sent = Nothing
    /\ results = <<>>

-------------------------------------------------------------------------------
Start == full' = [line |-> line, from |-> offset, length |-> 0] /\ reader' = "reading"

ReadRawLine ==
    /\ caller = "idle" /\ ~cancelled
    /\ caller' = "select"
    /\ Start
    /\ UNCHANGED <<inputVars, line, offset, cancelled, sent, results>>

Send(result) == sent' = result /\ reader' = "sent"

Rest == input[line].length - offset

\* ReadLine has nothing left: an unterminated line ends with the input.
AtEnd == line > Len(input) \/ (line = Len(input) /\ ~terminated /\ Rest = 0)

\* The end of the input; what was gathered before is dropped.
ReadEnd ==
    /\ reader = "reading" /\ AtEnd
    /\ Send([Nothing EXCEPT !.kind = "eof"])
    /\ UNCHANGED <<inputVars, line, offset, cancelled, caller, full, results>>

\* Mutant: isPrefix is not looked at.
ReadPrefixAsLine ==
    /\ reader = "reading" /\ ~AtEnd /\ Rest >= Buffer
    /\ offset' = offset + Buffer
    /\ full' = [full EXCEPT !.length = @ + Buffer]
    /\ Send([kind |-> "line", line |-> full.line, from |-> full.from, length |-> full'.length])
    /\ UNCHANGED <<inputVars, line, cancelled, caller, results>>

\* ReadLine returns a full buffer without a newline: the line goes on.
ReadPrefix ==
    /\ reader = "reading" /\ ~AtEnd /\ Rest >= Buffer
    /\ offset' = offset + Buffer
    /\ full' = [full EXCEPT !.length = @ + Buffer]
    /\ IF full'.length > MaxSize THEN Send([Nothing EXCEPT !.kind = "too large"])
       ELSE UNCHANGED <<reader, sent>>
    /\ UNCHANGED <<inputVars, line, cancelled, caller, results>>

\* Mutant: the goroutine goes on when its caller has gone.
ReadLastAndNext ==
    /\ reader = "reading" /\ ~AtEnd /\ Rest < Buffer
    /\ line' = line + 1 /\ offset' = 0
    /\ full' = IF caller = "ended" THEN [line |-> line', from |-> 0, length |-> 0]
               ELSE [full EXCEPT !.length = @ + Rest]
    /\ reader' = IF caller = "ended" THEN "reading" ELSE "sent"
    /\ sent' = IF caller = "ended" THEN sent
               ELSE [kind |-> "line", line |-> full.line, from |-> full.from, length |-> full'.length]
    /\ UNCHANGED <<inputVars, cancelled, caller, results>>

\* ReadLine returns the end of a line.
ReadLast ==
    /\ reader = "reading" /\ ~AtEnd /\ Rest < Buffer
    /\ line' = line + 1 /\ offset' = 0
    /\ full' = [full EXCEPT !.length = @ + Rest]
    /\ Send(IF full'.length > MaxSize THEN [Nothing EXCEPT !.kind = "too large"]
            ELSE [kind |-> "line", line |-> full.line, from |-> full.from, length |-> full'.length])
    /\ UNCHANGED <<inputVars, cancelled, caller, results>>

-------------------------------------------------------------------------------
Blank(result) ==
    result.kind = "line" /\ (result.length = 0 \/ input[result.line].blank)

\* The select takes what was sent; an empty line starts the next read.
Receive ==
    /\ caller = "select" /\ reader = "sent"
    /\ sent' = Nothing
    /\ IF Blank(sent)
       THEN Start /\ UNCHANGED <<caller, results>>
       ELSE /\ reader' = "none"
            /\ caller' = IF sent.kind = "eof" THEN "ended" ELSE "idle"
            /\ results' = Append(results, sent)
            /\ UNCHANGED full
    /\ UNCHANGED <<inputVars, line, offset, cancelled>>

\* Mutant: the context is looked at when the read is done.
ReturnCancelledAfterRead ==
    /\ caller = "select" /\ cancelled /\ reader = "sent"
    /\ caller' = "ended"
    /\ UNCHANGED <<inputVars, line, offset, cancelled, reader, full, sent, results>>

\* Or it takes ctx.Done(), and leaves the goroutine behind.
ReturnCancelled ==
    /\ caller = "select" /\ cancelled
    /\ caller' = "ended"
    /\ UNCHANGED <<inputVars, line, offset, cancelled, reader, full, sent, results>>

EndWhenCancelled ==
    /\ caller = "idle" /\ cancelled
    /\ caller' = "ended"
    /\ UNCHANGED <<inputVars, line, offset, cancelled, reader, full, sent, results>>

Cancel ==
    /\ MayCancel /\ ~cancelled
    /\ cancelled' = TRUE
    /\ UNCHANGED <<inputVars, line, offset, caller, reader, full, sent, results>>

-------------------------------------------------------------------------------
Caller == ReadRawLine \/ Receive \/ ReturnCancelled \/ EndWhenCancelled

Reader == ReadEnd \/ ReadPrefix \/ ReadLast

Next == Caller \/ Reader \/ Cancel

Spec == Init /\ [][Next]_vars

\* The caller runs; the goroutine may wait for input as long as it likes.
FairSpec == Spec /\ WF_vars(Caller)

-------------------------------------------------------------------------------
Position == [line: Nat, from: Nat, length: Nat]

\* The types of the variables; the caller waits only for a goroutine it started.
TypeOK ==
    /\ line \in 1 .. Len(input) + 1 /\ offset \in Nat
    /\ line <= Len(input) => offset <= input[line].length
    /\ cancelled \in BOOLEAN /\ caller \in {"idle", "select", "ended"}
    /\ reader \in {"none", "reading", "sent"} /\ full \in Position
    /\ caller = "select" => reader # "none"
    /\ sent.kind \in {"none", "line", "too large", "eof"}
    /\ (sent = Nothing) = (reader # "sent")

\* The last line is read only if it ends with a newline or in part of a buffer.
Readable(i) ==
    /\ ~input[i].blank /\ input[i].length <= MaxSize
    /\ i < Len(input) \/ terminated \/ input[i].length % Buffer # 0

\* What is returned as a line is the end of one line of the input, never parts of
\* two; it is the whole line when the line is within the limit, and lines come in
\* their order and only once, over any number of reads.  When the input has ended
\* every line within the limit was returned, whatever lines were too large
\* before it (ReadRawLine).
ReadsEveryLine ==
    /\ \A i \in DOMAIN results : results[i].kind = "line" =>
          /\ results[i].from + results[i].length = input[results[i].line].length
          /\ input[results[i].line].length <= MaxSize => results[i].from = 0
          /\ \A j \in 1 .. i - 1 : results[j].kind = "line" => results[j].line < results[i].line
    /\ \A n \in DOMAIN results : results[n].kind = "eof" =>
          \A i \in DOMAIN input : Readable(i) =>
              \E j \in DOMAIN results : results[j].kind = "line" /\ results[j].line = i

\* A cancelled read takes at most one line with it that nobody gets.
CancelLosesOneLine ==
    \A i, j \in 1 .. line - 1 :
        Readable(i) /\ Readable(j) /\ i # j =>
            \E k \in DOMAIN results \cup {0} :
                LET r == IF k = 0 THEN sent ELSE results[k] IN
                r.kind = "line" /\ r.line \in {i, j}

\* A cancelled caller ends, also when the peer never writes another byte.
CancelledCallerEnds == cancelled ~> caller = "ended"

===============================================================================
