----------------------------- MODULE Masker_proofs -----------------------------
(***************************************************************************)
(* Masker for any number of handlers, texts, rules, values and calls of    *)
(* Clear.                                                                  *)
(***************************************************************************)
EXTENDS Masker, WellFoundedInduction, TLAPS

String == Seq(Element)
Matches == SUBSET Match
Position == Nat \ {0}
MaybeValue == Value \cup {None}
Control == {"idle", "mask", "get", "open", "restored"}

HandlerState ==
    [pc: Control, text: String, index: Position, matches: Matches, output: String, spans: Matches,
     ciphertext: MaybeValue, read: Nat, failed: BOOLEAN]

\* A handler after c calls of Clear: it is within its text, and what it has yet
\* to replace, and has replaced, are matches of that text.
Fits(H, c) ==
    /\ H \in HandlerState
    /\ H.index <= Len(H.text) + 1 /\ H.read <= c
    /\ H.ciphertext \in (IF H.pc = "open" THEN Value ELSE {None})
    /\ H.pc = "open" => H.index <= Len(H.text)
    /\ H.pc # "mask" => H.matches = {}
    /\ H.pc = "mask" => /\ H.text \in Text
                        /\ H.matches \cup H.spans \subseteq Scan(H.text)
                        /\ \A m \in H.matches : m.start >= H.index

VaultTypes ==
    /\ tokenToValue \in [Token -> Value \cup {None}]
    /\ valueToToken \in [Value -> Token \cup {None}]
    /\ clears \in 0 .. MaxClears

HandlersFit ==
    /\ handler \in [Handler -> HandlerState]
    /\ \A h \in Handler : Fits(handler[h], clears)

Masking == [original: Text, spans: SUBSET Match, masked: Seq(Element)]

\* Every masking that was returned replaced matches of its text.
SeenFits == seen \subseteq Masking /\ \A x \in seen : x.spans \subseteq Scan(x.original)

TypeInv == VaultTypes /\ HandlersFit /\ SeenFits

-------------------------------------------------------------------------------
\* What Scan finds in a text: words of the rules, where the text has them.
LEMMA ScanFinds ==
    ASSUME NEW t \in Seq(Element), NEW m \in Scan(t)
    PROVE  /\ m \in Match /\ m.rule \in Rule /\ m.value \in Value
           /\ m.start \in 1 .. Len(t) /\ m.end \in 1 .. Len(t) + 1 /\ m.start < m.end
           /\ m.end = m.start + Len(m.value) /\ Len(m.value) \in Nat \ {0}
           /\ m.value = SubSeq(t, m.start, m.end - 1)
<1>1. PICK r \in Rule : m \in Found(r, t)
  BY DEF Scan
<1>2. PICK x \in (1 .. Len(t)) \X Valid[r] :
         /\ x[2] \in WordsAt(r, t, x[1])
         /\ m = [rule |-> r, start |-> x[1], end |-> x[1] + Len(x[2]), value |-> x[2]]
  BY <1>1 DEF Found
<1>3. x[1] \in 1 .. Len(t) /\ x[2] \in Value
  BY <1>2, MaskerAssumption
<1>4. /\ x[1] + Len(x[2]) <= Len(t) + 1
      /\ SubSeq(t, x[1], x[1] + Len(x[2]) - 1) = x[2]
  BY <1>2 DEF WordsAt
<1>5. Len(x[2]) \in Nat \ {0}
  <2>1. x[2] \in Seq(Element) /\ x[2] # <<>>
    BY <1>3, TextsAndWords
  <2> QED
    BY <2>1
<1>6. m.rule = r /\ m.start = x[1] /\ m.end = x[1] + Len(x[2]) /\ m.value = x[2]
  BY <1>2
<1>7. m.start \in Nat \ {0} /\ m.end \in 1 .. Len(t) + 1 /\ m.start < m.end /\ m.start \in 1 .. Len(t)
  BY <1>3, <1>4, <1>5, <1>6
<1>8. m \in Match
  BY <1>2, <1>3, <1>5 DEF Match
<1> QED
  BY <1>3, <1>4, <1>5, <1>6, <1>7, <1>8

LEMMA ScanMatches ==
    ASSUME NEW t \in Seq(Element)
    PROVE  Scan(t) \subseteq Match
BY ScanFinds

LEMMA TokensAreElements == Token \subseteq Element
BY DEF Element

LEMMA IdleState ==
    /\ Idle \in HandlerState
    /\ Idle.pc = "idle" /\ Idle.text = <<>> /\ Idle.index = 1 /\ Idle.matches = {}
    /\ Idle.output = <<>> /\ Idle.spans = {} /\ Idle.ciphertext = None /\ Idle.read = 0
    /\ Idle.failed = FALSE
BY DEF HandlerState, Idle, String, Matches, Position, MaybeValue, Control

LEMMA IdleFits ==
    ASSUME NEW c \in Nat
    PROVE  Fits(Idle, c)
BY DEF Fits, HandlerState, Idle, String, Matches, Position, MaybeValue, Control

LEMMA TypeInit == Init => TypeInv
<1> SUFFICES ASSUME Init PROVE TypeInv
  OBVIOUS
<1>1. VaultTypes
  BY MaskerAssumption DEF Init, VaultTypes
<1>2. HandlersFit
  BY IdleFits DEF Init, HandlersFit, Fits
<1>3. SeenFits
  BY DEF Init, SeenFits
<1> QED
  BY <1>1, <1>2, <1>3 DEF TypeInv

\* A step of one handler that leaves the others alone.
LEMMA OneHandlerFits ==
    ASSUME HandlersFit, NEW h \in Handler, NEW H, handler' = [handler EXCEPT ![h] = H],
           UNCHANGED clears, Fits(H, clears)
    PROVE  HandlersFit'
BY DEF HandlersFit, Fits

-------------------------------------------------------------------------------
\* What each step does to its handler.
LEMMA HandlerTypes ==
    ASSUME NEW H \in HandlerState
    PROVE  /\ H.pc \in Control /\ H.text \in String /\ H.index \in Position /\ H.matches \in Matches
           /\ H.output \in String /\ H.spans \in Matches /\ H.ciphertext \in MaybeValue
           /\ H.read \in Nat /\ H.failed \in BOOLEAN
BY DEF HandlerState

LEMMA Controls ==
    /\ "idle" \in Control /\ "mask" \in Control /\ "get" \in Control
    /\ "open" \in Control /\ "restored" \in Control
BY DEF Control

WithMask(H, t, M, pc) == [H EXCEPT !.pc = pc, !.text = t, !.matches = M]

WithReplaced(H, out, n, M, S) == [H EXCEPT !.output = out, !.index = n, !.matches = M, !.spans = S]

WithLeft(H, out, n) == [H EXCEPT !.output = out, !.index = n, !.failed = FALSE]

WithOpen(H, out, n, pc, c, v) ==
    [H EXCEPT !.output = out, !.index = n, !.pc = pc, !.read = c, !.ciphertext = v]

WithOpened(H, out, n, pc, v, f) ==
    [H EXCEPT !.pc = pc, !.ciphertext = v, !.index = n, !.output = out, !.failed = f]

WithOutput(H, out, pc) == [H EXCEPT !.pc = pc, !.output = out]

WithUnmask(H, t, pc, out) == [H EXCEPT !.text = t, !.pc = pc, !.output = out]

LEMMA SetMask ==
    ASSUME NEW H \in HandlerState, NEW t \in String, NEW M \in Matches, NEW pc \in Control
    PROVE  LET G == WithMask(H, t, M, pc) IN
           /\ G \in HandlerState
           /\ G.pc = pc /\ G.text = t /\ G.matches = M
           /\ G.index = H.index /\ G.output = H.output /\ G.spans = H.spans
           /\ G.ciphertext = H.ciphertext /\ G.read = H.read /\ G.failed = H.failed
BY DEF HandlerState, WithMask

LEMMA SetReplaced ==
    ASSUME NEW H \in HandlerState, NEW out \in String, NEW n \in Position, NEW M \in Matches,
           NEW S \in Matches
    PROVE  LET G == WithReplaced(H, out, n, M, S) IN
           /\ G \in HandlerState
           /\ G.pc = H.pc /\ G.text = H.text /\ G.matches = M
           /\ G.index = n /\ G.output = out /\ G.spans = S
           /\ G.ciphertext = H.ciphertext /\ G.read = H.read /\ G.failed = H.failed
BY DEF HandlerState, WithReplaced

LEMMA SetLeft ==
    ASSUME NEW H \in HandlerState, NEW out \in String, NEW n \in Position
    PROVE  LET G == WithLeft(H, out, n) IN
           /\ G \in HandlerState
           /\ G.pc = H.pc /\ G.text = H.text /\ G.matches = H.matches
           /\ G.index = n /\ G.output = out /\ G.spans = H.spans
           /\ G.ciphertext = H.ciphertext /\ G.read = H.read /\ G.failed = FALSE
BY DEF HandlerState, WithLeft

LEMMA SetOpen ==
    ASSUME NEW H \in HandlerState, NEW out \in String, NEW n \in Position, NEW pc \in Control,
           NEW c \in Nat, NEW v \in MaybeValue
    PROVE  LET G == WithOpen(H, out, n, pc, c, v) IN
           /\ G \in HandlerState
           /\ G.pc = pc /\ G.text = H.text /\ G.matches = H.matches
           /\ G.index = n /\ G.output = out /\ G.spans = H.spans
           /\ G.ciphertext = v /\ G.read = c /\ G.failed = H.failed
BY DEF HandlerState, WithOpen

LEMMA SetOpened ==
    ASSUME NEW H \in HandlerState, NEW out \in String, NEW n \in Position, NEW pc \in Control,
           NEW v \in MaybeValue, NEW f \in BOOLEAN
    PROVE  LET G == WithOpened(H, out, n, pc, v, f) IN
           /\ G \in HandlerState
           /\ G.pc = pc /\ G.text = H.text /\ G.matches = H.matches
           /\ G.index = n /\ G.output = out /\ G.spans = H.spans
           /\ G.ciphertext = v /\ G.read = H.read /\ G.failed = f
BY DEF HandlerState, WithOpened

LEMMA SetOutput ==
    ASSUME NEW H \in HandlerState, NEW out \in String, NEW pc \in Control
    PROVE  LET G == WithOutput(H, out, pc) IN
           /\ G \in HandlerState
           /\ G.pc = pc /\ G.text = H.text /\ G.matches = H.matches
           /\ G.index = H.index /\ G.output = out /\ G.spans = H.spans
           /\ G.ciphertext = H.ciphertext /\ G.read = H.read /\ G.failed = H.failed
BY DEF HandlerState, WithOutput

LEMMA SetUnmask ==
    ASSUME NEW H \in HandlerState, NEW t \in String, NEW pc \in Control, NEW out \in String
    PROVE  LET G == WithUnmask(H, t, pc, out) IN
           /\ G \in HandlerState
           /\ G.pc = pc /\ G.text = t /\ G.matches = H.matches
           /\ G.index = H.index /\ G.output = out /\ G.spans = H.spans
           /\ G.ciphertext = H.ciphertext /\ G.read = H.read /\ G.failed = H.failed
BY DEF HandlerState, WithUnmask

LEMMA MaskTextEffect ==
    ASSUME TypeInv, NEW h \in Handler, NEW t \in Text, MaskText(h, t)
    PROVE  \E G \in HandlerState :
              /\ handler' = [handler EXCEPT ![h] = G] /\ Fits(G, clears)
              /\ G.pc = "mask" /\ G.text = t /\ G.index = 1 /\ G.output = <<>> /\ G.spans = {}
              /\ G.matches = Scan(t)
<1> DEFINE G == [Idle EXCEPT !.pc = "mask", !.text = t, !.matches = Scan(t)]
<1>1. t \in Seq(Element)
  BY TextsAndWords
<1>2. Scan(t) \subseteq Match /\ \A m \in Scan(t) : m.start >= 1
  BY <1>1, ScanFinds DEF Match
<1>3. clears \in Nat
  BY DEF TypeInv, VaultTypes
<1>4. /\ G \in HandlerState
      /\ G.pc = "mask" /\ G.text = t /\ G.matches = Scan(t) /\ G.index = 1 /\ G.output = <<>>
      /\ G.spans = {} /\ G.ciphertext = None /\ G.read = 0 /\ G.failed = FALSE
  <2>1. t \in String /\ Scan(t) \in Matches
    BY <1>1, <1>2 DEF String, Matches
  <2> HIDE DEF G
  <2>2. G = WithMask(Idle, t, Scan(t), "mask")
    BY DEF G, WithMask
  <2> QED
    BY <2>1, <2>2, IdleState, Controls, SetMask
<1>5. handler' = [handler EXCEPT ![h] = G]
  BY DEF MaskText
<1>6. Fits(G, clears)
  <2> HIDE DEF G
  <2> QED
    BY <1>1, <1>2, <1>3, <1>4, MaskerAssumption DEF Fits
<1> HIDE DEF G
<1> QED
  BY <1>4, <1>5, <1>6

LEMMA ReplaceMatchEffect ==
    ASSUME TypeInv, NEW h \in Handler, ReplaceMatch(h)
    PROVE  LET H == handler[h] IN
           /\ H.pc = "mask"
           /\ \E m \in Foremost(H.matches), G \in HandlerState :
                /\ Put(m.rule, m.value)
                /\ TokenFor(m.rule, m.value) \in Token
                /\ handler' = [handler EXCEPT ![h] = G] /\ Fits(G, clears)
                /\ G.pc = "mask" /\ G.text = H.text /\ G.index = m.end
                /\ G.output = Append(H.output \o SubSeq(H.text, H.index, m.start - 1),
                                     TokenFor(m.rule, m.value))
                /\ G.matches = {x \in H.matches : x.start >= m.end}
                /\ G.spans = H.spans \cup {m}
<1> DEFINE H == handler[h]
<1>1. H \in HandlerState /\ Fits(H, clears) /\ H.pc = "mask" /\ clears \in Nat
  BY DEF TypeInv, VaultTypes, HandlersFit, ReplaceMatch
<1>2. PICK m \in Foremost(H.matches) :
          /\ Put(m.rule, m.value)
          /\ handler' = [handler EXCEPT ![h] = [H EXCEPT
                !.output = Append(@ \o SubSeq(H.text, H.index, m.start - 1),
                                  TokenFor(m.rule, m.value)),
                !.index = m.end,
                !.matches = {x \in @ : x.start >= m.end},
                !.spans = @ \cup {m}]]
  BY DEF ReplaceMatch
<1> DEFINE k == TokenFor(m.rule, m.value)
           out == Append(H.output \o SubSeq(H.text, H.index, m.start - 1), k)
           rest == {x \in H.matches : x.start >= m.end}
           G == [H EXCEPT !.output = out, !.index = m.end, !.matches = rest, !.spans = @ \cup {m}]
<1>3. /\ m \in H.matches /\ m \in Scan(H.text) /\ m.start >= H.index
      /\ H.text \in Seq(Element) /\ H.index \in Nat \ {0} /\ H.output \in Seq(Element)
      /\ H.matches \subseteq Match /\ H.spans \subseteq Match
  <2> HIDE DEF H
  <2>1. m \in H.matches
    BY DEF Foremost
  <2>2. m \in Scan(H.text) /\ m.start >= H.index
    BY <1>1, <2>1 DEF Fits
  <2> QED
    BY <1>1, <2>1, <2>2, HandlerTypes DEF String, Matches, Position
<1>4. /\ m \in Match /\ m.rule \in Rule /\ m.value \in Value
      /\ m.start \in 1 .. Len(H.text) /\ m.end \in 1 .. Len(H.text) + 1 /\ m.start < m.end
  BY <1>3, ScanFinds
<1>5. k \in Token
  <2> HIDE DEF H
  <2> USE <1>4
  <2>1. (clears > 0) \in BOOLEAN
    BY <1>1
  <2>2. Hash[clears > 0][m.value] \in Ref
    BY <2>1, MaskerAssumption
  <2>3. NewToken(m.rule, m.value) \in Token
    BY <2>2 DEF NewToken, Token
  <2> QED
    BY <2>3 DEF TokenFor, TypeInv, VaultTypes
<1>6. out \in Seq(Element)
  <2> HIDE DEF H, k
  <2>1. SubSeq(H.text, H.index, m.start - 1) \in Seq(Element)
    BY <1>3, <1>4
  <2> QED
    BY <1>3, <1>5, <2>1, TokensAreElements
<1>7. /\ G \in HandlerState
      /\ G.pc = "mask" /\ G.text = H.text /\ G.index = m.end /\ G.output = out
      /\ G.matches = rest /\ G.spans = H.spans \cup {m} /\ G.read = H.read
      /\ G.ciphertext = H.ciphertext
  <2> HIDE DEF H, out, k, rest, G
  <2>1. /\ out \in String /\ m.end \in Position /\ rest \in Matches
        /\ H.spans \cup {m} \in Matches
    BY <1>3, <1>4, <1>6 DEF String, Matches, Position, rest
  <2>2. G = WithReplaced(H, out, m.end, rest, H.spans \cup {m})
    BY DEF G, WithReplaced
  <2> DEFINE n == m.end
             S == H.spans \cup {m}
  <2>3. n \in Position /\ S \in Matches /\ G = WithReplaced(H, out, n, rest, S)
    BY <2>1, <2>2
  <2>4. H \in HandlerState /\ H.pc = "mask"
    BY <1>1
  <2> HIDE DEF n, S
  <2>5. /\ G \in HandlerState
        /\ G.pc = H.pc /\ G.text = H.text /\ G.matches = rest
        /\ G.index = n /\ G.output = out /\ G.spans = S
        /\ G.ciphertext = H.ciphertext /\ G.read = H.read
    BY ONLY <2>1, <2>3, <2>4, SetReplaced
  <2> QED
    BY <2>4, <2>5 DEF n, S
<1>8. Fits(G, clears)
  <2> HIDE DEF G
  <2> QED
    BY <1>1, <1>3, <1>4, <1>7 DEF Fits
<1>9. handler' = [handler EXCEPT ![h] = G]
  BY <1>2
<1> HIDE DEF G
<1> QED
  BY <1>1, <1>2, <1>5, <1>7, <1>8, <1>9

LEMMA GetTokenEffect ==
    ASSUME TypeInv, NEW h \in Handler, GetToken(h)
    PROVE  LET H == handler[h] IN
           /\ H.pc = "get"
           /\ \E i \in FirstToken(H.text, H.index), G \in HandlerState :
                LET before == H.output \o SubSeq(H.text, H.index, i - 1) IN
                /\ handler' = [handler EXCEPT ![h] = G] /\ Fits(G, clears)
                /\ G.text = H.text
                /\ tokenToValue[H.text[i]] = None =>
                      /\ G.pc = "get" /\ G.output = Append(before, H.text[i])
                      /\ G.index = i + 1 /\ G.failed = FALSE
                /\ tokenToValue[H.text[i]] # None =>
                      /\ G.pc = "open" /\ G.output = before /\ G.index = i
                      /\ G.failed = H.failed
                      /\ G.read = clears /\ G.ciphertext = tokenToValue[H.text[i]]
<1> DEFINE H == handler[h]
<1>1. H \in HandlerState /\ Fits(H, clears) /\ H.pc = "get" /\ clears \in Nat
  BY DEF TypeInv, VaultTypes, HandlersFit, GetToken
<1>2. PICK i \in FirstToken(H.text, H.index) :
          LET before == H.output \o SubSeq(H.text, H.index, i - 1) IN
          handler' = [handler EXCEPT ![h] =
             IF tokenToValue[H.text[i]] = None
             THEN [H EXCEPT !.output = Append(before, H.text[i]), !.index = i + 1, !.failed = FALSE]
             ELSE [H EXCEPT !.output = before, !.index = i, !.pc = "open", !.read = clears,
                            !.ciphertext = tokenToValue[H.text[i]]]]
  BY DEF GetToken
<1> DEFINE before == H.output \o SubSeq(H.text, H.index, i - 1)
<1>3. /\ H.text \in Seq(Element) /\ H.index \in Nat \ {0} /\ H.output \in Seq(Element)
      /\ H.matches = {} /\ H.index <= Len(H.text) + 1
  <2> HIDE DEF H
  <2> QED
    BY <1>1, HandlerTypes DEF Fits, String, Matches, Position
<1>4. i \in H.index .. Len(H.text) /\ H.text[i] \in Token /\ i \in Nat \ {0}
  <2> HIDE DEF H
  <2> QED
    BY <1>3 DEF FirstToken, TokensFrom
<1>5. before \in Seq(Element)
  <2> HIDE DEF H
  <2>1. SubSeq(H.text, H.index, i - 1) \in Seq(Element)
    BY <1>3, <1>4
  <2> QED
    BY <1>3, <2>1
<1>6. CASE tokenToValue[H.text[i]] = None
  <2> DEFINE G == [H EXCEPT !.output = Append(before, H.text[i]), !.index = i + 1, !.failed = FALSE]
  <2>1. handler' = [handler EXCEPT ![h] = G]
    BY <1>2, <1>6
  <2>2. /\ G \in HandlerState
        /\ G.pc = "get" /\ G.text = H.text /\ G.index = i + 1 /\ G.output = Append(before, H.text[i])
        /\ G.matches = {} /\ G.read = H.read /\ G.failed = FALSE /\ G.ciphertext = H.ciphertext
    <3> HIDE DEF H, before, G
    <3>1. Append(before, H.text[i]) \in String /\ i + 1 \in Position
      BY <1>3, <1>4, <1>5, TokensAreElements DEF String, Position
    <3>2. G = WithLeft(H, Append(before, H.text[i]), i + 1)
      BY DEF G, WithLeft
    <3> DEFINE n == i + 1
               out == Append(before, H.text[i])
    <3>3. H \in HandlerState /\ n \in Position /\ out \in String /\ G = WithLeft(H, out, n)
      BY <1>1, <3>1, <3>2
    <3> HIDE DEF n, out
    <3>4. /\ G \in HandlerState
          /\ G.pc = H.pc /\ G.text = H.text /\ G.index = n /\ G.output = out
          /\ G.matches = H.matches /\ G.read = H.read /\ G.failed = FALSE
          /\ G.ciphertext = H.ciphertext
      BY ONLY <3>3, SetLeft, ZenonT(30)
    <3> QED
      BY <1>1, <1>3, <3>4 DEF n, out
  <2>3. Fits(G, clears)
    <3> HIDE DEF G
    <3> QED
      BY <1>1, <1>3, <1>4, <2>2 DEF Fits
  <2> HIDE DEF G
  <2> QED
    BY <1>1, <1>6, <2>1, <2>2, <2>3
<1>7. CASE tokenToValue[H.text[i]] # None
  <2> DEFINE v == tokenToValue[H.text[i]]
             G == [H EXCEPT !.output = before, !.index = i, !.pc = "open", !.read = clears,
                            !.ciphertext = v]
  <2>1. handler' = [handler EXCEPT ![h] = G]
    BY <1>2, <1>7
  <2>2. v \in Value
    BY <1>4, <1>7 DEF TypeInv, VaultTypes
  <2>3. /\ G \in HandlerState
        /\ G.pc = "open" /\ G.text = H.text /\ G.index = i /\ G.output = before
        /\ G.matches = {} /\ G.read = clears /\ G.failed = H.failed /\ G.ciphertext = v
    <3> HIDE DEF H, before, v, G
    <3>1. before \in String /\ i \in Position /\ v \in MaybeValue
      BY <1>4, <1>5, <2>2 DEF String, Position, MaybeValue
    <3>2. G = WithOpen(H, before, i, "open", clears, v)
      BY DEF G, WithOpen
    <3>3. H \in HandlerState /\ clears \in Nat /\ "open" \in Control
      BY <1>1, Controls
    <3>4. /\ G \in HandlerState
          /\ G.pc = "open" /\ G.text = H.text /\ G.index = i /\ G.output = before
          /\ G.matches = H.matches /\ G.read = clears /\ G.failed = H.failed
          /\ G.ciphertext = v
      BY ONLY <3>1, <3>2, <3>3, SetOpen
    <3> QED
      BY <1>3, <3>4
  <2>4. Fits(G, clears)
    <3> HIDE DEF G, v
    <3> QED
      BY <1>1, <1>3, <1>4, <2>2, <2>3 DEF Fits
  <2> HIDE DEF G
  <2> QED
    BY <1>1, <1>7, <2>1, <2>3, <2>4
<1> QED
  BY <1>6, <1>7

LEMMA OpenCiphertextEffect ==
    ASSUME TypeInv, NEW h \in Handler, OpenCiphertext(h)
    PROVE  LET H == handler[h] IN
           /\ H.pc = "open"
           /\ \E G \in HandlerState :
                /\ handler' = [handler EXCEPT ![h] = G] /\ Fits(G, clears)
                /\ G.pc = "get" /\ G.text = H.text /\ G.index = H.index + 1
                /\ H.read = clears => /\ G.output = H.output \o H.ciphertext
                                      /\ G.failed = H.failed
                /\ H.read # clears => G.output = H.output \o <<H.text[H.index]>>
<1> DEFINE H == handler[h]
           v == IF H.read = clears THEN H.ciphertext ELSE <<H.text[H.index]>>
           G == [H EXCEPT !.pc = "get", !.ciphertext = None, !.index = @ + 1,
                          !.output = @ \o v, !.failed = @ \/ H.read # clears]
<1>1. H \in HandlerState /\ Fits(H, clears) /\ H.pc = "open" /\ clears \in Nat
  BY DEF TypeInv, VaultTypes, HandlersFit, OpenCiphertext
<1>2. handler' = [handler EXCEPT ![h] = G]
  BY DEF OpenCiphertext
<1>3. /\ H.text \in Seq(Element) /\ H.index \in Nat \ {0} /\ H.output \in Seq(Element)
      /\ H.matches = {} /\ H.index <= Len(H.text) /\ H.ciphertext \in Value
      /\ H.read \in Nat /\ H.read <= clears /\ H.failed \in BOOLEAN
  <2> HIDE DEF H
  <2> QED
    BY <1>1, HandlerTypes DEF Fits, String, Matches, Position
<1>4. v \in Seq(Element)
  <2> HIDE DEF H
  <2>1. H.ciphertext \in Seq(Element)
    BY <1>3, TextsAndWords
  <2>2. <<H.text[H.index]>> \in Seq(Element)
    BY <1>3
  <2> QED
    BY <2>1, <2>2
<1>5. /\ G \in HandlerState
      /\ G.pc = "get" /\ G.text = H.text /\ G.index = H.index + 1 /\ G.output = H.output \o v
      /\ G.matches = {} /\ G.read = H.read /\ G.ciphertext = None
      /\ G.failed = (H.failed \/ H.read # clears)
  <2> HIDE DEF H, v, G
  <2>1. /\ H.output \o v \in String /\ H.index + 1 \in Position
        /\ (H.failed \/ H.read # clears) \in BOOLEAN /\ None \in MaybeValue
    BY <1>3, <1>4 DEF String, Position, MaybeValue
  <2>2. G = WithOpened(H, H.output \o v, H.index + 1, "get", None, H.failed \/ H.read # clears)
    BY DEF G, WithOpened
  <2> DEFINE out == H.output \o v
             n == H.index + 1
             f == H.failed \/ H.read # clears
  <2>3. /\ H \in HandlerState /\ "get" \in Control /\ n \in Position /\ out \in String
        /\ f \in BOOLEAN /\ None \in MaybeValue /\ G = WithOpened(H, out, n, "get", None, f)
    BY <1>1, <2>1, <2>2, Controls
  <2> HIDE DEF out, n, f
  <2>4. /\ G \in HandlerState
        /\ G.pc = "get" /\ G.text = H.text /\ G.index = n /\ G.output = out
        /\ G.matches = H.matches /\ G.read = H.read /\ G.ciphertext = None /\ G.failed = f
    BY ONLY <2>3, SetOpened
  <2> QED
    BY <1>3, <2>4 DEF n, out, f
<1>6. Fits(G, clears)
  <2> HIDE DEF G, v
  <2> QED
    BY <1>1, <1>3, <1>5 DEF Fits
<1>7. H.read = clears => G.failed = H.failed
  BY <1>3, <1>5
<1> HIDE DEF G
<1> QED
  BY <1>1, <1>2, <1>5, <1>6, <1>7

LEMMA ReturnMaskedEffect ==
    ASSUME TypeInv, NEW h \in Handler, ReturnMasked(h)
    PROVE  LET H == handler[h] IN
           /\ H.pc = "mask" /\ H.matches = {}
           /\ handler' = [handler EXCEPT ![h] = Idle]
           /\ \E x \in Masking :
                 /\ seen' = seen \cup {x}
                 /\ x.original = H.text /\ x.spans = H.spans
                 /\ x.masked = H.output \o SubSeq(H.text, H.index, Len(H.text))
<1> DEFINE H == handler[h]
           out == H.output \o SubSeq(H.text, H.index, Len(H.text))
           x == [original |-> H.text, spans |-> H.spans, masked |-> out]
<1>1. H \in HandlerState /\ Fits(H, clears) /\ H.pc = "mask" /\ H.matches = {}
  BY DEF TypeInv, HandlersFit, ReturnMasked
<1>2. handler' = [handler EXCEPT ![h] = Idle] /\ seen' = seen \cup {x}
  BY DEF ReturnMasked
<1>3. /\ H.text \in Seq(Element) /\ H.index \in Nat \ {0} /\ H.output \in Seq(Element)
      /\ H.spans \in SUBSET Match /\ H.text \in Text
  <2> HIDE DEF H
  <2> QED
    BY <1>1, HandlerTypes DEF Fits, String, Matches, Position
<1>4. out \in Seq(Element)
  <2> HIDE DEF H
  <2>1. SubSeq(H.text, H.index, Len(H.text)) \in Seq(Element)
    BY <1>3
  <2> QED
    BY <1>3, <2>1
<1>5. x \in Masking /\ x.original = H.text /\ x.spans = H.spans /\ x.masked = out
  <2> HIDE DEF H, out
  <2> QED
    BY <1>3, <1>4 DEF Masking
<1> HIDE DEF x
<1> QED
  BY <1>1, <1>2, <1>5

LEMMA UnmaskTextEffect ==
    ASSUME TypeInv, NEW h \in Handler, NEW y \in seen, UnmaskText(h, y.masked)
    PROVE  \E G \in HandlerState :
              /\ handler' = [handler EXCEPT ![h] = G] /\ Fits(G, clears)
              /\ G.text = y.masked /\ G.index = 1 /\ G.failed = FALSE
              /\ (\A k \in Token : tokenToValue[k] = None) =>
                    G.pc = "restored" /\ G.output = y.masked
              /\ ~(\A k \in Token : tokenToValue[k] = None) =>
                    G.pc = "get" /\ G.output = <<>>
<1> DEFINE empty == \A k \in Token : tokenToValue[k] = None
           t == y.masked
           pc == IF empty THEN "restored" ELSE "get"
           out == IF empty THEN t ELSE <<>>
           G == [Idle EXCEPT !.text = t, !.pc = pc, !.output = out]
<1>1. handler' = [handler EXCEPT ![h] = G] /\ clears \in Nat
  BY DEF UnmaskText, TypeInv, VaultTypes
<1>2. t \in String
  BY DEF TypeInv, SeenFits, Masking, String
<1>3. pc \in Control /\ out \in String
  <2> HIDE DEF empty, t
  <2> QED
    BY <1>2, Controls DEF String
<1>4. G = WithUnmask(Idle, t, pc, out)
  BY DEF WithUnmask
<1> HIDE DEF G, t, pc, out
<1>5. /\ G \in HandlerState
      /\ G.pc = pc /\ G.text = t /\ G.matches = {} /\ G.index = 1 /\ G.output = out
      /\ G.ciphertext = None /\ G.read = 0 /\ G.failed = FALSE
  BY ONLY <1>2, <1>3, <1>4, IdleState, SetUnmask
<1>6. pc \in {"restored", "get"}
  BY DEF pc
<1>7. Fits(G, clears)
  BY <1>1, <1>2, <1>5, <1>6 DEF Fits, String
<1> HIDE DEF empty
<1> QED
  BY <1>1, <1>5, <1>7 DEF pc, out, t, empty

LEMMA ReturnRestoredEffect ==
    ASSUME TypeInv, NEW h \in Handler, ReturnRestored(h)
    PROVE  LET H == handler[h] IN
           /\ H.pc = "get" /\ TokensFrom(H.text, H.index) = {}
           /\ \E G \in HandlerState :
                /\ handler' = [handler EXCEPT ![h] = G] /\ Fits(G, clears)
                /\ G.pc = "restored" /\ G.text = H.text /\ G.index = H.index
                /\ ~H.failed => G.output = H.output \o SubSeq(H.text, H.index, Len(H.text))
                /\ H.failed => G.output = H.text
<1> DEFINE H == handler[h]
           out == IF H.failed THEN H.text ELSE H.output \o SubSeq(H.text, H.index, Len(H.text))
           G == [H EXCEPT !.pc = "restored", !.output = out]
<1>1. /\ H \in HandlerState /\ Fits(H, clears) /\ H.pc = "get"
      /\ TokensFrom(H.text, H.index) = {} /\ clears \in Nat
  BY DEF TypeInv, VaultTypes, HandlersFit, ReturnRestored
<1>2. handler' = [handler EXCEPT ![h] = G]
  BY DEF ReturnRestored
<1>3. /\ H.text \in Seq(Element) /\ H.index \in Nat \ {0} /\ H.output \in Seq(Element)
      /\ H.matches = {} /\ H.index <= Len(H.text) + 1 /\ H.read <= clears /\ H.ciphertext = None
  <2> HIDE DEF H
  <2> QED
    BY <1>1, HandlerTypes DEF Fits, String, Position
<1>4. out \in String
  <2> HIDE DEF H
  <2>1. SubSeq(H.text, H.index, Len(H.text)) \in Seq(Element)
    BY <1>3
  <2> QED
    BY <1>3, <2>1 DEF String
<1>5. G = WithOutput(H, out, "restored") /\ "restored" \in Control /\ H \in HandlerState
  BY <1>1, Controls DEF WithOutput
<1> HIDE DEF G, out, H
<1>6. /\ G \in HandlerState
      /\ G.pc = "restored" /\ G.text = H.text /\ G.matches = H.matches /\ G.index = H.index
      /\ G.output = out /\ G.ciphertext = H.ciphertext /\ G.read = H.read
  BY ONLY <1>4, <1>5, SetOutput
<1>7. Fits(G, clears)
  BY <1>1, <1>3, <1>6 DEF Fits
<1> QED
  BY <1>1, <1>2, <1>6, <1>7 DEF out, H

-------------------------------------------------------------------------------
\* The types are kept by every step.
LEMMA PutTypes ==
    ASSUME VaultTypes, NEW r \in Rule, NEW v \in Value, Put(r, v), UNCHANGED clears
    PROVE  VaultTypes'
<1>1. (clears > 0) \in BOOLEAN
  BY DEF VaultTypes
<1>2. NewToken(r, v) \in Token
  <2>1. Hash[clears > 0][v] \in Ref
    BY <1>1, MaskerAssumption
  <2> QED
    BY <2>1 DEF NewToken, Token
<1>3. TokenFor(r, v) \in Token
  BY <1>2 DEF TokenFor, VaultTypes
<1> QED
  BY <1>2, <1>3 DEF Put, VaultTypes

LEMMA HandlerTypesKept ==
    ASSUME TypeInv, NEW h \in Handler, Handle(h)
    PROVE  TypeInv'
<1> DEFINE H == handler[h]
<1> USE DEF TypeInv
<1>1. ASSUME NEW t \in Text, MaskText(h, t) PROVE TypeInv'
  <2>1. UNCHANGED <<tokenToValue, valueToToken, clears, seen>>
    BY <1>1 DEF MaskText, vault
  <2>2. VaultTypes' /\ SeenFits'
    BY <2>1 DEF VaultTypes, SeenFits
  <2>3. HandlersFit'
    BY <1>1, <2>1, MaskTextEffect, OneHandlerFits
  <2> QED
    BY <2>2, <2>3
<1>2. ASSUME ReplaceMatch(h) PROVE TypeInv'
  <2>1. UNCHANGED <<clears, seen>>
    BY <1>2 DEF ReplaceMatch
  <2>2. PICK m \in Foremost(H.matches), G \in HandlerState :
           /\ Put(m.rule, m.value)
           /\ handler' = [handler EXCEPT ![h] = G] /\ Fits(G, clears)
    BY <1>2, ReplaceMatchEffect
  <2>3. m.rule \in Rule /\ m.value \in Value
    <3>1. m \in H.matches /\ H.matches \in Matches
      BY HandlerTypes DEF Foremost, HandlersFit
    <3> QED
      BY <3>1 DEF Matches, Match
  <2>4. VaultTypes'
    BY <2>1, <2>2, <2>3, PutTypes
  <2>5. HandlersFit'
    BY <2>1, <2>2, OneHandlerFits
  <2>6. SeenFits'
    BY <2>1 DEF SeenFits
  <2> QED
    BY <2>4, <2>5, <2>6
<1>3. ASSUME ReturnMasked(h) PROVE TypeInv'
  <2>1. UNCHANGED <<tokenToValue, valueToToken, clears>>
    BY <1>3 DEF ReturnMasked, vault
  <2>2. VaultTypes'
    BY <2>1 DEF VaultTypes
  <2>3. Fits(Idle, clears)
    BY IdleFits DEF VaultTypes
  <2>4. HandlersFit'
    BY <1>3, <2>1, <2>3, ReturnMaskedEffect, OneHandlerFits
  <2>5. PICK x \in Masking : seen' = seen \cup {x} /\ x.original = H.text /\ x.spans = H.spans
    BY <1>3, ReturnMaskedEffect
  <2>6. H.spans \subseteq Scan(H.text)
    BY <1>3, ReturnMaskedEffect DEF HandlersFit, Fits
  <2>7. SeenFits'
    BY <2>5, <2>6 DEF SeenFits
  <2> QED
    BY <2>2, <2>4, <2>7
<1>4. ASSUME NEW x \in seen, UnmaskText(h, x.masked) PROVE TypeInv'
  <2>1. UNCHANGED <<tokenToValue, valueToToken, clears, seen>>
    BY <1>4 DEF UnmaskText, vault
  <2>2. VaultTypes' /\ SeenFits'
    BY <2>1 DEF VaultTypes, SeenFits
  <2>3. HandlersFit'
    BY <1>4, <2>1, UnmaskTextEffect, OneHandlerFits
  <2> QED
    BY <2>2, <2>3
<1>5. ASSUME GetToken(h) PROVE TypeInv'
  <2>1. UNCHANGED <<tokenToValue, valueToToken, clears, seen>>
    BY <1>5 DEF GetToken, vault
  <2>2. VaultTypes' /\ SeenFits'
    BY <2>1 DEF VaultTypes, SeenFits
  <2>3. HandlersFit'
    BY <1>5, <2>1, GetTokenEffect, OneHandlerFits
  <2> QED
    BY <2>2, <2>3
<1>6. ASSUME OpenCiphertext(h) PROVE TypeInv'
  <2>1. UNCHANGED <<tokenToValue, valueToToken, clears, seen>>
    BY <1>6 DEF OpenCiphertext, vault
  <2>2. VaultTypes' /\ SeenFits'
    BY <2>1 DEF VaultTypes, SeenFits
  <2>3. HandlersFit'
    BY <1>6, <2>1, OpenCiphertextEffect, OneHandlerFits
  <2> QED
    BY <2>2, <2>3
<1>7. ASSUME ReturnRestored(h) PROVE TypeInv'
  <2>1. UNCHANGED <<tokenToValue, valueToToken, clears, seen>>
    BY <1>7 DEF ReturnRestored, vault
  <2>2. VaultTypes' /\ SeenFits'
    BY <2>1 DEF VaultTypes, SeenFits
  <2>3. HandlersFit'
    BY <1>7, <2>1, ReturnRestoredEffect, OneHandlerFits
  <2> QED
    BY <2>2, <2>3
<1> QED
  BY <1>1, <1>2, <1>3, <1>4, <1>5, <1>6, <1>7 DEF Handle

LEMMA TypeNext == TypeInv /\ [Next]_vars => TypeInv'
<1> SUFFICES ASSUME TypeInv, [Next]_vars PROVE TypeInv'
  OBVIOUS
<1>1. CASE Clear
  <2>1. VaultTypes'
    BY <1>1, MaskerAssumption DEF Clear, TypeInv, VaultTypes
  <2>2. HandlersFit'
    <3>1. clears \in Nat /\ clears' = clears + 1 /\ handler' = handler
      BY <1>1, MaskerAssumption DEF Clear, TypeInv, VaultTypes
    <3>2. ASSUME NEW h \in Handler PROVE Fits(handler[h], clears + 1)
      BY <3>1, HandlerTypes DEF TypeInv, HandlersFit, Fits
    <3> QED
      BY <3>1, <3>2 DEF TypeInv, HandlersFit
  <2>3. SeenFits'
    BY <1>1 DEF Clear, TypeInv, SeenFits
  <2> QED
    BY <2>1, <2>2, <2>3 DEF TypeInv
<1>2. ASSUME NEW h \in Handler, Handle(h) PROVE TypeInv'
  BY <1>2, HandlerTypesKept
<1>3. CASE UNCHANGED vars
  BY <1>3 DEF vars, vault, TypeInv, VaultTypes, HandlersFit, SeenFits
<1> QED
  BY <1>1, <1>2, <1>3 DEF Next

LEMMA TypeInvariant == Spec => []TypeInv
BY TypeInit, TypeNext, PTL DEF Spec

\* The variables have their types, and no handler is past a match it has yet to
\* replace: Put and Get are called with what the rules and the texts hold.
THEOREM TypeCorrect == Spec => []TypeOK
<1>1. TypeInv => TypeOK
  <2> SUFFICES ASSUME TypeInv PROVE TypeOK
    OBVIOUS
  <2>1. VaultTypes
    BY DEF TypeInv
  <2>2. ASSUME NEW h \in Handler
        PROVE  LET H == handler[h] IN
               /\ DOMAIN H = DOMAIN Idle
               /\ H.pc \in Control
               /\ H.text \in Seq(Element) /\ H.output \in Seq(Element)
               /\ H.index \in 1 .. Len(H.text) + 1
               /\ H.matches \subseteq Match /\ H.spans \subseteq Match
               /\ \A m \in H.matches : m.start >= H.index
               /\ H.read \in 0 .. clears /\ H.failed \in BOOLEAN
               /\ H.ciphertext \in (IF H.pc = "open" THEN Value ELSE {None})
    <3> DEFINE H == handler[h]
    <3>1. H \in HandlerState /\ Fits(H, clears) /\ clears \in Nat
      BY DEF TypeInv, HandlersFit, VaultTypes
    <3>2. DOMAIN H = DOMAIN Idle
      BY <3>1 DEF HandlerState, Idle
    <3> HIDE DEF H
    <3>3. \A m \in H.matches : m.start >= H.index
      BY <3>1 DEF Fits
    <3>4. H.text \in Seq(Element) => Len(H.text) \in Nat
      OBVIOUS
    <3> QED
      BY <3>1, <3>2, <3>3, <3>4, HandlerTypes DEF Fits, String, Matches, Position, H
  <2>3. \A x \in seen : x.original \in Text /\ x.spans \subseteq Match /\ x.masked \in Seq(Element)
    BY DEF TypeInv, SeenFits, Masking
  <2> QED
    BY <2>1, <2>2, <2>3 DEF TypeOK, VaultTypes, Control
<1> QED
  BY <1>1, TypeInvariant, PTL

-------------------------------------------------------------------------------
(***************************************************************************)
(* The two maps of the vault agree.  This is not inductive: a Put writes   *)
(* the entry of a token that is new for its value, and must know that no   *)
(* other value has it.  So VaultInv adds that every token ends in the      *)
(* suffix of its value under the key in use.                               *)
(***************************************************************************)
TokensAreNamed ==
    \A v \in Value : valueToToken[v] # None => valueToToken[v].ref = Hash[clears > 0][v]

VaultInv == TokensAreNamed /\ MapsAgree

LEMMA VaultInit == Init => VaultInv
<1> SUFFICES ASSUME Init PROVE VaultInv
  OBVIOUS
<1>1. TokensAreNamed
  BY DEF Init, TokensAreNamed
<1>2. MapsAgree
  <2> SUFFICES ASSUME NEW v \in Value, NEW t \in Token
               PROVE  valueToToken[v] = t <=> tokenToValue[t] = v
    BY DEF MapsAgree
  <2>1. valueToToken[v] = None /\ tokenToValue[t] = None
    BY DEF Init
  <2> QED
    BY <2>1, MaskerAssumption, NoneIsNoToken
<1> QED
  BY <1>1, <1>2 DEF VaultInv

\* Put keeps the maps in agreement.
LEMMA PutKeepsAgreement ==
    ASSUME NoCollision, VaultTypes, TokensAreNamed, MapsAgree,
           NEW r \in Rule, NEW v \in Value, Put(r, v), UNCHANGED clears
    PROVE  VaultTypes' /\ TokensAreNamed' /\ MapsAgree'
<1> DEFINE k == NewToken(r, v)
           key == clears > 0
<1>1. key \in BOOLEAN
  BY DEF VaultTypes
<1>2. k \in Token /\ k.ref = Hash[key][v]
  BY <1>1, MaskerAssumption DEF NewToken, Token
<1>3. CASE valueToToken[v] # None
  <2>1. tokenToValue' = tokenToValue
    BY <1>3 DEF Put
  <2>2. valueToToken' = [valueToToken EXCEPT ![v] = valueToToken[v]]
    BY <1>3 DEF Put, TokenFor
  <2>3. valueToToken' = valueToToken
    BY <2>2 DEF VaultTypes
  <2> QED
    BY <2>1, <2>3 DEF VaultTypes, TokensAreNamed, MapsAgree
<1>4. CASE valueToToken[v] = None
  <2> HIDE DEF k, key
  <2>1. tokenToValue' = [tokenToValue EXCEPT ![k] = v]
    BY <1>4 DEF Put, k
  <2>2. valueToToken' = [valueToToken EXCEPT ![v] = k]
    BY <1>4 DEF Put, TokenFor, k
  <2>3. VaultTypes'
    BY <2>1, <2>2, <1>2 DEF VaultTypes
  <2>4. TokensAreNamed'
    <3> SUFFICES ASSUME NEW w \in Value, valueToToken'[w] # None
                 PROVE  valueToToken'[w].ref = Hash[clears' > 0][w]
      BY DEF TokensAreNamed
    <3>1. CASE w = v
      <4>1. valueToToken'[w] = k
        BY <3>1, <2>2 DEF VaultTypes
      <4> QED
        BY <4>1, <3>1, <1>2 DEF key
    <3>2. CASE w # v
      <4>1. valueToToken'[w] = valueToToken[w]
        BY <3>2, <2>2 DEF VaultTypes
      <4> QED
        BY <4>1 DEF TokensAreNamed
    <3> QED
      BY <3>1, <3>2
  \* No other value has the new token: it would have the same suffix.
  <2>5. \A w \in Value : w # v => valueToToken[w] # k
    <3> SUFFICES ASSUME NEW w \in Value, w # v, valueToToken[w] = k PROVE FALSE
      OBVIOUS
    <3>1. k # None
      BY <1>2, NoneIsNoToken
    <3>2. Hash[key][w] = Hash[key][v]
      BY <3>1, <1>2 DEF TokensAreNamed, key
    <3> QED
      BY <3>2, <1>1 DEF NoCollision
  <2>6. MapsAgree'
    <3> SUFFICES ASSUME NEW w \in Value, NEW t \in Token
                 PROVE  valueToToken'[w] = t <=> tokenToValue'[t] = w
      BY DEF MapsAgree
    <3>1. valueToToken'[w] = IF w = v THEN k ELSE valueToToken[w]
      BY <2>2 DEF VaultTypes
    <3>2. tokenToValue'[t] = IF t = k THEN v ELSE tokenToValue[t]
      BY <2>1 DEF VaultTypes
    <3>3. valueToToken[w] = t <=> tokenToValue[t] = w
      BY DEF MapsAgree
    <3>4. valueToToken[v] # t
      BY <1>4, NoneIsNoToken
    <3>5. tokenToValue[t] # v
      BY <3>4 DEF MapsAgree
    <3>6. CASE w = v
      BY <3>6, <3>1, <3>2, <3>5
    <3>7. CASE w # v
      BY <3>7, <3>1, <3>2, <3>3, <2>5
    <3> QED
      BY <3>6, <3>7
  <2> QED
    BY <2>3, <2>4, <2>6
<1> QED
  BY <1>3, <1>4

\* Clear empties both maps, under the new key as under the old.
LEMMA ClearKeepsAgreement ==
    ASSUME Clear
    PROVE  VaultInv'
<1>1. TokensAreNamed'
  BY DEF TokensAreNamed, Clear
<1>2. MapsAgree'
  <2> SUFFICES ASSUME NEW v \in Value, NEW t \in Token
               PROVE  valueToToken'[v] = t <=> tokenToValue'[t] = v
    BY DEF MapsAgree
  <2>1. valueToToken'[v] = None /\ tokenToValue'[t] = None
    BY DEF Clear
  <2> QED
    BY <2>1, MaskerAssumption, NoneIsNoToken
<1> QED
  BY <1>1, <1>2 DEF VaultInv

\* Only Clear and the replacement of a match change the vault.
LEMMA VaultChanges ==
    ASSUME TypeInv, [Next]_vars
    PROVE  \/ Clear
           \/ \E h \in Handler : ReplaceMatch(h)
           \/ UNCHANGED vault
<1>1. ASSUME NEW h \in Handler, Handle(h), ~ReplaceMatch(h) PROVE UNCHANGED vault
  BY <1>1 DEF Handle, MaskText, ReturnMasked, UnmaskText, GetToken, OpenCiphertext,
              ReturnRestored
<1> QED
  BY <1>1 DEF Next, vars

\* The replacement of a match puts a word of a rule into the vault.
LEMMA ReplaceMatchPuts ==
    ASSUME TypeInv, NEW h \in Handler, ReplaceMatch(h)
    PROVE  /\ UNCHANGED clears
           /\ \E r \in Rule, v \in Value : Put(r, v)
<1>1. PICK m \in Foremost(handler[h].matches) : Put(m.rule, m.value)
  BY ReplaceMatchEffect
<1>2. m \in Match
  BY HandlerTypes DEF Foremost, TypeInv, HandlersFit, Matches
<1> QED
  BY <1>1, <1>2 DEF Match, ReplaceMatch

LEMMA VaultNext ==
    ASSUME NoCollision
    PROVE  TypeInv /\ VaultInv /\ [Next]_vars => VaultInv'
<1> SUFFICES ASSUME TypeInv, VaultInv, [Next]_vars PROVE VaultInv'
  OBVIOUS
<1>1. CASE Clear
  BY <1>1, ClearKeepsAgreement
<1>2. ASSUME NEW h \in Handler, ReplaceMatch(h) PROVE VaultInv'
  BY <1>2, ReplaceMatchPuts, PutKeepsAgreement DEF TypeInv, VaultInv
<1>3. CASE UNCHANGED vault
  BY <1>3 DEF vault, VaultInv, TokensAreNamed, MapsAgree
<1> QED
  BY <1>1, <1>2, <1>3, VaultChanges

LEMMA VaultInvariant ==
    ASSUME NoCollision
    PROVE  Spec => [](TypeInv /\ VaultInv)
<1>1. TypeInv /\ VaultInv /\ [Next]_vars => TypeInv' /\ VaultInv'
  BY TypeNext, VaultNext
<1> QED
  BY TypeInit, VaultInit, <1>1, PTL DEF Spec

\* If no two values have the same suffix, the vault gives for every token the
\* value it was made for, and for every value one token, for all handlers.
THEOREM VaultIsABijection ==
    ASSUME NoCollision
    PROVE  Spec => []MapsAgree
<1>1. VaultInv => MapsAgree
  BY DEF VaultInv
<1> QED
  BY <1>1, VaultInvariant, PTL

-------------------------------------------------------------------------------
(***************************************************************************)
(* No match is left whole.  What makes this inductive is why a match is    *)
(* dropped: one that comes before it in the order of resolveOverlaps, and  *)
(* was replaced, ends after it begins.                                     *)
(***************************************************************************)
Precedes(s, m) == s.start < m.start \/ (s.start = m.start /\ s.end >= m.end)

Resolved(t, M, S) ==
    /\ \A m \in Scan(t) : m \in M \/ \E s \in S : Precedes(s, m) /\ m.start < s.end
    /\ \A s, u \in S : s = u \/ s.end <= u.start \/ u.end <= s.start

ResolvedInv ==
    /\ \A h \in Handler : LET H == handler[h] IN
          H.pc = "mask" => /\ Resolved(H.text, H.matches, H.spans)
                           /\ \A s \in H.spans : s.end <= H.index
    /\ \A x \in seen : Resolved(x.original, {}, x.spans)

LEMMA ResolvedInit == Init => ResolvedInv
BY DEF Init, ResolvedInv, Idle

\* The replacement of the foremost match, after all that were replaced before.
LEMMA ResolvedMore ==
    ASSUME NEW t \in Seq(Element), NEW M, NEW S, M \cup S \subseteq Scan(t), Resolved(t, M, S),
           NEW m \in Foremost(M), \A s \in S : s.end <= m.start
    PROVE  /\ Resolved(t, {x \in M : x.start >= m.end}, S \cup {m})
           /\ \A s \in S \cup {m} : s.end <= m.end
<1> DEFINE N == {x \in M : x.start >= m.end}
           R == S \cup {m}
<1>1. \A x \in M \cup S : x.start \in Nat /\ x.end \in Nat /\ x.start < x.end
  BY ScanFinds
<1>2. m \in M /\ \A x \in M : Precedes(m, x)
  BY DEF Foremost, Precedes
<1>3. ASSUME NEW q \in Scan(t) PROVE q \in N \/ \E s \in R : Precedes(s, q) /\ q.start < s.end
  <2>1. CASE q \in M
    <3>1. q \in N \/ q.start < m.end
      BY <2>1, <1>1, <1>2
    <3> QED
      BY <2>1, <3>1, <1>2
  <2>2. CASE q \notin M
    BY <2>2 DEF Resolved
  <2> QED
    BY <2>1, <2>2
<1>4. ASSUME NEW s \in R, NEW u \in R PROVE s = u \/ s.end <= u.start \/ u.end <= s.start
  <2>1. CASE s \in S /\ u \in S
    BY <2>1 DEF Resolved
  <2> QED
    BY <2>1
<1>5. \A s \in R : s.end <= m.end
  BY <1>1, <1>2
<1> QED
  BY <1>3, <1>4, <1>5 DEF Resolved

\* A step of a handler that does not end in "mask" and returns no masking.
LEMMA ResolvedElsewhere ==
    ASSUME ResolvedInv, TypeInv, NEW h \in Handler, NEW G, handler' = [handler EXCEPT ![h] = G],
           G.pc # "mask", UNCHANGED seen
    PROVE  ResolvedInv'
BY DEF ResolvedInv, TypeInv, HandlersFit

LEMMA ResolvedNext == TypeInv /\ ResolvedInv /\ [Next]_vars => ResolvedInv'
<1> SUFFICES ASSUME TypeInv, ResolvedInv, [Next]_vars PROVE ResolvedInv'
  OBVIOUS
<1>1. ASSUME NEW h \in Handler, NEW t \in Text, MaskText(h, t) PROVE ResolvedInv'
  <2>1. UNCHANGED seen
    BY <1>1 DEF MaskText
  <2>2. PICK G \in HandlerState :
           /\ handler' = [handler EXCEPT ![h] = G]
           /\ G.text = t /\ G.spans = {} /\ G.matches = Scan(t)
    BY <1>1, MaskTextEffect
  <2>3. Resolved(G.text, G.matches, G.spans) /\ \A s \in G.spans : s.end <= G.index
    BY <2>2 DEF Resolved
  <2> QED
    BY <2>1, <2>2, <2>3 DEF ResolvedInv, TypeInv, HandlersFit
<1>2. ASSUME NEW h \in Handler, ReplaceMatch(h) PROVE ResolvedInv'
  <2> DEFINE H == handler[h]
  <2>1. UNCHANGED seen
    BY <1>2 DEF ReplaceMatch
  <2>2. PICK m \in Foremost(H.matches), G \in HandlerState :
           /\ handler' = [handler EXCEPT ![h] = G]
           /\ G.text = H.text /\ G.index = m.end
           /\ G.matches = {x \in H.matches : x.start >= m.end}
           /\ G.spans = H.spans \cup {m}
    BY <1>2, ReplaceMatchEffect
  <2>3. /\ H.pc = "mask" /\ Fits(H, clears) /\ H \in HandlerState
        /\ Resolved(H.text, H.matches, H.spans) /\ \A s \in H.spans : s.end <= H.index
    BY <1>2 DEF ReplaceMatch, ResolvedInv, TypeInv, HandlersFit
  <2>4. /\ H.text \in Seq(Element) /\ H.matches \cup H.spans \subseteq Scan(H.text)
        /\ m.start >= H.index /\ H.index \in Nat
    BY <2>3, HandlerTypes DEF Fits, Foremost, String, Position
  <2>5. \A s \in H.spans : s.end <= m.start
    <3> HIDE DEF H
    <3>1. m \in H.matches
      BY DEF Foremost
    <3> QED
      BY <3>1, <2>3, <2>4, ScanFinds
  <2>6. Resolved(G.text, G.matches, G.spans) /\ \A s \in G.spans : s.end <= G.index
    <3> DEFINE t == H.text
               M == H.matches
               S == H.spans
               N == {x \in M : x.start >= m.end}
    <3>1. /\ t \in Seq(Element) /\ M \cup S \subseteq Scan(t) /\ Resolved(t, M, S)
          /\ m \in Foremost(M) /\ \A s \in S : s.end <= m.start
      BY <2>3, <2>4, <2>5
    <3> HIDE DEF H, t, M, S
    <3>2. Resolved(t, N, S \cup {m}) /\ \A s \in S \cup {m} : s.end <= m.end
      BY ONLY <3>1, ResolvedMore DEF N
    <3>3. G.text = t /\ G.matches = N /\ G.spans = S \cup {m} /\ G.index = m.end
      BY <2>2 DEF t, M, S
    <3> HIDE DEF N
    <3> QED
      BY <3>2, <3>3
  <2> QED
    BY <2>1, <2>2, <2>6 DEF ResolvedInv, TypeInv, HandlersFit
<1>3. ASSUME NEW h \in Handler, ReturnMasked(h) PROVE ResolvedInv'
  <2> DEFINE H == handler[h]
  <2>1. PICK x \in Masking : seen' = seen \cup {x} /\ x.original = H.text /\ x.spans = H.spans
    BY <1>3, ReturnMaskedEffect
  <2>2. H.pc = "mask" /\ H.matches = {} /\ handler' = [handler EXCEPT ![h] = Idle]
    BY <1>3, ReturnMaskedEffect
  <2>3. Resolved(x.original, {}, x.spans)
    BY <2>1, <2>2 DEF ResolvedInv
  <2> QED
    BY <2>1, <2>2, <2>3, IdleState DEF ResolvedInv, TypeInv, HandlersFit
<1>4. ASSUME NEW h \in Handler, NEW x \in seen, UnmaskText(h, x.masked) PROVE ResolvedInv'
  <2>1. UNCHANGED seen
    BY <1>4 DEF UnmaskText
  <2> QED
    BY <1>4, <2>1, UnmaskTextEffect, ResolvedElsewhere
<1>5. ASSUME NEW h \in Handler, GetToken(h) PROVE ResolvedInv'
  <2>1. UNCHANGED seen
    BY <1>5 DEF GetToken
  <2> QED
    BY <1>5, <2>1, GetTokenEffect, ResolvedElsewhere
<1>6. ASSUME NEW h \in Handler, OpenCiphertext(h) PROVE ResolvedInv'
  <2>1. UNCHANGED seen
    BY <1>6 DEF OpenCiphertext
  <2> QED
    BY <1>6, <2>1, OpenCiphertextEffect, ResolvedElsewhere
<1>7. ASSUME NEW h \in Handler, ReturnRestored(h) PROVE ResolvedInv'
  <2>1. UNCHANGED seen
    BY <1>7 DEF ReturnRestored
  <2> QED
    BY <1>7, <2>1, ReturnRestoredEffect, ResolvedElsewhere
<1>8. CASE UNCHANGED <<handler, seen>>
  BY <1>8 DEF ResolvedInv
<1> QED
  BY <1>1, <1>2, <1>3, <1>4, <1>5, <1>6, <1>7, <1>8 DEF Next, Handle, Clear, vars

\* No match leaves MaskText whole, and no text is replaced twice, whatever the
\* rules find and however their words overlap.
THEOREM NothingLeavesWhole == Spec => []NoMatchLeavesWhole
<1>1. TypeInv /\ ResolvedInv => NoMatchLeavesWhole
  <2> SUFFICES ASSUME TypeInv, ResolvedInv, NEW x \in seen
               PROVE  /\ \A m \in Scan(x.original) :
                            \E s \in x.spans : s.start < m.end /\ m.start < s.end
                      /\ \A s, u \in x.spans : s = u \/ s.end <= u.start \/ u.end <= s.start
    BY DEF NoMatchLeavesWhole
  <2>1. Resolved(x.original, {}, x.spans)
    BY DEF ResolvedInv
  <2>2. x.original \in Seq(Element) /\ x.spans \subseteq Scan(x.original)
    BY TextsAndWords DEF TypeInv, SeenFits, Masking
  <2>3. ASSUME NEW m \in Scan(x.original)
        PROVE  \E s \in x.spans : s.start < m.end /\ m.start < s.end
    <3>1. PICK s \in x.spans : Precedes(s, m) /\ m.start < s.end
      BY <2>1 DEF Resolved
    <3>2. s.start \in Nat /\ m.start \in Nat /\ m.end \in Nat /\ m.start < m.end
      BY <2>2, ScanFinds
    <3>3. s.start < m.end
      BY <3>1, <3>2 DEF Precedes
    <3> QED
      BY <3>1, <3>3
  <2> QED
    BY <2>1, <2>3 DEF Resolved
<1>2. TypeInv /\ ResolvedInv /\ [Next]_vars => TypeInv' /\ ResolvedInv'
  BY TypeNext, ResolvedNext
<1> QED
  BY TypeInit, ResolvedInit, <1>1, <1>2, PTL DEF Spec

-------------------------------------------------------------------------------
(***************************************************************************)
(* What a masked text stands for.  Masks says that t is the text u up to   *)
(* e, with the words at S replaced by the tokens they have in tok: cut     *)
(* gives, for every element of t, where in u that begins which it stands   *)
(* for.                                                                    *)
(***************************************************************************)
StandsFor(tok, k, u, S, from, to) ==
    \/ \E s \in S : s.start = from /\ s.end = to /\ k = tok[s.value]
    \/ to = from + 1 /\ k = u[from] /\ \A s \in S : s.start # from

Masks(tok, t, u, S, cut, e) ==
    /\ cut \in [1 .. Len(t) + 1 -> 1 .. e] /\ cut[1] = 1 /\ cut[Len(t) + 1] = e
    /\ \A i \in 1 .. Len(t) :
          cut[i] < e /\ StandsFor(tok, t[i], u, S, cut[i], cut[i + 1])

LEMMA MasksNothing ==
    ASSUME NEW tok, NEW u, NEW S
    PROVE  \E cut : Masks(tok, <<>>, u, S, cut, 1)
<1>1. Masks(tok, <<>>, u, S, [i \in 1 .. 1 |-> 1], 1)
  BY DEF Masks
<1> QED
  BY <1>1

\* The text between the words is copied.
LEMMA MasksCopied ==
    ASSUME NEW tok, NEW t \in Seq(Element), NEW u \in Seq(Element), NEW S, NEW cut,
           NEW e \in Nat \ {0}, NEW j \in e .. Len(u) + 1,
           Masks(tok, t, u, S, cut, e), \A s \in S : s.start \in Nat /\ s.start < e
    PROVE  \E c : Masks(tok, t \o SubSeq(u, e, j - 1), u, S, c, j)
<1> DEFINE n == Len(t)
           p == SubSeq(u, e, j - 1)
           w == t \o p
           c == [i \in 1 .. Len(w) + 1 |-> IF i <= n THEN cut[i] ELSE e + (i - n) - 1]
<1>1. /\ n \in Nat /\ p \in Seq(Element) /\ Len(p) = j - e
      /\ \A i \in 1 .. j - e : p[i] = u[e + i - 1]
  OBVIOUS
<1>2. Len(w) = n + (j - e) /\ w \in Seq(Element)
  BY <1>1
<1>3. \A i \in 1 .. n : w[i] = t[i]
  BY <1>1
<1>4. \A i \in n + 1 .. Len(w) : w[i] = u[e + (i - n) - 1]
  BY <1>1, <1>2
<1>5. /\ cut \in [1 .. n + 1 -> 1 .. e] /\ cut[1] = 1 /\ cut[n + 1] = e
      /\ \A i \in 1 .. n :
            cut[i] < e /\ StandsFor(tok, t[i], u, S, cut[i], cut[i + 1])
  BY DEF Masks
<1> HIDE DEF n, p, w
<1>6. c \in [1 .. Len(w) + 1 -> 1 .. j]
  BY <1>1, <1>2, <1>5, SMTT(20)
<1>7. c[1] = 1 /\ c[Len(w) + 1] = j
  <2>1. 1 \in 1 .. Len(w) + 1 /\ Len(w) + 1 \in 1 .. Len(w) + 1
    BY <1>1, <1>2
  <2> QED
    BY <2>1, <1>1, <1>2, <1>5
<1>8. ASSUME NEW i \in 1 .. Len(w)
      PROVE  c[i] < j /\ StandsFor(tok, w[i], u, S, c[i], c[i + 1])
  <2>1. i \in 1 .. Len(w) + 1 /\ i + 1 \in 1 .. Len(w) + 1
    BY <1>1, <1>2
  <2>2. CASE i <= n
    <3>1. c[i] = cut[i]
      BY <2>1, <2>2
    <3>2. c[i + 1] = cut[i + 1]
      BY <2>1, <2>2, <1>1, <1>5, SMTT(20)
    <3>3. i \in 1 .. n
      BY <2>2, <1>1
    <3>4. cut[i] < e /\ cut[i] \in Nat
      BY <3>3, <1>1, <1>5
    <3> QED
      BY <3>1, <3>2, <3>3, <3>4, <1>3, <1>5
  <2>3. CASE ~ (i <= n)
    <3>1. c[i] = e + (i - n) - 1 /\ c[i + 1] = e + (i - n)
      <4>1. c[i] = e + (i - n) - 1
        BY <2>1, <2>3
      <4>2. ~(i + 1 <= n)
        BY <2>3, <1>1
      <4>3. c[i + 1] = e + ((i + 1) - n) - 1
        BY <2>1, <4>2
      <4>4. e + ((i + 1) - n) - 1 = e + (i - n)
        BY <1>1
      <4> QED
        BY <4>1, <4>3, <4>4
    <3>2. i \in n + 1 .. Len(w) /\ c[i] \in e .. j - 1 /\ c[i + 1] = c[i] + 1
      BY <3>1, <2>3, <1>1, <1>2
    <3>3. w[i] = u[c[i]] /\ \A s \in S : s.start # c[i]
      BY <3>1, <3>2, <1>4
    <3> QED
      BY <3>2, <3>3 DEF StandsFor
  <2> QED
    BY <2>2, <2>3
<1> HIDE DEF c
<1>9. Masks(tok, w, u, S, c, j)
  BY <1>6, <1>7, <1>8 DEF Masks
<1> QED
  BY <1>9 DEF w, p

\* A word is replaced by its token.
LEMMA MasksReplaced ==
    ASSUME NEW tok, NEW tok2, NEW t \in Seq(Element), NEW u \in Seq(Element), NEW S, NEW cut,
           NEW m \in Scan(u), tok2[m.value] \in Element,
           Masks(tok, t, u, S, cut, m.start), \A s \in S : tok2[s.value] = tok[s.value]
    PROVE  \E c : Masks(tok2, Append(t, tok2[m.value]), u, S \cup {m}, c, m.end)
<1> DEFINE n == Len(t)
           k == tok2[m.value]
           w == Append(t, k)
           c == [i \in 1 .. n + 2 |-> IF i <= n + 1 THEN cut[i] ELSE m.end]
           R == S \cup {m}
<1>1. m.start \in Nat /\ m.end \in Nat /\ m.start < m.end /\ m.start > 0
  BY ScanFinds
<1>2. n \in Nat /\ Len(w) = n + 1 /\ w[n + 1] = k /\ \A i \in 1 .. n : w[i] = t[i]
  OBVIOUS
<1>3. /\ cut \in [1 .. n + 1 -> 1 .. m.start] /\ cut[1] = 1 /\ cut[n + 1] = m.start
      /\ \A i \in 1 .. n :
            cut[i] < m.start /\ StandsFor(tok, t[i], u, S, cut[i], cut[i + 1])
  BY DEF Masks
<1> HIDE DEF n, w, k
<1>4. c \in [1 .. n + 2 -> 1 .. m.end] /\ c[1] = 1 /\ c[n + 2] = m.end /\ c[n + 1] = m.start
  BY <1>1, <1>2, <1>3
<1>5. ASSUME NEW i \in 1 .. n + 1
      PROVE  c[i] < m.end /\ StandsFor(tok2, w[i], u, R, c[i], c[i + 1])
  <2>1. CASE i = n + 1
    <3>1. c[i] = m.start /\ c[i + 1] = m.end /\ w[i] = tok2[m.value] /\ m \in R
      BY <2>1, <1>2, <1>4 DEF k
    <3> HIDE DEF c, R
    <3> QED
      BY <3>1, <1>1 DEF StandsFor
  <2>2. CASE i # n + 1
    <3>1. /\ i \in 1 .. n /\ c[i] = cut[i] /\ c[i + 1] = cut[i + 1] /\ w[i] = t[i]
          /\ cut[i] \in Nat /\ cut[i] < m.start
      BY <2>2, <1>2, <1>3
    <3>2. StandsFor(tok, t[i], u, S, cut[i], cut[i + 1])
      BY <3>1, <1>3
    <3>3. StandsFor(tok2, t[i], u, R, cut[i], cut[i + 1])
      <4>1. m.start # cut[i]
        BY <3>1, <1>1
      <4> QED
        BY <3>2, <4>1 DEF StandsFor
    <3> HIDE DEF c, R
    <3> QED
      BY <3>1, <3>3, <1>1
  <2> QED
    BY <2>1, <2>2
<1> HIDE DEF c, R
<1>6. Masks(tok2, w, u, R, c, m.end)
  BY <1>2, <1>4, <1>5 DEF Masks
<1> QED
  BY <1>6 DEF w, k, R

\* The tokens of the words at S are all that matters of tok.
LEMMA MasksStays ==
    ASSUME NEW tok, NEW tok2, NEW t, NEW u, NEW S, NEW cut, NEW e,
           Masks(tok, t, u, S, cut, e), \A s \in S : tok2[s.value] = tok[s.value]
    PROVE  Masks(tok2, t, u, S, cut, e)
BY DEF Masks, StandsFor

-------------------------------------------------------------------------------
\* As long as the vault is not cleared, what is being masked and what was masked
\* stands for its text, with the tokens the words have in the vault.
MaskInv ==
    clears = 0 =>
      /\ \A h \in Handler : LET H == handler[h] IN
            H.pc = "mask" =>
               /\ \A s \in H.spans : valueToToken[s.value] # None
               /\ \E cut : Masks(valueToToken, H.output, H.text, H.spans, cut, H.index)
      /\ \A x \in seen :
            /\ \A s \in x.spans : valueToToken[s.value] # None
            /\ \E cut : Masks(valueToToken, x.masked, x.original, x.spans, cut, Len(x.original) + 1)

LEMMA MaskInit == Init => MaskInv
BY IdleState DEF Init, MaskInv

\* A step that leaves the vault and the maskings alone, and does not end in the
\* middle of one.
LEMMA MaskElsewhere ==
    ASSUME MaskInv, TypeInv, NEW h \in Handler, NEW G, handler' = [handler EXCEPT ![h] = G],
           G.pc # "mask", UNCHANGED <<vault, seen>>
    PROVE  MaskInv'
<1> SUFFICES ASSUME clears' = 0 PROVE MaskInv'
  BY DEF MaskInv
<1>1. clears = 0 /\ valueToToken' = valueToToken /\ seen' = seen
  BY DEF vault
<1>2. \A g \in Handler : handler'[g] = IF g = h THEN G ELSE handler[g]
  BY DEF TypeInv, HandlersFit
<1> QED
  BY <1>1, <1>2 DEF MaskInv

\* A value that has a token keeps it.
LEMMA PutKeepsTokens ==
    ASSUME VaultTypes, NEW r, NEW v \in Value, Put(r, v)
    PROVE  /\ \A w \in Value : valueToToken[w] # None => valueToToken'[w] = valueToToken[w]
           /\ valueToToken'[v] = TokenFor(r, v)
BY DEF VaultTypes, Put, TokenFor

LEMMA MaskReplace ==
    ASSUME TypeInv, ResolvedInv, MaskInv, NEW h \in Handler, ReplaceMatch(h)
    PROVE  MaskInv'
<1> SUFFICES ASSUME clears' = 0 PROVE MaskInv'
  BY DEF MaskInv
<1> DEFINE H == handler[h]
           S == H.spans
           u == H.text
<1>1. seen' = seen /\ clears = 0
  BY DEF ReplaceMatch
<1>2. PICK m \in Foremost(H.matches), G \in HandlerState :
         /\ Put(m.rule, m.value)
         /\ TokenFor(m.rule, m.value) \in Token
         /\ handler' = [handler EXCEPT ![h] = G]
         /\ G.pc = "mask" /\ G.text = u /\ G.index = m.end
         /\ G.output = Append(H.output \o SubSeq(u, H.index, m.start - 1), TokenFor(m.rule, m.value))
         /\ G.spans = S \cup {m}
  BY ReplaceMatchEffect
<1>3. /\ H.pc = "mask" /\ Fits(H, clears) /\ H \in HandlerState
      /\ \A s \in S : s.end <= H.index
      /\ \A s \in S : valueToToken[s.value] # None
      /\ \E cut : Masks(valueToToken, H.output, u, S, cut, H.index)
  BY <1>1 DEF ReplaceMatch, ResolvedInv, TypeInv, HandlersFit, MaskInv
<1>4. /\ u \in Seq(Element) /\ S \subseteq Scan(u) /\ m \in Scan(u)
      /\ H.output \in Seq(Element) /\ H.index \in Nat \ {0} /\ m.start >= H.index
  BY <1>3, HandlerTypes DEF Fits, Foremost, String, Position
<1> HIDE DEF S, u
<1>5. /\ m.start \in H.index .. Len(u) + 1 /\ m.value \in Value
      /\ \A s \in S : s.start \in Nat /\ s.start < H.index /\ s.value \in Value
  BY <1>3, <1>4, ScanFinds
<1> DEFINE tok == valueToToken
           tok2 == valueToToken'
           k == TokenFor(m.rule, m.value)
           t == H.output \o SubSeq(u, H.index, m.start - 1)
<1>6. /\ \A w \in Value : tok[w] # None => tok2[w] = tok[w]
      /\ tok2[m.value] = k
  BY <1>2, <1>5, PutKeepsTokens DEF TypeInv
<1>7. t \in Seq(Element) /\ k \in Element /\ k # None
  <2>1. SubSeq(u, H.index, m.start - 1) \in Seq(Element)
    BY <1>4, <1>5
  <2> QED
    BY <1>2, <1>4, <2>1, TokensAreElements, NoneIsNoToken
<1>8. PICK cut : Masks(tok, H.output, u, S, cut, H.index)
  BY <1>3
<1>9. PICK c : Masks(tok, t, u, S, c, m.start)
  <2> HIDE DEF tok, H
  <2> QED
    BY <1>4, <1>5, <1>8, MasksCopied
<1>10. \A s \in S : tok2[s.value] = tok[s.value] /\ tok2[s.value] # None
  BY <1>3, <1>5, <1>6
<1>11. \E d : Masks(tok2, Append(t, k), u, S \cup {m}, d, m.end)
  <2> HIDE DEF tok, tok2, t, k
  <2> QED
    BY <1>4, <1>6, <1>7, <1>9, <1>10, MasksReplaced
<1>12. /\ \A s \in G.spans : tok2[s.value] # None
       /\ \E d : Masks(tok2, G.output, G.text, G.spans, d, G.index)
  BY <1>2, <1>6, <1>7, <1>10, <1>11
<1>13. ASSUME NEW g \in Handler, handler'[g].pc = "mask"
       PROVE  LET K == handler'[g] IN
              /\ \A s \in K.spans : tok2[s.value] # None
              /\ \E d : Masks(tok2, K.output, K.text, K.spans, d, K.index)
  <2>1. CASE g = h
    <3>1. handler'[g] = G
      BY <2>1, <1>2 DEF TypeInv, HandlersFit
    <3> QED
      BY <3>1, <1>12
  <2>2. CASE g # h
    <3> DEFINE K == handler[g]
    <3>1. handler'[g] = K
      BY <2>2, <1>2 DEF TypeInv, HandlersFit
    <3>2. /\ K.pc = "mask" /\ Fits(K, clears) /\ K \in HandlerState
          /\ \A s \in K.spans : tok[s.value] # None
          /\ \E d : Masks(tok, K.output, K.text, K.spans, d, K.index)
      BY <3>1, <1>13, <1>1 DEF MaskInv, TypeInv, HandlersFit
    <3> HIDE DEF K
    <3>3. K.text \in Seq(Element) /\ K.spans \subseteq Scan(K.text)
      BY <3>2, HandlerTypes DEF Fits, String
    <3>4. \A s \in K.spans : tok2[s.value] = tok[s.value] /\ tok2[s.value] # None
      BY <3>2, <3>3, <1>6, ScanFinds
    <3>5. PICK d : Masks(tok, K.output, K.text, K.spans, d, K.index)
      BY <3>2
    <3> HIDE DEF tok, tok2
    <3>6. Masks(tok2, K.output, K.text, K.spans, d, K.index)
      BY <3>4, <3>5, MasksStays
    <3> QED
      BY <3>1, <3>4, <3>6
  <2> QED
    BY <2>1, <2>2
<1>14. ASSUME NEW x \in seen
       PROVE  /\ \A s \in x.spans : tok2[s.value] # None
              /\ \E d : Masks(tok2, x.masked, x.original, x.spans, d, Len(x.original) + 1)
  <2>1. /\ \A s \in x.spans : tok[s.value] # None
        /\ \E d : Masks(tok, x.masked, x.original, x.spans, d, Len(x.original) + 1)
    BY <1>1 DEF MaskInv
  <2>2. x.original \in Seq(Element) /\ x.spans \subseteq Scan(x.original)
    BY TextsAndWords DEF TypeInv, SeenFits, Masking
  <2>3. \A s \in x.spans : tok2[s.value] = tok[s.value] /\ tok2[s.value] # None
    BY <2>1, <2>2, <1>6, ScanFinds
  <2>4. PICK d : Masks(tok, x.masked, x.original, x.spans, d, Len(x.original) + 1)
    BY <2>1
  <2> HIDE DEF tok, tok2
  <2>5. Masks(tok2, x.masked, x.original, x.spans, d, Len(x.original) + 1)
    BY <2>3, <2>4, MasksStays
  <2> QED
    BY <2>3, <2>5
<1> QED
  BY <1>1, <1>13, <1>14 DEF MaskInv

LEMMA MaskReturn ==
    ASSUME TypeInv, ResolvedInv, MaskInv, NEW h \in Handler, ReturnMasked(h)
    PROVE  MaskInv'
<1> SUFFICES ASSUME clears' = 0 PROVE MaskInv'
  BY DEF MaskInv
<1> DEFINE H == handler[h]
           tok == valueToToken
<1>1. clears = 0 /\ valueToToken' = tok
  BY DEF ReturnMasked, vault
<1>2. PICK x \in Masking :
         /\ seen' = seen \cup {x}
         /\ x.original = H.text /\ x.spans = H.spans
         /\ x.masked = H.output \o SubSeq(H.text, H.index, Len(H.text))
  BY ReturnMaskedEffect
<1>3. /\ H.pc = "mask" /\ handler' = [handler EXCEPT ![h] = Idle]
      /\ Fits(H, clears) /\ H \in HandlerState
      /\ \A s \in H.spans : s.end <= H.index
      /\ \A s \in H.spans : tok[s.value] # None
      /\ \E cut : Masks(tok, H.output, H.text, H.spans, cut, H.index)
  BY <1>1, ReturnMaskedEffect DEF ResolvedInv, TypeInv, HandlersFit, MaskInv
<1>4. \E d : Masks(tok, x.masked, x.original, x.spans, d, Len(x.original) + 1)
  <2> HIDE DEF tok, H
  <2>1. PICK cut : Masks(tok, H.output, H.text, H.spans, cut, H.index)
    BY <1>3
  <2>2. /\ H.text \in Seq(Element) /\ H.spans \subseteq Scan(H.text) /\ H.output \in Seq(Element)
        /\ H.index \in Nat \ {0} /\ H.index <= Len(H.text) + 1
    BY <1>3, HandlerTypes DEF Fits, String, Position
  <2> DEFINE j == Len(H.text) + 1
  <2>3. /\ j \in H.index .. Len(H.text) + 1 /\ j - 1 = Len(H.text)
        /\ \A s \in H.spans : s.start \in Nat /\ s.start < H.index
    BY <1>3, <2>2, ScanFinds
  <2> HIDE DEF j
  <2>4. \E d : Masks(tok, H.output \o SubSeq(H.text, H.index, j - 1), H.text, H.spans, d, j)
    BY <2>1, <2>2, <2>3, MasksCopied
  <2> QED
    BY <2>3, <2>4, <1>2 DEF j
<1> QED
  BY <1>1, <1>2, <1>3, <1>4, IdleState DEF MaskInv, TypeInv, HandlersFit

LEMMA MaskStart ==
    ASSUME TypeInv, MaskInv, NEW h \in Handler, NEW t \in Text, MaskText(h, t)
    PROVE  MaskInv'
<1> SUFFICES ASSUME clears' = 0 PROVE MaskInv'
  BY DEF MaskInv
<1>1. clears = 0 /\ valueToToken' = valueToToken /\ seen' = seen
  BY DEF MaskText, vault
<1>2. PICK G \in HandlerState :
         /\ handler' = [handler EXCEPT ![h] = G]
         /\ G.text = t /\ G.index = 1 /\ G.output = <<>> /\ G.spans = {}
  BY MaskTextEffect
<1>3. /\ \A s \in G.spans : valueToToken[s.value] # None
      /\ \E cut : Masks(valueToToken, G.output, G.text, G.spans, cut, G.index)
  BY <1>2, MasksNothing
<1>4. \A g \in Handler : handler'[g] = IF g = h THEN G ELSE handler[g]
  BY <1>2 DEF TypeInv, HandlersFit
<1> QED
  BY <1>1, <1>3, <1>4 DEF MaskInv

LEMMA MaskNext == TypeInv /\ ResolvedInv /\ MaskInv /\ [Next]_vars => MaskInv'
<1> SUFFICES ASSUME TypeInv, ResolvedInv, MaskInv, [Next]_vars PROVE MaskInv'
  OBVIOUS
<1>1. ASSUME NEW h \in Handler, NEW t \in Text, MaskText(h, t) PROVE MaskInv'
  BY <1>1, MaskStart
<1>2. ASSUME NEW h \in Handler, ReplaceMatch(h) PROVE MaskInv'
  BY <1>2, MaskReplace
<1>3. ASSUME NEW h \in Handler, ReturnMasked(h) PROVE MaskInv'
  BY <1>3, MaskReturn
<1>4. ASSUME NEW h \in Handler, NEW x \in seen, UnmaskText(h, x.masked) PROVE MaskInv'
  <2>1. UNCHANGED <<vault, seen>>
    BY <1>4 DEF UnmaskText
  <2> QED
    BY <1>4, <2>1, UnmaskTextEffect, MaskElsewhere
<1>5. ASSUME NEW h \in Handler, GetToken(h) PROVE MaskInv'
  <2>1. UNCHANGED <<vault, seen>>
    BY <1>5 DEF GetToken
  <2> QED
    BY <1>5, <2>1, GetTokenEffect, MaskElsewhere
<1>6. ASSUME NEW h \in Handler, OpenCiphertext(h) PROVE MaskInv'
  <2>1. UNCHANGED <<vault, seen>>
    BY <1>6 DEF OpenCiphertext
  <2> QED
    BY <1>6, <2>1, OpenCiphertextEffect, MaskElsewhere
<1>7. ASSUME NEW h \in Handler, ReturnRestored(h) PROVE MaskInv'
  <2>1. UNCHANGED <<vault, seen>>
    BY <1>7 DEF ReturnRestored
  <2> QED
    BY <1>7, <2>1, ReturnRestoredEffect, MaskElsewhere
<1>8. CASE Clear
  <2>1. clears \in Nat /\ clears' = clears + 1
    BY <1>8 DEF Clear, TypeInv, VaultTypes
  <2> QED
    BY <2>1 DEF MaskInv
<1>9. CASE UNCHANGED vars
  BY <1>9 DEF vars, vault, MaskInv
<1> QED
  BY <1>1, <1>2, <1>3, <1>4, <1>5, <1>6, <1>7, <1>8, <1>9 DEF Next, Handle

-------------------------------------------------------------------------------
(***************************************************************************)
(* The same text gets the same mask.  Two maskings of a text replaced the  *)
(* same spans: at the first place where they differ, what one replaced was *)
(* dropped by the other for something that both replaced, or that is at    *)
(* least as long.  The spans and the tokens then determine the mask.       *)
(***************************************************************************)
LEMMA Least ==
    ASSUME NEW T, T \subseteq Nat, T # {}
    PROVE  \E x \in T : \A y \in T : x <= y
<1>1. PICK x \in T : \A y \in T : ~ (<<y, x>> \in OpToRel(<, Nat))
  BY NatLessThanWellFounded, WFMin
<1>2. ASSUME NEW y \in T PROVE x <= y
  <2>1. ~ (y < x)
    BY <1>1 DEF OpToRel
  <2> QED
    BY <2>1
<1> QED
  BY <1>2

SameSpan(s, r) == s.start = r.start /\ s.end = r.end

\* Below p the spans of S are spans of R.
Within(S, R, p) == \A s \in S : s.start < p => \E r \in R : SameSpan(s, r)

\* Two spans of a masking that begin at the same place are the same.
LEMMA OneSpan ==
    ASSUME NEW t \in Seq(Element), NEW S, S \subseteq Scan(t), Resolved(t, {}, S),
           NEW s \in S, NEW u \in S, s.start = u.start
    PROVE  s = u
<1>1. /\ s.start \in Nat /\ s.end \in Nat /\ s.start < s.end
      /\ u.start \in Nat /\ u.end \in Nat /\ u.start < u.end
  BY ScanFinds
<1>2. s = u \/ s.end <= u.start \/ u.end <= s.start
  BY DEF Resolved
<1> QED
  BY <1>1, <1>2

LEMMA LongerSpan ==
    ASSUME NEW t \in Seq(Element), NEW S, NEW R, S \cup R \subseteq Scan(t),
           Resolved(t, {}, S), Resolved(t, {}, R),
           NEW s \in S, Within(R, S, s.start)
    PROVE  \E r \in R : r.start = s.start /\ r.end >= s.end
<1>1. \A x \in S \cup R : x.start \in Nat /\ x.end \in Nat /\ x.start < x.end
  BY ScanFinds
<1>2. PICK r \in R : Precedes(r, s) /\ s.start < r.end
  BY DEF Resolved
<1>3. ASSUME r.start < s.start PROVE FALSE
  <2>1. PICK x \in S : SameSpan(r, x)
    BY <1>3 DEF Within
  <2>2. x = s \/ x.end <= s.start \/ s.end <= x.start
    BY DEF Resolved
  <2> QED
    BY <1>1, <1>2, <1>3, <2>1, <2>2 DEF SameSpan
<1> QED
  BY <1>1, <1>2, <1>3 DEF Precedes

LEMMA SpanAt ==
    ASSUME NEW t \in Seq(Element), NEW S, NEW R, S \cup R \subseteq Scan(t),
           Resolved(t, {}, S), Resolved(t, {}, R),
           NEW s \in S, Within(R, S, s.start), Within(S, R, s.start)
    PROVE  \E r \in R : SameSpan(s, r)
<1>1. \A x \in S \cup R : x.start \in Nat /\ x.end \in Nat /\ x.start < x.end
  BY ScanFinds
<1>2. PICK r \in R : r.start = s.start /\ r.end >= s.end
  BY LongerSpan
<1>3. Within(S, R, r.start)
  BY <1>2
<1>4. PICK x \in S : x.start = r.start /\ x.end >= r.end
  BY <1>3, LongerSpan
<1>5. x = s
  BY <1>2, <1>4, OneSpan
<1> QED
  BY <1>1, <1>2, <1>4, <1>5 DEF SameSpan

LEMMA SameSpans ==
    ASSUME NEW t \in Seq(Element), NEW S, NEW R, S \cup R \subseteq Scan(t),
           Resolved(t, {}, S), Resolved(t, {}, R)
    PROVE  \A s \in S : \E r \in R : SameSpan(s, r)
<1> DEFINE Differ(P, Q) == {p \in Nat : \E s \in P : s.start = p /\ ~ \E r \in Q : SameSpan(s, r)}
           D == Differ(S, R) \cup Differ(R, S)
<1>1. \A s \in S \cup R : s.start \in Nat
  BY ScanFinds
<1>2. ASSUME D # {} PROVE FALSE
  <2>1. PICK p \in D : \A q \in D : p <= q
    BY <1>2, Least
  <2>2. Within(S, R, p) /\ Within(R, S, p)
    BY <1>1, <2>1 DEF Within
  <2>3. CASE p \in Differ(S, R)
    <3>1. PICK s \in S : s.start = p /\ ~ \E r \in R : SameSpan(s, r)
      BY <2>3
    <3> QED
      BY <2>2, <3>1, SpanAt
  <2>4. CASE p \in Differ(R, S)
    <3>1. PICK s \in R : s.start = p /\ ~ \E r \in S : SameSpan(s, r)
      BY <2>4
    <3> QED
      BY <2>2, <3>1, SpanAt
  <2> QED
    BY <2>3, <2>4
<1> QED
  BY <1>1, <1>2

\* What stands at the same place of a text is the same.
LEMMA SameStand ==
    ASSUME NEW tok, NEW u \in Seq(Element), NEW S, NEW R, S \cup R \subseteq Scan(u),
           Resolved(u, {}, R), \A s \in S : \E r \in R : SameSpan(s, r),
           \A r \in R : \E s \in S : SameSpan(r, s),
           NEW k, NEW l, NEW from, NEW to, NEW to2,
           StandsFor(tok, k, u, S, from, to), StandsFor(tok, l, u, R, from, to2)
    PROVE  to = to2 /\ k = l
<1>1. CASE \E s \in S : s.start = from /\ s.end = to /\ k = tok[s.value]
  <2>1. PICK s \in S : s.start = from /\ s.end = to /\ k = tok[s.value]
    BY <1>1
  <2>2. PICK r \in R : SameSpan(s, r)
    OBVIOUS
  <2>3. PICK x \in R : x.start = from /\ x.end = to2 /\ l = tok[x.value]
    BY <2>1, <2>2 DEF StandsFor, SameSpan
  <2>4. x = r
    BY <2>1, <2>2, <2>3, OneSpan DEF SameSpan
  <2>5. s.value = SubSeq(u, s.start, s.end - 1) /\ r.value = SubSeq(u, r.start, r.end - 1)
    BY ScanFinds
  <2> QED
    BY <2>1, <2>2, <2>3, <2>4, <2>5 DEF SameSpan
<1>2. CASE to = from + 1 /\ k = u[from] /\ \A s \in S : s.start # from
  <2>1. \A r \in R : r.start # from
    BY <1>2 DEF SameSpan
  <2> QED
    BY <1>2, <2>1 DEF StandsFor
<1> QED
  BY <1>1, <1>2 DEF StandsFor

LEMMA SameMask ==
    ASSUME NEW tok, NEW u \in Seq(Element), NEW S, NEW R, S \cup R \subseteq Scan(u),
           Resolved(u, {}, S), Resolved(u, {}, R),
           NEW t1 \in Seq(Element), NEW t2 \in Seq(Element), NEW c1, NEW c2,
           NEW e \in Nat \ {0}, Masks(tok, t1, u, S, c1, e), Masks(tok, t2, u, R, c2, e)
    PROVE  t1 = t2
<1>1. /\ \A s \in S : \E r \in R : SameSpan(s, r)
      /\ \A r \in R : \E s \in S : SameSpan(r, s)
  BY SameSpans
<1> DEFINE n1 == Len(t1)
           n2 == Len(t2)
<1>2. /\ n1 \in Nat /\ n2 \in Nat
      /\ c1 \in [1 .. n1 + 1 -> 1 .. e] /\ c1[1] = 1 /\ c1[n1 + 1] = e
      /\ c2 \in [1 .. n2 + 1 -> 1 .. e] /\ c2[1] = 1 /\ c2[n2 + 1] = e
      /\ \A i \in 1 .. n1 : c1[i] < e /\ StandsFor(tok, t1[i], u, S, c1[i], c1[i + 1])
      /\ \A i \in 1 .. n2 : c2[i] < e /\ StandsFor(tok, t2[i], u, R, c2[i], c2[i + 1])
  BY DEF Masks
<1> HIDE DEF n1, n2
<1>3. ASSUME NEW i \in Nat, i \in 1 .. n1, i \in 1 .. n2, c1[i] = c2[i]
      PROVE  c1[i + 1] = c2[i + 1] /\ t1[i] = t2[i]
  <2> DEFINE from == c1[i]
             to == c1[i + 1]
             to2 == c2[i + 1]
             k == t1[i]
             l == t2[i]
  <2>1. StandsFor(tok, k, u, S, from, to) /\ StandsFor(tok, l, u, R, from, to2)
    BY <1>2, <1>3
  <2>2. /\ u \in Seq(Element) /\ S \cup R \subseteq Scan(u) /\ Resolved(u, {}, R)
        /\ \A s \in S : \E r \in R : SameSpan(s, r)
        /\ \A r \in R : \E s \in S : SameSpan(r, s)
    BY <1>1
  <2> HIDE DEF from, to, to2, k, l
  <2>3. to = to2 /\ k = l
    BY ONLY <2>1, <2>2, SameStand
  <2> QED
    BY <2>3 DEF to, to2, k, l
<1> DEFINE D == {i \in Nat : i \in 1 .. n1 + 1 /\ i \in 1 .. n2 + 1 /\ c1[i] # c2[i]}
<1>4. ASSUME D # {} PROVE FALSE
  <2>1. PICK i \in D : \A j \in D : i <= j
    BY <1>4, Least
  <2>2. i # 1 /\ i \in Nat
    BY <1>2
  <2>3. i - 1 \in Nat /\ i - 1 \in 1 .. n1 /\ i - 1 \in 1 .. n2 /\ (i - 1) + 1 = i
    BY <1>2, <2>2
  <2>4. i - 1 \notin D
    BY <2>1, <2>3
  <2>5. c1[i - 1] = c2[i - 1]
    BY <2>3, <2>4, <1>2
  <2> QED
    BY <1>3, <2>3, <2>5
<1>5. \A i \in Nat : i \in 1 .. n1 + 1 /\ i \in 1 .. n2 + 1 => c1[i] = c2[i]
  BY <1>4
<1> HIDE DEF D
<1>6. n1 = n2
  <2>1. CASE n1 < n2
    <3>1. n1 + 1 \in 1 .. n2 /\ n1 + 1 \in Nat /\ n1 + 1 \in 1 .. n1 + 1 /\ n1 + 1 \in 1 .. n2 + 1
      BY <2>1, <1>2
    <3>2. c2[n1 + 1] = e /\ c2[n1 + 1] < e
      BY <3>1, <1>2, <1>5
    <3> QED
      BY <3>2
  <2>2. CASE n2 < n1
    <3>1. n2 + 1 \in 1 .. n1 /\ n2 + 1 \in Nat /\ n2 + 1 \in 1 .. n2 + 1 /\ n2 + 1 \in 1 .. n1 + 1
      BY <2>2, <1>2
    <3>2. c1[n2 + 1] = e /\ c1[n2 + 1] < e
      BY <3>1, <1>2, <1>5
    <3> QED
      BY <3>2
  <2> QED
    BY <2>1, <2>2, <1>2
<1>7. \A i \in 1 .. n1 : t1[i] = t2[i]
  BY <1>2, <1>3, <1>5, <1>6
<1> QED
  BY <1>6, <1>7 DEF n1, n2

\* The state of the masker, as long as no two values share a suffix.
MaskerInv == TypeInv /\ VaultInv /\ ResolvedInv /\ MaskInv

LEMMA MaskerInit == Init => MaskerInv
BY TypeInit, VaultInit, ResolvedInit, MaskInit DEF MaskerInv

LEMMA MaskerInvariant ==
    ASSUME NoCollision
    PROVE  Spec => []MaskerInv
<1>1. MaskerInv /\ [Next]_vars => MaskerInv'
  BY TypeNext, VaultNext, ResolvedNext, MaskNext DEF MaskerInv
<1> QED
  BY MaskerInit, <1>1, PTL DEF Spec

\* Masking is deterministic for a session, for any number of handlers that mask
\* at the same time, and whichever of two rules finds a value first.
THEOREM MaskingIsDeterministic == Spec => []SameTextSameMask
<1> DEFINE Inv == TypeInv /\ ResolvedInv /\ MaskInv
<1>1. Inv => SameTextSameMask
  <2> SUFFICES ASSUME Inv, clears = 0, NEW x \in seen, NEW y \in seen, x.original = y.original
               PROVE  x.masked = y.masked
    BY DEF SameTextSameMask
  <2> DEFINE u == x.original
             e == Len(u) + 1
  <2>1. /\ u \in Seq(Element) /\ x.spans \cup y.spans \subseteq Scan(u)
        /\ x.masked \in Seq(Element) /\ y.masked \in Seq(Element)
    BY TextsAndWords DEF TypeInv, SeenFits, Masking
  <2>2. Resolved(u, {}, x.spans) /\ Resolved(u, {}, y.spans)
    BY DEF ResolvedInv
  <2>3. PICK c1 : Masks(valueToToken, x.masked, u, x.spans, c1, e)
    BY DEF MaskInv
  <2>4. PICK c2 : Masks(valueToToken, y.masked, u, y.spans, c2, e)
    BY DEF MaskInv
  <2>5. e \in Nat \ {0}
    BY <2>1
  <2> HIDE DEF u, e
  <2> QED
    BY <2>1, <2>2, <2>3, <2>4, <2>5, SameMask
<1>2. Inv /\ [Next]_vars => Inv'
  BY TypeNext, ResolvedNext, MaskNext
<1>3. Init => Inv
  BY TypeInit, ResolvedInit, MaskInit
<1> QED
  BY <1>1, <1>2, <1>3, PTL DEF Spec

-------------------------------------------------------------------------------
(***************************************************************************)
(* Detokenization gives back what was masked.  RestoreInv follows a        *)
(* handler through a masked text: what it has written is the original up   *)
(* to where the element begins that it is at.  It needs that no token of   *)
(* the vault was in the text before.  That two texts with the same mask    *)
(* are the same is what makes it enough to follow one of them.             *)
(***************************************************************************)
\* The tokens of tok name one value each, and none is in u.
Readable(tok, u) ==
    /\ \A v, w \in Value : tok[v] # None /\ tok[v] = tok[w] => v = w
    /\ \A v \in Value, i \in 1 .. Len(u) : tok[v] # None => tok[v] # u[i]

\* S are spans of u whose words have tokens.
Tokenized(tok, u, S) ==
    S \subseteq Scan(u) /\ \A s \in S : tok[s.value] \in Token

LEMMA VaultIsReadable ==
    ASSUME TokensAreForeign, TypeInv, VaultInv, NEW u \in Text
    PROVE  Readable(valueToToken, u)
<1>1. ASSUME NEW v \in Value, NEW w \in Value, valueToToken[v] # None, valueToToken[v] = valueToToken[w]
      PROVE  v = w
  <2> DEFINE t == valueToToken[v]
  <2>1. t \in Token
    BY <1>1 DEF TypeInv, VaultTypes
  <2>2. tokenToValue[t] = v /\ tokenToValue[t] = w
    BY <1>1, <2>1 DEF VaultInv, MapsAgree
  <2> QED
    BY <2>2
<1>2. ASSUME NEW v \in Value, NEW i \in 1 .. Len(u), valueToToken[v] # None, valueToToken[v] = u[i]
      PROVE  FALSE
  <2>1. u[i] \in Token /\ (clears > 0) \in BOOLEAN
    BY <1>2 DEF TypeInv, VaultTypes
  <2>2. u[i].ref = Hash[clears > 0][v]
    BY <1>2 DEF VaultInv, TokensAreNamed
  <2>3. i \in TokensFrom(u, 1)
    BY <2>1 DEF TokensFrom
  <2> QED
    BY <2>1, <2>2, <2>3 DEF TokensAreForeign
<1> QED
  BY <1>1, <1>2 DEF Readable

\* What stands for a token, or for what is no token of tok.
IsTokenOf(tok, k, w) == w \in Value /\ k = tok[w] /\ k # None

LEMMA StandOfToken ==
    ASSUME NEW tok, NEW u \in Seq(Element), NEW S, Tokenized(tok, u, S), Readable(tok, u),
           NEW w, NEW k, IsTokenOf(tok, k, w), NEW from \in 1 .. Len(u), NEW to,
           StandsFor(tok, k, u, S, from, to)
    PROVE  to = from + Len(w) /\ to <= Len(u) + 1 /\ w = SubSeq(u, from, to - 1)
<1>1. k # u[from]
  BY DEF Readable, IsTokenOf
<1>2. PICK s \in S : s.start = from /\ s.end = to /\ k = tok[s.value]
  BY <1>1 DEF StandsFor
<1>3. /\ s.value \in Value /\ s.end = s.start + Len(s.value) /\ s.end \in 1 .. Len(u) + 1
      /\ s.value = SubSeq(u, s.start, s.end - 1)
  BY ScanFinds DEF Tokenized
<1>4. w = s.value
  BY <1>2, <1>3 DEF Readable, IsTokenOf
<1>5. /\ w \in Value /\ to = from + Len(w) /\ to \in 1 .. Len(u) + 1
      /\ w = SubSeq(u, from, to - 1)
  BY ONLY <1>2, <1>3, <1>4
<1> QED
  BY <1>5

NoTokenIs(tok, k) == \A w \in Value : tok[w] # None => tok[w] # k

LEMMA StandOfOther ==
    ASSUME NEW tok, NEW u \in Seq(Element), NEW S, Tokenized(tok, u, S),
           NEW k, NoTokenIs(tok, k), NEW from, NEW to, StandsFor(tok, k, u, S, from, to)
    PROVE  to = from + 1 /\ k = u[from]
<1>1. ASSUME NEW s \in S PROVE tok[s.value] # k
  <2>1. s.value \in Value /\ tok[s.value] # None
    BY ScanFinds, NoneIsNoToken DEF Tokenized
  <2> QED
    BY <2>1 DEF NoTokenIs
<1> QED
  BY <1>1 DEF StandsFor

\* Every letter of the text is stood for.
LEMMA EveryLetterStood ==
    ASSUME NEW tok, NEW t \in Seq(Element), NEW u, NEW S, NEW cut, NEW e \in Nat \ {0},
           Masks(tok, t, u, S, cut, e), NEW p \in 1 .. e - 1
    PROVE  \E i \in 1 .. Len(t) : cut[i] <= p /\ p < cut[i + 1]
<1> DEFINE n == Len(t)
           D == {i \in Nat : i \in 1 .. n + 1 /\ p < cut[i]}
<1>1. /\ n \in Nat /\ cut \in [1 .. n + 1 -> 1 .. e] /\ cut[1] = 1 /\ cut[n + 1] = e
  BY DEF Masks
<1>2. n + 1 \in D
  BY <1>1
<1>3. PICK i \in D : \A j \in D : i <= j
  BY <1>2, Least
<1>4. i # 1
  BY <1>1
<1>5. i - 1 \in Nat /\ i - 1 \in 1 .. n /\ (i - 1) + 1 = i
  BY <1>1, <1>4
<1>6. i - 1 \notin D
  BY <1>3, <1>5
<1>7. cut[i - 1] <= p
  BY <1>1, <1>5, <1>6
<1> QED
  BY <1>3, <1>5, <1>7

\* The same mask is of the same text.
LEMMA SameOriginal ==
    ASSUME NEW tok, NEW t \in Seq(Element), NEW u \in Seq(Element), NEW v \in Seq(Element),
           NEW S, NEW R, Tokenized(tok, u, S), Tokenized(tok, v, R),
           Readable(tok, u), Readable(tok, v), NEW c, NEW d,
           Masks(tok, t, u, S, c, Len(u) + 1), Masks(tok, t, v, R, d, Len(v) + 1)
    PROVE  u = v
<1> DEFINE n == Len(t)
<1>1. /\ n \in Nat /\ Len(u) \in Nat /\ Len(v) \in Nat
      /\ c \in [1 .. n + 1 -> 1 .. Len(u) + 1] /\ c[1] = 1 /\ c[n + 1] = Len(u) + 1
      /\ d \in [1 .. n + 1 -> 1 .. Len(v) + 1] /\ d[1] = 1 /\ d[n + 1] = Len(v) + 1
      /\ \A i \in 1 .. n : /\ c[i] < Len(u) + 1 /\ StandsFor(tok, t[i], u, S, c[i], c[i + 1])
                           /\ d[i] < Len(v) + 1 /\ StandsFor(tok, t[i], v, R, d[i], d[i + 1])
  BY DEF Masks
<1> HIDE DEF n
<1>2. ASSUME NEW i \in Nat, i \in 1 .. n, c[i] = d[i]
      PROVE  c[i + 1] = d[i + 1] /\ \A p \in c[i] .. c[i + 1] - 1 : u[p] = v[p]
  <2> DEFINE from == c[i]
             to == c[i + 1]
             to2 == d[i + 1]
             k == t[i]
  <2>1. /\ StandsFor(tok, k, u, S, from, to) /\ StandsFor(tok, k, v, R, from, to2)
        /\ from \in 1 .. Len(u) /\ from \in 1 .. Len(v)
    BY <1>1, <1>2, SMTT(20)
  <2> HIDE DEF from, to, to2, k
  <2>2. CASE \E w \in Value : tok[w] # None /\ k = tok[w]
    <3>1. PICK w \in Value : tok[w] # None /\ k = tok[w]
      BY <2>2
    <3>2. to = from + Len(w) /\ to <= Len(u) + 1 /\ w = SubSeq(u, from, to - 1)
      <4>1. /\ StandsFor(tok, k, u, S, from, to) /\ from \in 1 .. Len(u)
            /\ IsTokenOf(tok, k, w)
            /\ u \in Seq(Element) /\ Tokenized(tok, u, S) /\ Readable(tok, u)
        BY <2>1, <3>1 DEF IsTokenOf
      <4> QED
        BY ONLY <4>1, StandOfToken
    <3>3. to2 = from + Len(w) /\ to2 <= Len(v) + 1 /\ w = SubSeq(v, from, to2 - 1)
      <4>1. /\ StandsFor(tok, k, v, R, from, to2) /\ from \in 1 .. Len(v)
            /\ IsTokenOf(tok, k, w)
            /\ v \in Seq(Element) /\ Tokenized(tok, v, R) /\ Readable(tok, v)
        BY <2>1, <3>1 DEF IsTokenOf
      <4> QED
        BY ONLY <4>1, StandOfToken
    <3>4. to2 = to /\ to <= Len(v) + 1 /\ w = SubSeq(v, from, to - 1)
      BY <3>2, <3>3
    <3>5. Len(w) \in Nat
      BY TextsAndWords
    <3>6. ASSUME NEW p \in from .. to - 1 PROVE u[p] = v[p]
      <4>1. p - from + 1 \in 1 .. to - from
        BY <2>1, <3>2, <3>5
      <4>2. u[p] = w[p - from + 1]
        BY <2>1, <3>2, <3>5, <4>1
      <4>3. v[p] = w[p - from + 1]
        BY <2>1, <3>2, <3>4, <3>5, <4>1
      <4> QED
        BY <4>2, <4>3
    <3> QED
      BY <3>2, <3>4, <3>6 DEF from, to, to2
  <2>3. CASE NoTokenIs(tok, k)
    <3>1. Tokenized(tok, u, S) /\ Tokenized(tok, v, R) /\ u \in Seq(Element) /\ v \in Seq(Element)
      OBVIOUS
    <3>2. to = from + 1 /\ k = u[from]
      BY ONLY <2>1, <2>3, <3>1, StandOfOther
    <3>3. to2 = from + 1 /\ k = v[from]
      BY ONLY <2>1, <2>3, <3>1, StandOfOther
    <3>4. ASSUME NEW p \in from .. to - 1 PROVE u[p] = v[p]
      <4>1. p = from
        BY <2>1, <3>2
      <4> QED
        BY <4>1, <3>2, <3>3
    <3> QED
      BY <3>2, <3>3, <3>4 DEF from, to, to2
  <2> QED
    BY <2>2, <2>3 DEF NoTokenIs
<1> DEFINE D == {i \in Nat : i \in 1 .. n + 1 /\ c[i] # d[i]}
<1>3. ASSUME D # {} PROVE FALSE
  <2>1. PICK i \in D : \A j \in D : i <= j
    BY <1>3, Least
  <2>2. i # 1 /\ i \in Nat
    BY <1>1
  <2>3. i - 1 \in Nat /\ i - 1 \in 1 .. n /\ (i - 1) + 1 = i
    BY <1>1, <2>2
  <2>4. c[i - 1] = d[i - 1]
    BY <1>1, <2>1, <2>3
  <2> QED
    BY <1>2, <2>3, <2>4
<1>4. ASSUME NEW i \in 1 .. n + 1 PROVE c[i] = d[i]
  <2>1. i \in Nat
    BY <1>1
  <2> QED
    BY <2>1, <1>3
<1> HIDE DEF D
<1>5. Len(u) = Len(v)
  BY <1>1, <1>4
<1>6. ASSUME NEW p \in 1 .. Len(u) PROVE u[p] = v[p]
  <2>1. Len(u) + 1 \in Nat \ {0} /\ p \in 1 .. (Len(u) + 1) - 1
    BY <1>1
  <2>2. PICK i \in 1 .. n : c[i] <= p /\ p < c[i + 1]
    BY <2>1, EveryLetterStood DEF n
  <2>3. i \in Nat /\ c[i] = d[i] /\ p \in c[i] .. c[i + 1] - 1
    BY <1>1, <1>4, <2>2
  <2> QED
    BY <1>2, <2>3
<1> QED
  BY <1>5, <1>6

TokenMap(tok) == tok \in [Value -> Token \cup {None}]

Piece(t, a, b) == SubSeq(t, a, b - 1)

\* From a up to b the mask t of u has no tokens.
Copied(tok, t, u, S, cut, e, a, b) ==
    /\ t \in Seq(Element) /\ u \in Seq(Element) /\ TokenMap(tok)
    /\ Tokenized(tok, u, S) /\ Masks(tok, t, u, S, cut, e)
    /\ e \in Nat \ {0} /\ e <= Len(u) + 1
    /\ a \in 1 .. Len(t) + 1 /\ b \in a .. Len(t) + 1
    /\ \A j \in a .. b - 1 : t[j] \notin Token

\* Elements that are no tokens stand for themselves.
LEMMA Run ==
    ASSUME NEW tok, NEW t, NEW u, NEW S, NEW cut, NEW e, NEW a, NEW b,
           Copied(tok, t, u, S, cut, e, a, b)
    PROVE  /\ cut[b] = cut[a] + (b - a)
           /\ Piece(t, a, b) = Piece(u, cut[a], cut[b])
<1> USE DEF Copied
<1> DEFINE n == Len(t)
<1>1. /\ n \in Nat /\ cut \in [1 .. n + 1 -> 1 .. e]
      /\ \A i \in 1 .. n : cut[i] < e /\ StandsFor(tok, t[i], u, S, cut[i], cut[i + 1])
  BY DEF Masks
<1>2. a \in Nat \ {0} /\ b \in Nat /\ a <= b /\ b <= n + 1
  BY <1>1
<1>3. ASSUME NEW j \in a .. b - 1
      PROVE  cut[j + 1] = cut[j] + 1 /\ t[j] = u[cut[j]]
  <2> DEFINE k == t[j]
             from == cut[j]
             to == cut[j + 1]
  <2>1. StandsFor(tok, k, u, S, from, to) /\ k \notin Token
    BY <1>1, <1>2
  <2>2. NoTokenIs(tok, k)
    BY <2>1 DEF NoTokenIs, TokenMap
  <2> HIDE DEF k, from, to
  <2>3. to = from + 1 /\ k = u[from]
    BY <2>1, <2>2, StandOfOther
  <2> QED
    BY <2>3 DEF k, from, to
<1> HIDE DEF n
<1> DEFINE D == {j \in Nat : j \in a .. b /\ cut[j] # cut[a] + (j - a)}
<1>4. ASSUME D # {} PROVE FALSE
  <2>1. PICK i \in D : \A j \in D : i <= j
    BY <1>4, Least
  <2>2. i # a /\ i \in Nat
    BY <1>1, <1>2
  <2>3. i - 1 \in Nat /\ i - 1 \in a .. b - 1 /\ i - 1 \in a .. b /\ (i - 1) + 1 = i
    BY <1>2, <2>1, <2>2
  <2>4. cut[i - 1] = cut[a] + ((i - 1) - a)
    BY <2>1, <2>3
  <2>5. cut[i] = cut[i - 1] + 1
    BY <1>3, <2>3
  <2>6. cut[a] \in Nat
    BY <1>1, <1>2
  <2>7. cut[i] = cut[a] + (i - a)
    <3> DEFINE x == cut[a]
               y == cut[i]
    <3>1. y = (x + ((i - 1) - a)) + 1 /\ x \in Nat
      BY <2>4, <2>5, <2>6
    <3> HIDE DEF x, y
    <3>2. y = x + (i - a)
      BY <3>1, <2>2, <1>2
    <3> QED
      BY <3>2 DEF x, y
  <2> QED
    BY <2>1, <2>7
<1>5. \A j \in a .. b : cut[j] = cut[a] + (j - a)
  BY <1>2, <1>4
<1> HIDE DEF D
<1>6. cut[b] = cut[a] + (b - a) /\ cut[a] \in Nat \ {0} /\ cut[b] <= Len(u) + 1
  BY <1>1, <1>2, <1>5
<1> DEFINE p == SubSeq(t, a, b - 1)
           q == SubSeq(u, cut[a], cut[b] - 1)
<1>7. p \in Seq(Element) /\ Len(p) = b - a /\ \A i \in 1 .. b - a : p[i] = t[a + i - 1]
  BY <1>2 DEF n
<1>8. q \in Seq(Element) /\ Len(q) = b - a /\ \A i \in 1 .. b - a : q[i] = u[cut[a] + i - 1]
  <2> DEFINE x == cut[a]
             y == cut[b] - 1
  <2>1. x \in Nat \ {0} /\ y = x + (b - a) - 1 /\ y <= Len(u) /\ y \in Int
    BY <1>2, <1>6
  <2> HIDE DEF x, y
  <2>2. /\ SubSeq(u, x, y) \in Seq(Element) /\ Len(SubSeq(u, x, y)) = b - a
        /\ \A i \in 1 .. b - a : SubSeq(u, x, y)[i] = u[x + i - 1]
    BY <2>1, <1>2
  <2> QED
    BY <2>2 DEF x, y
<1>9. ASSUME NEW i \in 1 .. b - a PROVE p[i] = q[i]
  <2>1. a + i - 1 \in a .. b - 1 /\ a + i - 1 \in a .. b /\ (a + i - 1) - a = i - 1
    BY <1>2
  <2>2. cut[a + i - 1] = cut[a] + (i - 1)
    BY <2>1, <1>5
  <2>3. t[a + i - 1] = u[cut[a + i - 1]]
    BY <2>1, <1>3
  <2>4. cut[a] + (i - 1) = cut[a] + i - 1
    BY <1>6
  <2> QED
    BY <2>2, <2>3, <2>4, <1>7, <1>8
<1> HIDE DEF p, q
<1>10. p = q
  BY <1>7, <1>8, <1>9, <1>2
<1> QED
  BY <1>6, <1>10 DEF p, q, Piece

-------------------------------------------------------------------------------
\* How far a handler is that restores the masked text of x.
Restores(H, x, tok) ==
    /\ H.text = x.masked
    /\ H.pc \in {"get", "open"} =>
          \E cut : /\ Masks(tok, x.masked, x.original, x.spans, cut, Len(x.original) + 1)
                   /\ H.output = SubSeq(x.original, 1, cut[H.index] - 1)
    /\ H.pc = "open" => H.text[H.index] \in Token /\ tok[H.ciphertext] = H.text[H.index]
    /\ H.pc = "restored" => H.output = x.original

RestoreInv ==
    clears = 0 =>
      \A h \in Handler : LET H == handler[h] IN
         H.pc \in {"get", "open", "restored"} =>
            /\ H.pc # "restored" => ~H.failed
            /\ \E x \in seen : Restores(H, x, valueToToken)

LEMMA RestoreInit == Init => RestoreInv
BY IdleState DEF Init, RestoreInv

\* A step of a handler that stays with what it restores, or restores nothing.
LEMMA RestoreBy ==
    ASSUME RestoreInv, TypeInv, NEW h \in Handler, NEW G, handler' = [handler EXCEPT ![h] = G],
           UNCHANGED <<vault, seen>>,
           clears = 0 /\ G.pc \in {"get", "open", "restored"} =>
              /\ G.pc # "restored" => ~G.failed
              /\ \E x \in seen : Restores(G, x, valueToToken)
    PROVE  RestoreInv'
<1> SUFFICES ASSUME clears' = 0 PROVE RestoreInv'
  BY DEF RestoreInv
<1>1. clears = 0 /\ valueToToken' = valueToToken /\ seen' = seen
  BY DEF vault
<1>2. \A g \in Handler : handler'[g] = IF g = h THEN G ELSE handler[g]
  BY DEF TypeInv, HandlersFit
<1> QED
  BY <1>1, <1>2 DEF RestoreInv

\* What is known of a masking whose tokens are in the vault.
LEMMA SeenTokenized ==
    ASSUME TokensAreForeign, MaskerInv, clears = 0, NEW x \in seen
    PROVE  LET tok == valueToToken IN
           /\ x.original \in Seq(Element) /\ x.masked \in Seq(Element)
           /\ Tokenized(tok, x.original, x.spans) /\ Readable(tok, x.original)
           /\ TokenMap(tok)
           /\ \E cut : Masks(tok, x.masked, x.original, x.spans, cut, Len(x.original) + 1)
<1>1. /\ x.original \in Text /\ x.original \in Seq(Element) /\ x.masked \in Seq(Element)
      /\ x.spans \subseteq Scan(x.original)
  BY TextsAndWords DEF MaskerInv, TypeInv, SeenFits, Masking
<1>2. valueToToken \in [Value -> Token \cup {None}]
  BY DEF MaskerInv, TypeInv, VaultTypes
<1>3. /\ \A s \in x.spans : valueToToken[s.value] # None
      /\ \E cut : Masks(valueToToken, x.masked, x.original, x.spans, cut, Len(x.original) + 1)
  BY DEF MaskerInv, MaskInv
<1>4. Tokenized(valueToToken, x.original, x.spans)
  BY <1>1, <1>2, <1>3, ScanFinds DEF Tokenized
<1>5. Readable(valueToToken, x.original)
  BY <1>1, VaultIsReadable DEF MaskerInv
<1> QED
  BY <1>1, <1>2, <1>3, <1>4, <1>5 DEF TokenMap

\* With an empty vault nothing was replaced.
LEMMA NothingReplaced ==
    ASSUME TokensAreForeign, MaskerInv, clears = 0, NEW x \in seen,
           \A k \in Token : tokenToValue[k] = None
    PROVE  x.masked = x.original
<1> DEFINE u == x.original
           e == Len(u) + 1
           c == [i \in 1 .. e |-> i]
           tok == valueToToken
<1>1. /\ u \in Seq(Element) /\ x.masked \in Seq(Element)
      /\ Tokenized(tok, u, x.spans)
      /\ \E cut : Masks(tok, x.masked, u, x.spans, cut, e)
  BY SeenTokenized
<1>2. x.spans = {}
  <2> SUFFICES ASSUME NEW s \in x.spans PROVE FALSE
    OBVIOUS
  <2>1. s.value \in Value /\ tok[s.value] \in Token
    BY <1>1, ScanFinds DEF Tokenized
  <2>2. tokenToValue[tok[s.value]] = s.value
    BY <2>1 DEF MaskerInv, VaultInv, MapsAgree
  <2> QED
    BY <2>1, <2>2, MaskerAssumption
<1>3. Resolved(u, {}, x.spans)
  BY DEF MaskerInv, ResolvedInv
<1>4. PICK cut : Masks(tok, x.masked, u, {}, cut, e)
  BY <1>1, <1>2
<1>5. e \in Nat \ {0} /\ Len(u) \in Nat
  BY <1>1
<1>6. Masks(tok, u, u, {}, c, e)
  BY <1>5 DEF Masks, StandsFor
<1>7. Resolved(u, {}, {})
  BY <1>2, <1>3
<1> HIDE DEF u, e, c, tok
<1>8. x.masked = u
  BY <1>1, <1>4, <1>5, <1>6, <1>7, SameMask
<1> QED
  BY <1>8 DEF u

LEMMA RestoreUnmask ==
    ASSUME TokensAreForeign, MaskerInv, RestoreInv, NEW h \in Handler, NEW x \in seen,
           UnmaskText(h, x.masked)
    PROVE  RestoreInv'
<1>1. PICK G \in HandlerState :
         /\ handler' = [handler EXCEPT ![h] = G]
         /\ G.text = x.masked /\ G.index = 1 /\ G.failed = FALSE
         /\ (\A k \in Token : tokenToValue[k] = None) => G.pc = "restored" /\ G.output = x.masked
         /\ ~(\A k \in Token : tokenToValue[k] = None) => G.pc = "get" /\ G.output = <<>>
  BY UnmaskTextEffect DEF MaskerInv
<1>2. UNCHANGED <<vault, seen>>
  BY DEF UnmaskText
<1>3. ASSUME clears = 0 PROVE Restores(G, x, valueToToken)
  <2>1. CASE \A k \in Token : tokenToValue[k] = None
    <3>1. x.masked = x.original
      BY <1>3, <2>1, NothingReplaced
    <3> QED
      BY <1>1, <2>1, <3>1 DEF Restores
  <2>2. CASE ~(\A k \in Token : tokenToValue[k] = None)
    <3>1. PICK cut : Masks(valueToToken, x.masked, x.original, x.spans, cut, Len(x.original) + 1)
      BY <1>3, SeenTokenized
    <3>2. cut[1] = 1
      BY <3>1 DEF Masks
    <3>3. x.original \in Seq(Element)
      BY <1>3, SeenTokenized
    <3>4. SubSeq(x.original, 1, cut[1] - 1) = <<>>
      BY <3>2, <3>3
    <3> QED
      BY <1>1, <2>2, <3>1, <3>4 DEF Restores
  <2> QED
    BY <2>1, <2>2
<1> QED
  BY <1>1, <1>2, <1>3, RestoreBy DEF MaskerInv

LEMMA PrefixJoin ==
    ASSUME NEW u \in Seq(Element), NEW p \in 1 .. Len(u) + 1, NEW q \in p .. Len(u) + 1
    PROVE  Piece(u, 1, p) \o Piece(u, p, q) = Piece(u, 1, q)
BY DEF Piece

LEMMA PrefixAppend ==
    ASSUME NEW u \in Seq(Element), NEW p \in 1 .. Len(u)
    PROVE  Append(SubSeq(u, 1, p - 1), u[p]) = SubSeq(u, 1, (p + 1) - 1)
OBVIOUS

\* Where the elements of a mask stand.
LEMMA CutTypes ==
    ASSUME NEW tok, NEW t \in Seq(Element), NEW u \in Seq(Element), NEW S, NEW cut,
           Masks(tok, t, u, S, cut, Len(u) + 1)
    PROVE  /\ \A i \in 1 .. Len(t) + 1 : cut[i] \in 1 .. Len(u) + 1
           /\ cut[Len(t) + 1] = Len(u) + 1
           /\ \A i \in 1 .. Len(t) : /\ cut[i] \in 1 .. Len(u)
                                     /\ StandsFor(tok, t[i], u, S, cut[i], cut[i + 1])
<1>1. /\ Len(t) \in Nat /\ Len(u) \in Nat
      /\ cut \in [1 .. Len(t) + 1 -> 1 .. Len(u) + 1] /\ cut[Len(t) + 1] = Len(u) + 1
      /\ \A i \in 1 .. Len(t) :
            cut[i] < Len(u) + 1 /\ StandsFor(tok, t[i], u, S, cut[i], cut[i + 1])
  BY DEF Masks
<1>2. \A i \in 1 .. Len(t) + 1 : cut[i] \in 1 .. Len(u) + 1
  BY <1>1
<1>3. ASSUME NEW i \in 1 .. Len(t) PROVE cut[i] \in 1 .. Len(u)
  <2>1. i \in 1 .. Len(t) + 1
    BY <1>1
  <2>2. cut[i] \in 1 .. Len(u) + 1 /\ cut[i] < Len(u) + 1
    BY <1>1, <1>2, <2>1
  <2> QED
    BY <1>1, <2>2
<1> QED
  BY <1>1, <1>2, <1>3

\* Copying the elements from a up to b, none of which is a token.
LEMMA RestoreCopy ==
    ASSUME NEW tok, NEW t, NEW u, NEW S, NEW cut, NEW a, NEW b,
           Copied(tok, t, u, S, cut, Len(u) + 1, a, b)
    PROVE  Piece(u, 1, cut[a]) \o Piece(t, a, b) = Piece(u, 1, cut[b])
<1>1. /\ t \in Seq(Element) /\ u \in Seq(Element) /\ Masks(tok, t, u, S, cut, Len(u) + 1)
      /\ a \in 1 .. Len(t) + 1 /\ b \in a .. Len(t) + 1
  BY DEF Copied
<1>2. cut[b] = cut[a] + (b - a) /\ Piece(t, a, b) = Piece(u, cut[a], cut[b])
  BY Run
<1>3. cut[a] \in 1 .. Len(u) + 1 /\ cut[b] \in 1 .. Len(u) + 1
  <2>1. \A i \in 1 .. Len(t) + 1 : cut[i] \in 1 .. Len(u) + 1
    BY <1>1, CutTypes
  <2>2. b \in 1 .. Len(t) + 1
    BY <1>1
  <2> QED
    BY <1>1, <2>1, <2>2
<1> DEFINE p == cut[a]
           q == cut[b]
<1>4. p \in 1 .. Len(u) + 1 /\ q \in p .. Len(u) + 1
  BY <1>1, <1>2, <1>3
<1> HIDE DEF p, q
<1>5. Piece(u, 1, p) \o Piece(u, p, q) = Piece(u, 1, q)
  BY <1>1, <1>4, PrefixJoin
<1> QED
  BY <1>2, <1>5 DEF p, q

\* The tokens that Get does not find are not of this vault.
LEMMA NotFound ==
    ASSUME MaskerInv, NEW k \in Token, tokenToValue[k] = None
    PROVE  NoTokenIs(valueToToken, k)
<1> SUFFICES ASSUME NEW w \in Value, valueToToken[w] # None, valueToToken[w] = k PROVE FALSE
  BY DEF NoTokenIs
<1>1. tokenToValue[k] = w
  BY DEF MaskerInv, VaultInv, MapsAgree
<1> QED
  BY <1>1, MaskerAssumption

LEMMA RestoreGet ==
    ASSUME TokensAreForeign, MaskerInv, RestoreInv, NEW h \in Handler, GetToken(h)
    PROVE  RestoreInv'
<1> DEFINE H == handler[h]
           tok == valueToToken
<1>1. PICK i \in FirstToken(H.text, H.index), G \in HandlerState :
         LET before == H.output \o SubSeq(H.text, H.index, i - 1) IN
         /\ handler' = [handler EXCEPT ![h] = G]
         /\ G.text = H.text
         /\ tokenToValue[H.text[i]] = None =>
               /\ G.pc = "get" /\ G.output = Append(before, H.text[i])
               /\ G.index = i + 1 /\ G.failed = FALSE
         /\ tokenToValue[H.text[i]] # None =>
               /\ G.pc = "open" /\ G.output = before /\ G.index = i
               /\ G.failed = H.failed
               /\ G.ciphertext = tokenToValue[H.text[i]]
  BY GetTokenEffect DEF MaskerInv
<1>2. UNCHANGED <<vault, seen>> /\ H.pc = "get"
  BY DEF GetToken
<1> DEFINE t == H.text
           before == H.output \o SubSeq(t, H.index, i - 1)
<1>3. ASSUME clears = 0 PROVE ~G.failed /\ \E x \in seen : Restores(G, x, tok)
  <2>1. ~H.failed /\ \E x \in seen : Restores(H, x, tok)
    BY <1>2, <1>3 DEF RestoreInv
  <2>2. PICK x \in seen : Restores(H, x, tok)
    BY <2>1
  <2> DEFINE u == x.original
             S == x.spans
  <2>3. t = x.masked
    BY <2>2 DEF Restores
  <2>4. /\ u \in Seq(Element) /\ t \in Seq(Element)
        /\ Tokenized(tok, u, S) /\ Readable(tok, u)
        /\ TokenMap(tok)
    BY <1>3, <2>3, SeenTokenized
  <2>5. PICK cut : /\ Masks(tok, t, u, S, cut, Len(u) + 1)
                   /\ H.output = SubSeq(u, 1, cut[H.index] - 1)
    BY <1>2, <2>2, <2>3 DEF Restores
  <2>6. /\ H.index \in 1 .. Len(t) + 1 /\ i \in H.index .. Len(t) /\ i \in 1 .. Len(t) /\ t[i] \in Token
        /\ \A j \in H.index .. i - 1 : t[j] \notin Token
    <3>1. H \in HandlerState /\ Fits(H, clears)
      BY DEF MaskerInv, TypeInv, HandlersFit
    <3>2. H.index \in Nat \ {0} /\ H.index <= Len(t) + 1 /\ Len(t) \in Nat
      BY <3>1, <2>4, HandlerTypes DEF Fits, Position
    <3>3. /\ i \in H.index .. Len(t) /\ t[i] \in Token
          /\ \A j \in H.index .. Len(t) : t[j] \in Token => i <= j
      BY DEF FirstToken, TokensFrom
    <3> HIDE DEF H, t
    <3> QED
      BY <3>2, <3>3
  <2> HIDE DEF tok, t, u, S
  <2>7. H.output \o SubSeq(t, H.index, i - 1) = SubSeq(u, 1, cut[i] - 1)
    <3> DEFINE a == H.index
    <3>1. Copied(tok, t, u, S, cut, Len(u) + 1, a, i)
      BY <2>4, <2>5, <2>6 DEF Copied
    <3> HIDE DEF a
    <3>2. Piece(u, 1, cut[a]) \o Piece(t, a, i) = Piece(u, 1, cut[i])
      BY <3>1, RestoreCopy
    <3> QED
      BY <3>2, <2>5 DEF a, Piece
  <2>8. /\ cut[i] \in 1 .. Len(u) /\ StandsFor(tok, t[i], u, S, cut[i], cut[i + 1])
    BY <2>4, <2>5, <2>6, CutTypes
  <2>9. CASE tokenToValue[t[i]] = None
    <3>1. NoTokenIs(tok, t[i])
      BY <2>6, <2>9, NotFound DEF tok
    <3>2. cut[i + 1] = cut[i] + 1 /\ t[i] = u[cut[i]]
      <4> DEFINE k == t[i]
                 from == cut[i]
                 to == cut[i + 1]
      <4>1. StandsFor(tok, k, u, S, from, to) /\ NoTokenIs(tok, k)
        BY <2>8, <3>1
      <4> HIDE DEF k, from, to
      <4>2. to = from + 1 /\ k = u[from]
        BY <2>4, <4>1, StandOfOther
      <4> QED
        BY <4>2 DEF k, from, to
    <3>3. Append(SubSeq(u, 1, cut[i] - 1), t[i]) = SubSeq(u, 1, cut[i + 1] - 1)
      <4> DEFINE p == cut[i]
      <4>1. p \in 1 .. Len(u) /\ cut[i + 1] = p + 1 /\ t[i] = u[p]
        BY <2>8, <3>2
      <4> HIDE DEF p
      <4>2. Append(SubSeq(u, 1, p - 1), u[p]) = SubSeq(u, 1, (p + 1) - 1)
        BY <2>4, <4>1, PrefixAppend
      <4> QED
        BY <4>1, <4>2 DEF p
    <3>4. /\ G.pc = "get" /\ G.output = Append(before, t[i]) /\ G.index = i + 1
          /\ G.failed = FALSE /\ G.text = t
      BY <1>1, <2>9 DEF t
    <3>5. G.output = SubSeq(u, 1, cut[G.index] - 1)
      BY <2>7, <3>3, <3>4
    <3>6. Restores(G, x, tok)
      BY <2>3, <2>5, <3>4, <3>5 DEF Restores, u, S
    <3> QED
      BY <3>4, <3>6
  <2>10. CASE tokenToValue[t[i]] # None
    <3> DEFINE w == tokenToValue[t[i]]
    <3>1. w \in Value
      BY <2>6, <2>10 DEF MaskerInv, TypeInv, VaultTypes
    <3>2. tok[w] = t[i]
      BY <2>6, <3>1 DEF MaskerInv, VaultInv, MapsAgree, tok
    <3>3. /\ G.pc = "open" /\ G.output = before /\ G.index = i
          /\ G.failed = H.failed /\ G.ciphertext = w /\ G.text = t
      BY <1>1, <2>10 DEF t
    <3>4. /\ G.output = SubSeq(u, 1, cut[G.index] - 1) /\ tok[G.ciphertext] = G.text[G.index]
          /\ G.text[G.index] \in Token
      BY <2>6, <2>7, <3>2, <3>3
    <3>5. Restores(G, x, tok)
      BY <2>3, <2>5, <3>3, <3>4 DEF Restores, u, S
    <3> QED
      BY <2>1, <3>3, <3>5
  <2> QED
    BY <2>9, <2>10
<1> QED
  BY <1>1, <1>2, <1>3, RestoreBy DEF MaskerInv

LEMMA RestoreOpen ==
    ASSUME TokensAreForeign, MaskerInv, RestoreInv, NEW h \in Handler, OpenCiphertext(h)
    PROVE  RestoreInv'
<1> DEFINE H == handler[h]
           tok == valueToToken
           t == H.text
           i == H.index
           w == H.ciphertext
<1>1. PICK G \in HandlerState :
         /\ handler' = [handler EXCEPT ![h] = G]
         /\ G.pc = "get" /\ G.text = t /\ G.index = i + 1
         /\ H.read = clears => G.output = H.output \o w /\ G.failed = H.failed
  BY OpenCiphertextEffect DEF MaskerInv
<1>2. UNCHANGED <<vault, seen>> /\ H.pc = "open"
  BY DEF OpenCiphertext
<1>3. ASSUME clears = 0 PROVE ~G.failed /\ \E x \in seen : Restores(G, x, tok)
  <2>1. ~H.failed /\ \E x \in seen : Restores(H, x, tok)
    BY <1>2, <1>3 DEF RestoreInv
  <2>2. PICK x \in seen : Restores(H, x, tok)
    BY <2>1
  <2> DEFINE u == x.original
             S == x.spans
  <2>3. t = x.masked /\ tok[w] = t[i] /\ t[i] \in Token
    BY <1>2, <2>2 DEF Restores
  <2>4. /\ u \in Seq(Element) /\ t \in Seq(Element)
        /\ Tokenized(tok, u, S) /\ Readable(tok, u)
        /\ TokenMap(tok)
    BY <1>3, <2>3, SeenTokenized
  <2>5. PICK cut : /\ Masks(tok, t, u, S, cut, Len(u) + 1)
                   /\ H.output = SubSeq(u, 1, cut[i] - 1)
    BY <1>2, <2>2, <2>3 DEF Restores
  <2>6. i \in 1 .. Len(t) /\ w \in Value /\ H.read = clears
    <3>1. H \in HandlerState /\ Fits(H, clears)
      BY DEF MaskerInv, TypeInv, HandlersFit
    <3>2. i \in Nat \ {0} /\ Len(t) \in Nat /\ H.read \in Nat
      BY <3>1, <2>4, HandlerTypes DEF Position
    <3> QED
      BY <1>2, <1>3, <3>1, <3>2 DEF Fits
  <2>7. G.output = H.output \o w /\ G.failed = H.failed
    BY <1>1, <2>6
  <2> HIDE DEF tok, t, i, w, u, S, H
  <2>8. cut[i] \in 1 .. Len(u) /\ StandsFor(tok, t[i], u, S, cut[i], cut[i + 1])
    BY <2>4, <2>5, <2>6, CutTypes
  <2> DEFINE k == t[i]
             from == cut[i]
             to == cut[i + 1]
  <2>9. /\ StandsFor(tok, k, u, S, from, to) /\ IsTokenOf(tok, k, w) /\ from \in 1 .. Len(u)
        /\ u \in Seq(Element) /\ Tokenized(tok, u, S) /\ Readable(tok, u)
    BY <2>3, <2>4, <2>6, <2>8, NoneIsNoToken DEF IsTokenOf
  <2>10. H.output = SubSeq(u, 1, from - 1)
    BY <2>5
  <2> HIDE DEF k, from, to
  <2>11. to = from + Len(w) /\ to <= Len(u) + 1 /\ w = SubSeq(u, from, to - 1)
    BY ONLY <2>9, StandOfToken
  <2>12. Len(w) \in Nat
    BY <2>6, TextsAndWords
  <2>13. from \in 1 .. Len(u) + 1 /\ to \in from .. Len(u) + 1
    BY <2>4, <2>9, <2>11, <2>12
  <2>14. SubSeq(u, 1, from - 1) \o w = SubSeq(u, 1, to - 1)
    <3>1. Piece(u, 1, from) \o Piece(u, from, to) = Piece(u, 1, to)
      BY <2>4, <2>13, PrefixJoin
    <3> QED
      BY <2>11, <3>1 DEF Piece
  <2>15. G.output = SubSeq(u, 1, cut[G.index] - 1)
    BY <1>1, <2>7, <2>10, <2>14 DEF to
  <2>16. Restores(G, x, tok)
    BY <1>1, <2>3, <2>5, <2>15 DEF Restores, u, S
  <2> QED
    BY <2>1, <2>7, <2>16
<1> QED
  BY <1>1, <1>2, <1>3, RestoreBy DEF MaskerInv

LEMMA RestoreReturn ==
    ASSUME TokensAreForeign, MaskerInv, RestoreInv, NEW h \in Handler, ReturnRestored(h)
    PROVE  RestoreInv'
<1> DEFINE H == handler[h]
           tok == valueToToken
           t == H.text
           a == H.index
<1>1. PICK G \in HandlerState :
         /\ handler' = [handler EXCEPT ![h] = G]
         /\ G.pc = "restored" /\ G.text = t
         /\ ~H.failed => G.output = H.output \o SubSeq(t, a, Len(t))
  BY ReturnRestoredEffect DEF MaskerInv
<1>2. UNCHANGED <<vault, seen>> /\ H.pc = "get" /\ TokensFrom(t, a) = {}
  BY DEF ReturnRestored
<1>3. ASSUME clears = 0 PROVE \E x \in seen : Restores(G, x, tok)
  <2>1. ~H.failed /\ \E x \in seen : Restores(H, x, tok)
    BY <1>2, <1>3 DEF RestoreInv
  <2>2. PICK x \in seen : Restores(H, x, tok)
    BY <2>1
  <2> DEFINE u == x.original
             S == x.spans
             b == Len(t) + 1
  <2>3. t = x.masked
    BY <2>2 DEF Restores
  <2>4. /\ u \in Seq(Element) /\ t \in Seq(Element)
        /\ Tokenized(tok, u, S) /\ TokenMap(tok)
    BY <1>3, <2>3, SeenTokenized
  <2>5. PICK cut : /\ Masks(tok, t, u, S, cut, Len(u) + 1)
                   /\ H.output = SubSeq(u, 1, cut[a] - 1)
    BY <1>2, <2>2, <2>3 DEF Restores
  <2>6. a \in 1 .. Len(t) + 1 /\ b \in a .. Len(t) + 1 /\ b - 1 = Len(t) /\ Len(t) \in Nat
    <3>1. H \in HandlerState /\ Fits(H, clears)
      BY DEF MaskerInv, TypeInv, HandlersFit
    <3>2. a \in Nat \ {0} /\ a <= Len(t) + 1 /\ Len(t) \in Nat
      BY <3>1, <2>4, HandlerTypes DEF Fits, Position
    <3> HIDE DEF a, t
    <3> QED
      BY <3>2
  <2>7. \A j \in a .. b - 1 : t[j] \notin Token
    BY <1>2, <2>6 DEF TokensFrom
  <2> HIDE DEF tok, t, u, S, a, b, H
  <2>8. Copied(tok, t, u, S, cut, Len(u) + 1, a, b)
    BY <2>4, <2>5, <2>6, <2>7 DEF Copied
  <2>9. Piece(u, 1, cut[a]) \o Piece(t, a, b) = Piece(u, 1, cut[b])
    BY <2>8, RestoreCopy
  <2>10. cut[b] = Len(u) + 1
    <3>1. cut[Len(t) + 1] = Len(u) + 1
      BY ONLY <2>5 DEF Masks
    <3> QED
      BY ONLY <3>1 DEF b
  <2>11. Piece(u, 1, cut[b]) = u
    BY <2>4, <2>10 DEF Piece
  <2>12. G.output = u
    BY <1>1, <2>1, <2>5, <2>6, <2>9, <2>11 DEF Piece
  <2>13. Restores(G, x, tok)
    BY <1>1, <2>3, <2>12 DEF Restores, u
  <2> QED
    BY <2>13
<1> QED
  BY <1>1, <1>2, <1>3, RestoreBy DEF MaskerInv

\* The others go on while tokens are put into the vault and texts are masked.
LEMMA RestoreBeside ==
    ASSUME TokensAreForeign, MaskerInv, RestoreInv, NEW h \in Handler, NEW G,
           handler' = [handler EXCEPT ![h] = G], G.pc \notin {"get", "open", "restored"},
           clears' = clears, seen \subseteq seen',
           \A w \in Value : valueToToken[w] # None => valueToToken'[w] = valueToToken[w]
    PROVE  RestoreInv'
<1> SUFFICES ASSUME clears' = 0, NEW g \in Handler, handler'[g].pc \in {"get", "open", "restored"}
             PROVE  /\ handler'[g].pc # "restored" => ~handler'[g].failed
                    /\ \E x \in seen' : Restores(handler'[g], x, valueToToken')
  BY DEF RestoreInv
<1> DEFINE H == handler[g]
           tok == valueToToken
           tok2 == valueToToken'
<1>1. clears = 0 /\ handler'[g] = H
  BY DEF MaskerInv, TypeInv, HandlersFit
<1>2. /\ H.pc # "restored" => ~H.failed
      /\ \E x \in seen : Restores(H, x, tok)
  BY <1>1 DEF RestoreInv
<1>3. PICK x \in seen : Restores(H, x, tok)
  BY <1>2
<1>4. Tokenized(tok, x.original, x.spans) /\ x.original \in Seq(Element)
  BY <1>1, SeenTokenized
<1>5. \A s \in x.spans : tok2[s.value] = tok[s.value]
  BY <1>4, ScanFinds, NoneIsNoToken DEF Tokenized
<1>6. Fits(H, clears)
  BY DEF MaskerInv, TypeInv, HandlersFit
<1> HIDE DEF H, tok, tok2
<1>7. H.pc \in {"get", "open"} =>
        \E cut : /\ Masks(tok2, x.masked, x.original, x.spans, cut, Len(x.original) + 1)
                 /\ H.output = SubSeq(x.original, 1, cut[H.index] - 1)
  BY <1>3, <1>5, MasksStays DEF Restores
<1>8. H.pc = "open" => H.text[H.index] \in Token /\ tok2[H.ciphertext] = H.text[H.index]
  <2> SUFFICES ASSUME H.pc = "open"
               PROVE  H.text[H.index] \in Token /\ tok2[H.ciphertext] = H.text[H.index]
    OBVIOUS
  <2>1. H.text[H.index] \in Token /\ tok[H.ciphertext] = H.text[H.index]
    BY <1>3 DEF Restores
  <2>2. H.ciphertext \in Value
    BY <1>6 DEF Fits
  <2> QED
    BY <2>1, <2>2, NoneIsNoToken DEF tok, tok2
<1>9. Restores(H, x, tok2)
  BY <1>3, <1>7, <1>8 DEF Restores
<1> QED
  BY <1>1, <1>2, <1>9 DEF tok2

LEMMA RestoreNext ==
    ASSUME TokensAreForeign
    PROVE  MaskerInv /\ RestoreInv /\ [Next]_vars => RestoreInv'
<1> SUFFICES ASSUME MaskerInv, RestoreInv, [Next]_vars PROVE RestoreInv'
  OBVIOUS
<1>1. ASSUME NEW h \in Handler, NEW t \in Text, MaskText(h, t) PROVE RestoreInv'
  <2>1. UNCHANGED <<vault, seen>>
    BY <1>1 DEF MaskText
  <2>2. \E G \in HandlerState : handler' = [handler EXCEPT ![h] = G] /\ G.pc = "mask"
    BY <1>1, MaskTextEffect DEF MaskerInv
  <2> QED
    BY <2>1, <2>2, RestoreBy DEF MaskerInv
<1>2. ASSUME NEW h \in Handler, ReplaceMatch(h) PROVE RestoreInv'
  <2>1. PICK m \in Foremost(handler[h].matches), G \in HandlerState :
           /\ Put(m.rule, m.value)
           /\ handler' = [handler EXCEPT ![h] = G] /\ G.pc = "mask"
    BY <1>2, ReplaceMatchEffect DEF MaskerInv
  <2>2. m \in Match
    BY HandlerTypes DEF Foremost, MaskerInv, TypeInv, HandlersFit, Matches
  <2>3. \A w \in Value : valueToToken[w] # None => valueToToken'[w] = valueToToken[w]
    BY <2>1, <2>2, PutKeepsTokens DEF Match, MaskerInv, TypeInv
  <2>4. clears' = clears /\ seen \subseteq seen'
    BY <1>2 DEF ReplaceMatch
  <2> QED
    BY <2>1, <2>3, <2>4, RestoreBeside
<1>3. ASSUME NEW h \in Handler, ReturnMasked(h) PROVE RestoreInv'
  <2>1. handler' = [handler EXCEPT ![h] = Idle] /\ seen \subseteq seen'
    BY <1>3, ReturnMaskedEffect DEF MaskerInv
  <2>2. clears' = clears /\ valueToToken' = valueToToken
    BY <1>3 DEF ReturnMasked, vault
  <2> QED
    BY <2>1, <2>2, IdleState, RestoreBeside
<1>4. ASSUME NEW h \in Handler, NEW x \in seen, UnmaskText(h, x.masked) PROVE RestoreInv'
  BY <1>4, RestoreUnmask
<1>5. ASSUME NEW h \in Handler, GetToken(h) PROVE RestoreInv'
  BY <1>5, RestoreGet
<1>6. ASSUME NEW h \in Handler, OpenCiphertext(h) PROVE RestoreInv'
  BY <1>6, RestoreOpen
<1>7. ASSUME NEW h \in Handler, ReturnRestored(h) PROVE RestoreInv'
  BY <1>7, RestoreReturn
<1>8. CASE Clear
  <2>1. clears \in Nat /\ clears' = clears + 1
    BY <1>8 DEF Clear, MaskerInv, TypeInv, VaultTypes
  <2> QED
    BY <2>1 DEF RestoreInv
<1>9. CASE UNCHANGED vars
  BY <1>9 DEF vars, vault, RestoreInv
<1> QED
  BY <1>1, <1>2, <1>3, <1>4, <1>5, <1>6, <1>7, <1>8, <1>9 DEF Next, Handle

\* Until the vault is cleared, a request that holds a masked text has the
\* original when its tokens have been replaced, whatever is masked and restored at
\* the same time: if no two values share a suffix, and no text held a token of
\* this vault before it was masked.
THEOREM OriginalsReturn ==
    ASSUME NoCollision, TokensAreForeign
    PROVE  Spec => []RoundTrip
<1>1. MaskerInv /\ RestoreInv => RoundTrip
  <2> SUFFICES ASSUME MaskerInv, RestoreInv, NEW h \in Handler, NEW x \in seen,
                      clears = 0, handler[h].pc = "restored", handler[h].text = x.masked
               PROVE  handler[h].output = x.original
    BY DEF RoundTrip
  <2>1. PICK y \in seen : Restores(handler[h], y, valueToToken)
    BY DEF RestoreInv
  <2>2. y.masked = x.masked /\ handler[h].output = y.original
    BY <2>1 DEF Restores
  <2> DEFINE tok == valueToToken
             t == x.masked
             u == x.original
             v == y.original
             S == x.spans
             R == y.spans
  <2>3. /\ u \in Seq(Element) /\ t \in Seq(Element) /\ Tokenized(tok, u, S) /\ Readable(tok, u)
        /\ \E c : Masks(tok, t, u, S, c, Len(u) + 1)
    BY SeenTokenized
  <2>4. /\ v \in Seq(Element) /\ Tokenized(tok, v, R) /\ Readable(tok, v)
        /\ \E d : Masks(tok, t, v, R, d, Len(v) + 1)
    BY <2>2, SeenTokenized
  <2>5. PICK c : Masks(tok, t, u, S, c, Len(u) + 1)
    BY <2>3
  <2>6. PICK d : Masks(tok, t, v, R, d, Len(v) + 1)
    BY <2>4
  <2> HIDE DEF tok, t, u, v, S, R
  <2>7. u = v
    BY <2>3, <2>4, <2>5, <2>6, SameOriginal
  <2> QED
    BY <2>2, <2>7 DEF u, v
<1>2. MaskerInv /\ RestoreInv /\ [Next]_vars => MaskerInv' /\ RestoreInv'
  BY TypeNext, VaultNext, ResolvedNext, MaskNext, RestoreNext DEF MaskerInv
<1> QED
  BY MaskerInit, RestoreInit, <1>1, <1>2, PTL DEF Spec

-------------------------------------------------------------------------------
(***************************************************************************)
(* No token is replaced by a wrong value, whenever the vault is cleared.   *)
(***************************************************************************)
\* FlattenSeq is well defined, and a longer sequence is flattened by one more
\* concatenation.
FlatTo(s, n, g) == g = [i \in 1 .. n |-> IF i = 1 THEN s[i] ELSE g[i - 1] \o s[i]]

LEMMA FlatExists ==
    ASSUME NEW s, NEW n \in Nat
    PROVE  \E g : FlatTo(s, n, g)
<1> DEFINE T == {j \in Nat : ~\E g : FlatTo(s, j, g)}
<1>1. SUFFICES ASSUME T # {} PROVE FALSE
  OBVIOUS
<1>2. PICK j \in T : \A i \in T : j <= i
  BY <1>1, Least
<1>3. CASE j = 0
  <2>1. FlatTo(s, 0, [i \in 1 .. 0 |-> s[i]])
    BY DEF FlatTo
  <2> QED
    BY <1>2, <1>3, <2>1
<1>4. CASE j # 0
  <2>1. j - 1 \in Nat /\ j - 1 \notin T
    BY <1>2, <1>4
  <2>2. PICK g : FlatTo(s, j - 1, g)
    BY <2>1
  <2> DEFINE last == IF j = 1 THEN s[j] ELSE g[j - 1] \o s[j]
             h == [i \in 1 .. j |-> IF i = j THEN last ELSE g[i]]
  <2>3. \A i \in 1 .. j - 1 : g[i] = IF i = 1 THEN s[i] ELSE g[i - 1] \o s[i]
    BY <2>2 DEF FlatTo
  <2>4. ASSUME NEW i \in 1 .. j PROVE h[i] = IF i = 1 THEN s[i] ELSE h[i - 1] \o s[i]
    <3>1. CASE i = j
      <4>1. h[i] = IF i = 1 THEN s[i] ELSE g[i - 1] \o s[i]
        BY <3>1
      <4>2. i # 1 => h[i - 1] = g[i - 1]
        BY <3>1
      <4> HIDE DEF h
      <4> QED
        BY <4>1, <4>2
    <3>2. CASE i # j
      <4>1. i \in 1 .. j - 1
        BY <3>2
      <4>2. h[i] = g[i] /\ (i # 1 => h[i - 1] = g[i - 1])
        BY <4>1
      <4> HIDE DEF h
      <4> QED
        BY <2>3, <4>1, <4>2
    <3> QED
      BY <3>1, <3>2
  <2>5. h = [i \in 1 .. j |-> h[i]]
    OBVIOUS
  <2> HIDE DEF h
  <2>6. FlatTo(s, j, h)
    BY <2>4, <2>5 DEF FlatTo
  <2> QED
    BY <1>2, <2>6
<1> QED
  BY <1>3, <1>4

LEMMA FlatAgree ==
    ASSUME NEW s, NEW r, NEW n \in Nat, NEW m \in Nat, NEW g, NEW h,
           FlatTo(s, n, g), FlatTo(r, m, h),
           NEW k \in Nat, k <= n, k <= m, \A i \in 1 .. k : s[i] = r[i]
    PROVE  \A i \in 1 .. k : g[i] = h[i]
<1> DEFINE T == {i \in Nat : i \in 1 .. k /\ g[i] # h[i]}
<1>1. SUFFICES ASSUME T # {} PROVE FALSE
  OBVIOUS
<1>2. PICK i \in T : \A j \in T : i <= j
  BY <1>1, Least
<1>3. g[i] = IF i = 1 THEN s[i] ELSE g[i - 1] \o s[i]
  <2>1. i \in 1 .. n
    BY <1>2
  <2> QED
    BY <2>1 DEF FlatTo
<1>4. h[i] = IF i = 1 THEN r[i] ELSE h[i - 1] \o r[i]
  <2>1. i \in 1 .. m
    BY <1>2
  <2> QED
    BY <2>1 DEF FlatTo
<1>5. i # 1
  BY <1>2, <1>3, <1>4
<1>6. i - 1 \in Nat /\ i - 1 \in 1 .. k /\ i - 1 \notin T
  BY <1>2, <1>5
<1>7. g[i - 1] = h[i - 1] /\ s[i] = r[i]
  BY <1>2, <1>6
<1> QED
  BY <1>2, <1>3, <1>4, <1>7

LEMMA FlattenIs ==
    ASSUME NEW s, NEW n \in Nat, n # 0, Len(s) = n
    PROVE  \E g : FlatTo(s, n, g) /\ FlattenSeq(s) = g[n]
<1> DEFINE f == CHOOSE g : FlatTo(s, n, g)
<1>1. FlatTo(s, n, f)
  BY FlatExists
<1>2. FlattenSeq(s) = f[n]
  BY DEF FlattenSeq, FlatTo
<1> QED
  BY <1>1, <1>2

\* What stands for position i when the tokens at S are opened, and the text up to
\* position k.
Part(t, S, i) == IF i \in S THEN CHOOSE v \in Named(t[i].ref) : TRUE ELSE <<t[i]>>

Written(t, S, k) == FlattenSeq([i \in 1 .. k |-> Part(t, S, i)])

LEMMA WrittenStep ==
    ASSUME NEW t, NEW S, NEW k \in Nat
    PROVE  /\ Written(t, S, 0) = <<>>
           /\ k = 0 => Written(t, S, k + 1) = Part(t, S, k + 1)
           /\ k # 0 => Written(t, S, k + 1) = Written(t, S, k) \o Part(t, S, k + 1)
<1> DEFINE p(n) == [i \in 1 .. n |-> Part(t, S, i)]
<1>1. \A n \in Nat : Len(p(n)) = n /\ \A i \in 1 .. n : p(n)[i] = Part(t, S, i)
  OBVIOUS
<1>2. Written(t, S, 0) = <<>>
  <2>1. Len(p(0)) = 0 /\ p(0) = <<>>
    BY <1>1
  <2> QED
    BY <2>1 DEF Written, FlattenSeq
<1> HIDE DEF p
<1>3. \A n \in Nat : Written(t, S, n) = FlattenSeq(p(n))
  BY DEF Written, p
<1>4. k + 1 \in Nat /\ k + 1 # 0 /\ (k + 1) - 1 = k /\ k + 1 \in 1 .. k + 1
      /\ \A i \in 1 .. k : i \in 1 .. k + 1
  OBVIOUS
<1>5. PICK g : FlatTo(p(k + 1), k + 1, g) /\ FlattenSeq(p(k + 1)) = g[k + 1]
  BY <1>1, <1>4, FlattenIs
<1>6. g[k + 1] = IF k + 1 = 1 THEN p(k + 1)[k + 1] ELSE g[(k + 1) - 1] \o p(k + 1)[k + 1]
  BY <1>4, <1>5 DEF FlatTo
<1>7. p(k + 1)[k + 1] = Part(t, S, k + 1)
  BY <1>1, <1>4
<1>8. CASE k = 0
  BY <1>2, <1>3, <1>4, <1>5, <1>6, <1>7, <1>8
<1>9. CASE k # 0
  <2>1. PICK h : FlatTo(p(k), k, h) /\ FlattenSeq(p(k)) = h[k]
    BY <1>1, <1>9, FlattenIs
  <2>2. \A i \in 1 .. k : p(k + 1)[i] = p(k)[i]
    BY <1>1, <1>4
  <2>3. k <= k + 1 /\ k <= k /\ k \in 1 .. k
    BY <1>9
  <2>4. \A i \in 1 .. k : g[i] = h[i]
    <3> DEFINE r == p(k + 1)
               s == p(k)
               m == k + 1
    <3>1. /\ FlatTo(r, m, g) /\ FlatTo(s, k, h) /\ m \in Nat /\ k <= m /\ k <= k
          /\ \A i \in 1 .. k : r[i] = s[i]
      BY <1>4, <1>5, <2>1, <2>2, <2>3
    <3> HIDE DEF r, s, m
    <3> QED
      BY ONLY k \in Nat, <3>1, FlatAgree
  <2>5. g[k] = h[k] /\ k + 1 # 1
    BY <1>9, <2>3, <2>4
  <2> QED
    BY <1>2, <1>3, <1>4, <1>5, <1>6, <1>7, <1>9, <2>1, <2>5
<1> QED
  BY <1>8, <1>9

\* The positions of t whose token was made for some value.
Opens(t) == {i \in TokensFrom(t, 1) : Named(t[i].ref) # {}}

LEMMA PartType ==
    ASSUME NEW t \in Seq(Element), NEW S \in SUBSET Opens(t), NEW i \in 1 .. Len(t)
    PROVE  Part(t, S, i) \in Seq(Element)
<1>1. CASE i \in S
  <2>1. Named(t[i].ref) # {} /\ Named(t[i].ref) \subseteq Value
    BY <1>1 DEF Opens, Named
  <2>2. (CHOOSE v \in Named(t[i].ref) : TRUE) \in Value
    BY <2>1
  <2> QED
    BY <1>1, <2>2, TextsAndWords DEF Part
<1>2. CASE i \notin S
  <2>1. t[i] \in Element
    OBVIOUS
  <2> QED
    BY <1>2, <2>1 DEF Part
<1> QED
  BY <1>1, <1>2

LEMMA WrittenType ==
    ASSUME NEW t \in Seq(Element), NEW S \in SUBSET Opens(t), NEW k \in 0 .. Len(t)
    PROVE  Written(t, S, k) \in Seq(Element)
<1> DEFINE T == {j \in Nat : j <= Len(t) /\ Written(t, S, j) \notin Seq(Element)}
<1>1. SUFFICES ASSUME T # {} PROVE FALSE
  OBVIOUS
<1>2. PICK j \in T : \A i \in T : j <= i
  BY <1>1, Least
<1>3. j # 0
  <2>1. Written(t, S, 0) = <<>> /\ <<>> \in Seq(Element)
    BY WrittenStep
  <2> DEFINE w == Written(t, S, 0)
  <2>2. w \in Seq(Element) /\ (j = 0 => Written(t, S, j) = w)
    BY <2>1
  <2> HIDE DEF w
  <2> QED
    BY <1>2, <2>2
<1>4. PICK i \in Nat : j = i + 1
  BY <1>2, <1>3
<1>5. i \notin T /\ i <= Len(t) /\ i + 1 \in 1 .. Len(t)
  BY <1>2, <1>4
<1>6. Written(t, S, i) \in Seq(Element) /\ Part(t, S, i + 1) \in Seq(Element)
  BY <1>5, PartType
<1>7. /\ i = 0 => Written(t, S, i + 1) = Part(t, S, i + 1)
      /\ i # 0 => Written(t, S, i + 1) = Written(t, S, i) \o Part(t, S, i + 1)
  BY WrittenStep
<1>8. Written(t, S, i + 1) \in Seq(Element)
  <2> DEFINE p == Written(t, S, i)
             q == Part(t, S, i + 1)
             r == Written(t, S, i + 1)
  <2>1. p \in Seq(Element) /\ q \in Seq(Element) /\ (r = q \/ r = p \o q)
    BY <1>6, <1>7
  <2> HIDE DEF p, q, r
  <2>2. p \o q \in Seq(Element)
    BY ONLY <2>1
  <2>3. r \in Seq(Element)
    BY ONLY <2>1, <2>2
  <2> QED
    BY <2>3 DEF r
<1> QED
  BY <1>2, <1>4, <1>8

LEMMA WrittenNext ==
    ASSUME NEW t \in Seq(Element), NEW S \in SUBSET Opens(t), NEW i \in 1 .. Len(t)
    PROVE  Written(t, S, i) = Written(t, S, i - 1) \o Part(t, S, i)
<1> DEFINE k == i - 1
<1>1. k \in Nat /\ k + 1 = i /\ Written(t, S, 0) = <<>> /\ Part(t, S, i) \in Seq(Element)
  BY PartType, WrittenStep
<1> HIDE DEF k
<1>2. /\ k = 0 => Written(t, S, k + 1) = Part(t, S, k + 1)
      /\ k # 0 => Written(t, S, k + 1) = Written(t, S, k) \o Part(t, S, k + 1)
  BY <1>1, WrittenStep
<1>3. <<>> \o Part(t, S, i) = Part(t, S, i)
  BY <1>1
<1>4. Written(t, S, i) = Written(t, S, k) \o Part(t, S, i)
  BY <1>1, <1>2, <1>3
<1> QED
  BY <1>4 DEF k

LEMMA ConcatAssoc ==
    ASSUME NEW r \in Seq(Element), NEW s \in Seq(Element), NEW t \in Seq(Element)
    PROVE  (r \o s) \o t = r \o (s \o t)
OBVIOUS

LEMMA CopyMore ==
    ASSUME NEW t \in Seq(Element), NEW w \in Seq(Element),
           NEW a \in 1 .. Len(t) + 1, NEW i \in a .. Len(t)
    PROVE  (w \o SubSeq(t, a, i - 1)) \o <<t[i]>> = w \o SubSeq(t, a, i)
<1>1. SubSeq(t, a, i - 1) \o <<t[i]>> = SubSeq(t, a, i)
  OBVIOUS
<1>2. SubSeq(t, a, i - 1) \in Seq(Element) /\ <<t[i]>> \in Seq(Element)
  OBVIOUS
<1> DEFINE p == SubSeq(t, a, i - 1)
           q == <<t[i]>>
<1>3. p \in Seq(Element) /\ q \in Seq(Element) /\ p \o q = SubSeq(t, a, i)
  BY <1>1, <1>2
<1> HIDE DEF p, q
<1>4. (w \o p) \o q = w \o (p \o q)
  BY ONLY w \in Seq(Element), <1>3, ConcatAssoc
<1> QED
  BY <1>3, <1>4 DEF p, q

\* Where no token is opened, the text is copied.
LEMMA WrittenCopy ==
    ASSUME NEW t \in Seq(Element), NEW S \in SUBSET Opens(t),
           NEW a \in 1 .. Len(t) + 1, NEW b \in a .. Len(t) + 1,
           \A i \in a .. b - 1 : i \notin S
    PROVE  Written(t, S, b - 1) = Written(t, S, a - 1) \o SubSeq(t, a, b - 1)
<1> DEFINE Copies(j) == Written(t, S, j - 1) = Written(t, S, a - 1) \o SubSeq(t, a, j - 1)
           T == {j \in Nat : j \in a .. b /\ ~Copies(j)}
<1>1. SUFFICES ASSUME T # {} PROVE FALSE
  <2>1. b \in Nat /\ b \in a .. b
    OBVIOUS
  <2>2. b \notin T => Copies(b)
    BY <2>1
  <2> QED
    BY <2>2
<1>2. PICK j \in T : \A i \in T : j <= i
  BY <1>1, Least
<1> DEFINE w == Written(t, S, a - 1)
<1>3. w \in Seq(Element)
  BY WrittenType
<1> HIDE DEF w
<1>4. j # a
  <2>1. SubSeq(t, a, a - 1) = <<>> /\ w \o <<>> = w
    BY <1>3
  <2>2. Copies(a)
    BY <2>1 DEF w
  <2> QED
    BY <1>2, <2>2
<1>5. PICK i \in a .. b - 1 : j = i + 1
  BY <1>2, <1>4
<1>6. i \in 1 .. Len(t) /\ i \notin S /\ i \in Nat /\ i \in a .. b /\ i \notin T
  <2>1. i \in 1 .. Len(t) /\ i \in Nat /\ i \in a .. b /\ ~(j <= i)
    BY <1>5
  <2> QED
    BY <1>2, <2>1
<1>7. Written(t, S, i - 1) = w \o SubSeq(t, a, i - 1)
  BY <1>6 DEF w
<1>8. Written(t, S, i) = Written(t, S, i - 1) \o <<t[i]>>
  <2>1. Written(t, S, i) = Written(t, S, i - 1) \o Part(t, S, i)
    BY <1>6, WrittenNext
  <2>2. Part(t, S, i) = <<t[i]>>
    BY <1>6 DEF Part
  <2> QED
    BY <2>1, <2>2
<1>9. (w \o SubSeq(t, a, i - 1)) \o <<t[i]>> = w \o SubSeq(t, a, i)
  <2>1. i \in a .. Len(t)
    BY <1>5
  <2> QED
    BY ONLY t \in Seq(Element), a \in 1 .. Len(t) + 1, <1>3, <2>1, CopyMore
<1>10. j - 1 = i
  BY <1>5
<1>11. Copies(j)
  BY <1>7, <1>8, <1>9, <1>10 DEF w
<1> QED
  BY <1>2, <1>11

\* What is written up to k depends on the tokens up to k.
LEMMA WrittenSame ==
    ASSUME NEW t, NEW S, NEW R, NEW k \in Nat, \A i \in 1 .. k : i \in S <=> i \in R
    PROVE  Written(t, S, k) = Written(t, R, k)
<1>1. \A i \in 1 .. k : Part(t, S, i) = Part(t, R, i)
  BY DEF Part
<1>2. [i \in 1 .. k |-> Part(t, S, i)] = [i \in 1 .. k |-> Part(t, R, i)]
  BY <1>1
<1> QED
  BY <1>2 DEF Written

LEMMA OpenedIs ==
    ASSUME NEW t \in Seq(Element), NEW S
    PROVE  Opened(t, S) = Written(t, S, Len(t))
<1>1. DOMAIN t = 1 .. Len(t)
  OBVIOUS
<1> QED
  BY <1>1 DEF Opened, Written, Part

\* A text in which nothing is opened is as it was.
LEMMA NothingOpened ==
    ASSUME NEW t \in Seq(Element)
    PROVE  Opened(t, {}) = t
<1> DEFINE b == Len(t) + 1
           S == {}
<1>1. /\ 1 \in 1 .. Len(t) + 1 /\ b \in 1 .. Len(t) + 1 /\ S \in SUBSET Opens(t)
      /\ b - 1 = Len(t) /\ 1 - 1 = 0 /\ \A i \in 1 .. b - 1 : i \notin S
  OBVIOUS
<1> HIDE DEF b, S
<1>2. Written(t, S, b - 1) = Written(t, S, 1 - 1) \o SubSeq(t, 1, b - 1)
  BY <1>1, WrittenCopy
<1>3. Written(t, S, 0) = <<>> /\ SubSeq(t, 1, Len(t)) = t /\ <<>> \o t = t
  BY WrittenStep
<1> QED
  BY <1>1, <1>2, <1>3, OpenedIs DEF S

-------------------------------------------------------------------------------
\* What a handler that restores has written: its text up to the index, with some
\* of the tokens opened.  The ciphertext it holds is of the token at the index.
OpensTokens(H) ==
    /\ H.pc = "open" => H.text[H.index] \in Token /\ H.ciphertext \in Named(H.text[H.index].ref)
    /\ \E S \in SUBSET Opens(H.text) :
          /\ H.pc # "restored" => /\ \A i \in S : i < H.index
                                  /\ H.output = Written(H.text, S, H.index - 1)
          /\ H.pc = "restored" => H.output = Opened(H.text, S)

OpensInv ==
    \A h \in Handler : handler[h].pc \in {"get", "open", "restored"} => OpensTokens(handler[h])

LEMMA OpensInit == Init => OpensInv
BY IdleState DEF Init, OpensInv

LEMMA OpensBy ==
    ASSUME OpensInv, TypeInv, NEW h \in Handler, NEW G, handler' = [handler EXCEPT ![h] = G],
           G.pc \in {"get", "open", "restored"} => OpensTokens(G)
    PROVE  OpensInv'
<1>1. \A g \in Handler : handler'[g] = IF g = h THEN G ELSE handler[g]
  BY DEF TypeInv, HandlersFit
<1>2. \A g \in Handler : handler'[g].pc \in {"get", "open", "restored"} => OpensTokens(handler'[g])
  BY <1>1 DEF OpensInv
<1> QED
  BY <1>2 DEF OpensInv

LEMMA OpensUnmask ==
    ASSUME TypeInv, OpensInv, NEW h \in Handler, NEW x \in seen, UnmaskText(h, x.masked)
    PROVE  OpensInv'
<1> DEFINE t == x.masked
<1>1. PICK G \in HandlerState :
         /\ handler' = [handler EXCEPT ![h] = G]
         /\ G.text = t /\ G.index = 1
         /\ \/ G.pc = "restored" /\ G.output = t
            \/ G.pc = "get" /\ G.output = <<>>
  BY UnmaskTextEffect
<1>2. t \in Seq(Element)
  BY DEF TypeInv, SeenFits, Masking
<1> HIDE DEF t
<1>3. {} \in SUBSET Opens(t) /\ Opened(t, {}) = t /\ Written(t, {}, 0) = <<>>
  BY <1>2, NothingOpened, WrittenStep
<1>4. OpensTokens(G)
  BY <1>1, <1>3 DEF OpensTokens
<1> QED
  BY <1>1, <1>4, OpensBy

\* The value that the vault has for a token is one that the token is made for.
LEMMA FoundIsNamed ==
    ASSUME TypeInv, VaultInv, NEW k \in Token, tokenToValue[k] # None
    PROVE  tokenToValue[k] \in Named(k.ref)
<1> DEFINE v == tokenToValue[k]
<1>1. v \in Value
  BY DEF TypeInv, VaultTypes
<1>2. valueToToken[v] = k
  BY <1>1 DEF VaultInv, MapsAgree
<1>3. k.ref = Hash[clears > 0][v] /\ (clears > 0) \in BOOLEAN
  <2>1. clears \in Nat
    BY DEF TypeInv, VaultTypes
  <2>2. (clears > 0) \in BOOLEAN
    BY <2>1
  <2> HIDE DEF v
  <2> QED
    BY <1>1, <1>2, <2>2, NoneIsNoToken DEF VaultInv, TokensAreNamed
<1> HIDE DEF v
<1>4. v \in Named(k.ref)
  BY <1>1, <1>3 DEF Named
<1> QED
  BY <1>4 DEF v

LEMMA NamedIs ==
    ASSUME OneValueEach, NEW ref, NEW v \in Named(ref)
    PROVE  (CHOOSE w \in Named(ref) : TRUE) = v
<1>1. \A w \in Named(ref) : w = v
  BY DEF OneValueEach, Named
<1> QED
  BY <1>1

LEMMA OpensGet ==
    ASSUME TypeInv, VaultInv, OpensInv, NEW h \in Handler, GetToken(h)
    PROVE  OpensInv'
<1> DEFINE H == handler[h]
           t == H.text
           a == H.index
<1>1. PICK i \in FirstToken(t, a), G \in HandlerState :
         /\ handler' = [handler EXCEPT ![h] = G]
         /\ G.text = t
         /\ tokenToValue[t[i]] = None =>
               /\ G.pc = "get" /\ G.output = Append(H.output \o SubSeq(t, a, i - 1), t[i])
               /\ G.index = i + 1
         /\ tokenToValue[t[i]] # None =>
               /\ G.pc = "open" /\ G.output = H.output \o SubSeq(t, a, i - 1) /\ G.index = i
               /\ G.ciphertext = tokenToValue[t[i]]
  BY GetTokenEffect
<1>2. /\ t \in Seq(Element) /\ a \in 1 .. Len(t) + 1 /\ Len(t) \in Nat
      /\ H.output \in Seq(Element) /\ H.pc = "get"
  <2>1. H \in HandlerState /\ Fits(H, clears) /\ H.pc = "get"
    BY GetTokenEffect DEF TypeInv, HandlersFit
  <2> HIDE DEF H
  <2>2. t \in Seq(Element) /\ a \in Nat \ {0} /\ H.output \in Seq(Element)
    BY <2>1, HandlerTypes DEF String, Position
  <2>3. Len(t) \in Nat /\ a <= Len(t) + 1
    BY <2>1, <2>2 DEF Fits
  <2> HIDE DEF t, a
  <2> QED
    BY <2>1, <2>2, <2>3
<1>3. i \in a .. Len(t) /\ t[i] \in Token /\ \A j \in a .. i - 1 : t[j] \notin Token
  <2>1. i \in a .. Len(t) /\ t[i] \in Token /\ \A j \in a .. Len(t) : t[j] \in Token => i <= j
    BY DEF FirstToken, TokensFrom
  <2> HIDE DEF t, a
  <2> QED
    BY <1>2, <2>1
<1>4. PICK S \in SUBSET Opens(t) : (\A j \in S : j < a) /\ H.output = Written(t, S, a - 1)
  BY <1>2 DEF OpensInv, OpensTokens
<1> DEFINE out == H.output
<1> HIDE DEF H, t, a, out
<1>5. i \in 1 .. Len(t) /\ i \in a .. Len(t) + 1 /\ i + 1 \in a .. Len(t) + 1
      /\ \A j \in S : j \in 1 .. Len(t) /\ j < a
  <2>1. \A j \in S : j \in 1 .. Len(t)
    BY DEF Opens, TokensFrom
  <2> QED
    BY <1>2, <1>3, <1>4, <2>1
<1>6. out \o SubSeq(t, a, i - 1) = Written(t, S, i - 1)
  <2>1. \A j \in a .. i - 1 : j \notin S
    BY <1>2, <1>3, <1>5
  <2>2. Written(t, S, i - 1) = Written(t, S, a - 1) \o SubSeq(t, a, i - 1)
    BY ONLY <1>2, <1>4, <1>5, <2>1, WrittenCopy
  <2> QED
    BY <1>4, <2>2 DEF out
<1>7. CASE tokenToValue[t[i]] = None
  <2>1. i \notin S
    BY <1>2, <1>3, <1>5
  <2>2. Part(t, S, i) = <<t[i]>>
    BY <2>1 DEF Part
  <2>3. Written(t, S, i) = Written(t, S, i - 1) \o <<t[i]>>
    BY <1>2, <1>4, <1>5, <2>2, WrittenNext
  <2>4. Written(t, S, i - 1) \in Seq(Element)
    <3>1. i - 1 \in 0 .. Len(t)
      BY <1>5
    <3> QED
      BY <1>2, <1>4, <3>1, WrittenType
  <2> DEFINE w == Written(t, S, i - 1)
  <2>5. Append(w, t[i]) = w \o <<t[i]>>
    <3> HIDE DEF w
    <3>1. w \in Seq(Element) /\ t[i] \in Element
      BY <1>2, <1>5, <2>4 DEF w
    <3> QED
      BY <3>1
  <2>6. G.pc = "get" /\ G.index = i + 1 /\ G.text = t /\ G.output = Append(w, t[i])
    BY <1>1, <1>6, <1>7 DEF out
  <2>7. G.output = Written(G.text, S, G.index - 1)
    <3>1. G.index - 1 = i
      BY <1>5, <2>6
    <3> QED
      BY <2>3, <2>5, <2>6, <3>1
  <2>8. \A j \in S : j < G.index
    BY <1>2, <1>3, <1>5, <2>6
  <2>9. OpensTokens(G)
    BY <1>4, <2>6, <2>7, <2>8 DEF OpensTokens
  <2> QED
    BY <1>1, <2>9, OpensBy
<1>8. CASE tokenToValue[t[i]] # None
  <2>1. /\ G.pc = "open" /\ G.index = i /\ G.text = t /\ G.ciphertext = tokenToValue[t[i]]
        /\ G.output = Written(t, S, i - 1)
    BY <1>1, <1>6, <1>8 DEF out
  <2>2. G.ciphertext \in Named(t[i].ref)
    BY <1>3, <1>8, <2>1, FoundIsNamed
  <2>3. \A j \in S : j < G.index
    BY <1>2, <1>3, <1>5, <2>1
  <2>4. OpensTokens(G)
    BY <1>3, <1>4, <2>1, <2>2, <2>3 DEF OpensTokens
  <2> QED
    BY <1>1, <2>4, OpensBy
<1> QED
  BY <1>7, <1>8

LEMMA OpensOpen ==
    ASSUME OneValueEach, TypeInv, OpensInv, NEW h \in Handler, OpenCiphertext(h)
    PROVE  OpensInv'
<1> DEFINE H == handler[h]
           t == H.text
           i == H.index
           v == H.ciphertext
<1>1. PICK G \in HandlerState :
         /\ handler' = [handler EXCEPT ![h] = G]
         /\ G.pc = "get" /\ G.text = t /\ G.index = i + 1
         /\ H.read = clears => G.output = H.output \o v
         /\ H.read # clears => G.output = H.output \o <<t[i]>>
  BY OpenCiphertextEffect
<1>2. H.pc = "open" /\ t \in Seq(Element) /\ i \in 1 .. Len(t)
  <2>1. H \in HandlerState /\ Fits(H, clears) /\ H.pc = "open"
    BY OpenCiphertextEffect DEF TypeInv, HandlersFit
  <2> HIDE DEF H
  <2>2. t \in Seq(Element) /\ i \in Nat \ {0} /\ i <= Len(t)
    BY <2>1, HandlerTypes DEF Fits, String, Position
  <2> HIDE DEF t, i
  <2> QED
    BY <2>1, <2>2
<1>3. t[i] \in Token /\ v \in Named(t[i].ref)
  BY <1>2 DEF OpensInv, OpensTokens
<1>4. PICK S \in SUBSET Opens(t) : (\A j \in S : j < i) /\ H.output = Written(t, S, i - 1)
  BY <1>2 DEF OpensInv, OpensTokens
<1> HIDE DEF H, t, i, v
<1>5. G.index - 1 = i /\ i \notin S /\ i < i + 1 /\ \A j \in S : j \in Nat /\ j < i + 1
  <2>1. \A j \in S : j \in 1 .. Len(t)
    BY DEF Opens, TokensFrom
  <2> QED
    BY <1>1, <1>2, <1>4, <2>1
<1>6. CASE H.read = clears
  <2> DEFINE R == S \cup {i}
  <2>1. R \in SUBSET Opens(t)
    BY <1>2, <1>3, <1>4 DEF Opens, TokensFrom
  <2>2. Part(t, R, i) = v
    <3>1. (CHOOSE w \in Named(t[i].ref) : TRUE) = v
      BY <1>3, NamedIs
    <3> QED
      BY <3>1 DEF Part
  <2>3. \A j \in R : j < i + 1
    BY <1>5
  <2>4. i - 1 \in Nat /\ \A j \in 1 .. i - 1 : j \in S <=> j \in R
    BY <1>2
  <2> HIDE DEF R
  <2>5. Written(t, S, i - 1) = Written(t, R, i - 1)
    <3> DEFINE k == i - 1
    <3>1. k \in Nat /\ \A j \in 1 .. k : j \in S <=> j \in R
      BY <2>4
    <3> HIDE DEF k
    <3>2. Written(t, S, k) = Written(t, R, k)
      BY <3>1, WrittenSame
    <3> QED
      BY <3>2 DEF k
  <2>6. Written(t, R, i) = Written(t, R, i - 1) \o v
    BY <1>2, <2>1, <2>2, WrittenNext
  <2>7. G.output = Written(G.text, R, G.index - 1)
    BY <1>1, <1>4, <1>5, <1>6, <2>5, <2>6
  <2>8. OpensTokens(G)
    BY <1>1, <2>1, <2>3, <2>7 DEF OpensTokens
  <2> QED
    BY <1>1, <2>8, OpensBy
<1>7. CASE H.read # clears
  <2>1. Part(t, S, i) = <<t[i]>>
    BY <1>5 DEF Part
  <2>2. Written(t, S, i) = Written(t, S, i - 1) \o <<t[i]>>
    BY <1>2, <1>4, <2>1, WrittenNext
  <2>3. G.output = Written(G.text, S, G.index - 1)
    BY <1>1, <1>4, <1>5, <1>7, <2>2
  <2>4. OpensTokens(G)
    BY <1>1, <1>4, <1>5, <2>3 DEF OpensTokens
  <2> QED
    BY <1>1, <2>4, OpensBy
<1> QED
  BY <1>6, <1>7

LEMMA OpensReturn ==
    ASSUME TypeInv, OpensInv, NEW h \in Handler, ReturnRestored(h)
    PROVE  OpensInv'
<1> DEFINE H == handler[h]
           t == H.text
           a == H.index
<1>1. PICK G \in HandlerState :
         /\ handler' = [handler EXCEPT ![h] = G]
         /\ G.pc = "restored" /\ G.text = t
         /\ ~H.failed => G.output = H.output \o SubSeq(t, a, Len(t))
         /\ H.failed => G.output = t
  BY ReturnRestoredEffect
<1>2. /\ H.pc = "get" /\ TokensFrom(t, a) = {}
      /\ t \in Seq(Element) /\ a \in 1 .. Len(t) + 1 /\ Len(t) \in Nat
  <2>1. H \in HandlerState /\ Fits(H, clears) /\ H.pc = "get" /\ TokensFrom(t, a) = {}
    BY ReturnRestoredEffect DEF TypeInv, HandlersFit
  <2> HIDE DEF H
  <2>2. t \in Seq(Element) /\ a \in Nat \ {0} /\ a <= Len(t) + 1
    BY <2>1, HandlerTypes DEF Fits, String, Position
  <2> HIDE DEF t, a
  <2> QED
    BY <2>1, <2>2
<1>3. PICK S \in SUBSET Opens(t) : (\A j \in S : j < a) /\ H.output = Written(t, S, a - 1)
  BY <1>2 DEF OpensInv, OpensTokens
<1> HIDE DEF H, t, a
<1>4. CASE H.failed
  <2>1. {} \in SUBSET Opens(t) /\ G.output = Opened(t, {})
    BY <1>1, <1>2, <1>4, NothingOpened
  <2>2. OpensTokens(G)
    BY <1>1, <2>1 DEF OpensTokens
  <2> QED
    BY <1>1, <2>2, OpensBy
<1>5. CASE ~H.failed
  <2> DEFINE b == Len(t) + 1
  <2>1. b \in a .. Len(t) + 1 /\ b - 1 = Len(t)
    BY <1>2
  <2>2. \A j \in a .. b - 1 : j \notin S
    <3>1. \A j \in S : j \in Nat /\ j < a
      BY <1>3 DEF Opens, TokensFrom
    <3> QED
      BY <1>2, <3>1
  <2> HIDE DEF b
  <2>3. Written(t, S, b - 1) = Written(t, S, a - 1) \o SubSeq(t, a, b - 1)
    BY ONLY <1>2, <1>3, <2>1, <2>2, WrittenCopy
  <2>4. G.output = Opened(t, S)
    BY <1>1, <1>2, <1>3, <1>5, <2>1, <2>3, OpenedIs
  <2>5. OpensTokens(G)
    BY <1>1, <1>3, <2>4 DEF OpensTokens
  <2> QED
    BY <1>1, <2>5, OpensBy
<1> QED
  BY <1>4, <1>5

LEMMA OpensNext ==
    ASSUME OneValueEach
    PROVE  TypeInv /\ VaultInv /\ OpensInv /\ [Next]_vars => OpensInv'
<1> SUFFICES ASSUME TypeInv, VaultInv, OpensInv, [Next]_vars PROVE OpensInv'
  OBVIOUS
<1>1. ASSUME NEW h \in Handler, NEW t \in Text, MaskText(h, t) PROVE OpensInv'
  <2>1. \E G \in HandlerState : handler' = [handler EXCEPT ![h] = G] /\ G.pc = "mask"
    BY <1>1, MaskTextEffect
  <2> QED
    BY <2>1, OpensBy
<1>2. ASSUME NEW h \in Handler, ReplaceMatch(h) PROVE OpensInv'
  <2>1. \E G \in HandlerState : handler' = [handler EXCEPT ![h] = G] /\ G.pc = "mask"
    BY <1>2, ReplaceMatchEffect
  <2> QED
    BY <2>1, OpensBy
<1>3. ASSUME NEW h \in Handler, ReturnMasked(h) PROVE OpensInv'
  <2>1. handler' = [handler EXCEPT ![h] = Idle]
    BY <1>3, ReturnMaskedEffect
  <2> QED
    BY <2>1, IdleState, OpensBy
<1>4. ASSUME NEW h \in Handler, NEW x \in seen, UnmaskText(h, x.masked) PROVE OpensInv'
  BY <1>4, OpensUnmask
<1>5. ASSUME NEW h \in Handler, GetToken(h) PROVE OpensInv'
  BY <1>5, OpensGet
<1>6. ASSUME NEW h \in Handler, OpenCiphertext(h) PROVE OpensInv'
  BY <1>6, OpensOpen
<1>7. ASSUME NEW h \in Handler, ReturnRestored(h) PROVE OpensInv'
  BY <1>7, OpensReturn
<1>8. CASE Clear
  BY <1>8 DEF Clear, OpensInv
<1>9. CASE UNCHANGED vars
  BY <1>9 DEF vars, OpensInv
<1> QED
  BY <1>1, <1>2, <1>3, <1>4, <1>5, <1>6, <1>7, <1>8, <1>9 DEF Next, Handle

\* Whenever Clear is called while requests are restored, no token is replaced by
\* anything but the value it was made for: if no suffix is that of two values,
\* with the key or with the key that Clear has zeroed.
THEOREM NoTokenBecomesAnother ==
    ASSUME OneValueEach
    PROVE  Spec => []NoWrongValue
<1>1. NoCollision
  BY DEF OneValueEach, NoCollision
<1>2. TypeInv /\ VaultInv /\ OpensInv /\ [Next]_vars => TypeInv' /\ VaultInv' /\ OpensInv'
  BY <1>1, TypeNext, VaultNext, OpensNext
<1>3. OpensInv => NoWrongValue
  <2> SUFFICES ASSUME OpensInv, NEW h \in Handler, handler[h].pc = "restored"
               PROVE  \E S \in SUBSET Opens(handler[h].text) :
                         handler[h].output = Opened(handler[h].text, S)
    BY DEF NoWrongValue, Opens
  <2> QED
    BY DEF OpensInv, OpensTokens
<1> QED
  BY TypeInit, VaultInit, OpensInit, <1>2, <1>3, PTL DEF Spec

===============================================================================
