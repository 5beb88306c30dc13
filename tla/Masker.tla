--------------------------------- MODULE Masker ---------------------------------
(***************************************************************************)
(* The masking pipeline of pkg/masker: the rule engine, the tokenizer and  *)
(* the vault of surrogate tokens, in the mode "tokenize".                  *)
(*                                                                         *)
(* Handlers run at the same time (one for each HTTP request) and share one *)
(* tokenizer.  MaskText replaces what the rules find in a response by      *)
(* tokens, one Put into the vault for each; UnmaskText replaces the tokens *)
(* in a later request by what the vault has for them, one Get for each.    *)
(* The maps of the vault are under v.mu, but Get decrypts after it has     *)
(* released the lock, and Clear overwrites the ciphertexts in place.       *)
(*                                                                         *)
(* A text is a sequence of letters and tokens.  A rule finds words: which  *)
(* words its pattern matches, and which of them its validator accepts, are *)
(* constants.  The HMAC that names a token is a function of the value and  *)
(* of the key, which Clear zeroes.                                         *)
(***************************************************************************)
EXTENDS Integers, Sequences, SequencesExt

CONSTANTS
    Handler,    \* goroutines
    Text,       \* texts that tools answer
    Rule,       \* compiled rules
    Value,      \* words that rules may find
    Pattern,    \* Pattern[r]: words the pattern of r matches
    Valid,      \* Valid[r]: words its validator accepts
    Ref,        \* token suffixes, eight hex digits in the code
    Hash,       \* Hash[zeroed][v]: the suffix for v, with the key zeroed or not
    MaxClears,  \* how often Clear is called
    None

ASSUME MaskerAssumption ==
    /\ Pattern \in [Rule -> SUBSET Value] /\ Valid \in [Rule -> SUBSET Value]
    /\ Hash \in [BOOLEAN -> [Value -> Ref]]
    /\ MaxClears \in Nat
    /\ None \notin Value

Token == [rule: Rule, ref: Ref]

ASSUME NoneIsNoToken == None \notin Token

Letter == UNION {ToSet(t) : t \in Text \cup Value}

Element == Letter \cup Token

\* The built-in patterns match no empty word.
ASSUME TextsAndWords ==
    /\ Text \cup Value \subseteq Seq(Element)
    /\ <<>> \notin Value

VARIABLES
    tokenToValue,  \* v.tokenToValue, with the values in the clear
    valueToToken,  \* v.valueToToken
    clears,        \* number of calls of Clear so far
    handler,       \* what each handler is doing
    seen           \* history: what was masked, and into what

vault == <<tokenToValue, valueToToken, clears>>
vars == <<vault, handler, seen>>

Idle == [pc |-> "idle", text |-> <<>>, index |-> 1, matches |-> {}, output |-> <<>>,
         spans |-> {}, ciphertext |-> None, read |-> 0, failed |-> FALSE]

-------------------------------------------------------------------------------
\* The longest word of rule r at position i of t, if there is one.
WordsAt(r, t, i) ==
    LET W == {w \in Pattern[r] : i + Len(w) <= Len(t) + 1 /\ SubSeq(t, i, i + Len(w) - 1) = w}
    IN  {w \in W : \A x \in W : Len(x) <= Len(w)}

\* FindAllStringIndex: where the pattern of r matches; a word is consumed.
Starts(r, t) ==
    LET From[i \in 1 .. Len(t) + 1] ==
          IF i > Len(t) THEN {}
          ELSE IF WordsAt(r, t, i) = {} THEN From[i + 1]
          ELSE {i} \cup From[i + Len(CHOOSE w \in WordsAt(r, t, i) : TRUE)]
    IN  From[1]

\* Those that the validator accepts: what it rejects was consumed too.
Found(r, t) ==
    LET S == Starts(r, t) IN
    {[rule |-> r, start |-> x[1], end |-> x[1] + Len(x[2]), value |-> x[2]] :
        x \in {y \in (1 .. Len(t)) \X Valid[r] : y[1] \in S /\ y[2] \in WordsAt(r, t, y[1])}}

Scan(t) == UNION {Found(r, t) : r \in Rule}

\* The order of resolveOverlaps: by start, the longest first; matches of the
\* same span in any order.
Foremost(matches) ==
    {m \in matches : \A x \in matches :
        m.start < x.start \/ (m.start = x.start /\ m.end >= x.end)}

-------------------------------------------------------------------------------
Init ==
    /\ tokenToValue = [t \in Token |-> None]
    /\ valueToToken = [v \in Value |-> None]
    /\ clears = 0
    /\ handler = [h \in Handler |-> Idle]
    /\ seen = {}

NewToken(r, v) == [rule |-> r, ref |-> Hash[clears > 0][v]]

\* Mutant: the token of another rule is not used.
TokenOfRule(r, v) == NewToken(r, v)

\* Vault.Put: a value that has a token keeps it.
TokenFor(r, v) == IF valueToToken[v] # None THEN valueToToken[v] ELSE NewToken(r, v)

Put(r, v) ==
    /\ tokenToValue' = IF valueToToken[v] # None THEN tokenToValue
                       ELSE [tokenToValue EXCEPT ![NewToken(r, v)] = v]
    /\ valueToToken' = [valueToToken EXCEPT ![v] = TokenFor(r, v)]

MaskText(h, t) ==
    /\ handler[h].pc \in {"idle", "restored"}
    /\ handler' = [handler EXCEPT ![h] = [Idle EXCEPT !.pc = "mask", !.text = t, !.matches = Scan(t)]]
    /\ UNCHANGED <<vault, seen>>

\* Mutant: a match that begins where the last one ended counts as overlapping.
ReplaceMatchApart(h) ==
    LET H == handler[h] IN
    /\ H.pc = "mask"
    /\ \E m \in Foremost(H.matches) :
          /\ Put(m.rule, m.value)
          /\ handler' = [handler EXCEPT ![h] = [H EXCEPT
                !.output = Append(@ \o SubSeq(H.text, H.index, m.start - 1),
                                  TokenFor(m.rule, m.value)),
                !.index = m.end,
                !.matches = {x \in @ : x.start > m.end},
                !.spans = @ \cup {m}]]
    /\ UNCHANGED <<clears, seen>>

\* The next match that does not overlap the one before.
ReplaceMatch(h) ==
    LET H == handler[h] IN
    /\ H.pc = "mask"
    /\ \E m \in Foremost(H.matches) :
          /\ Put(m.rule, m.value)
          /\ handler' = [handler EXCEPT ![h] = [H EXCEPT
                !.output = Append(@ \o SubSeq(H.text, H.index, m.start - 1),
                                  TokenFor(m.rule, m.value)),
                !.index = m.end,
                !.matches = {x \in @ : x.start >= m.end},
                !.spans = @ \cup {m}]]
    /\ UNCHANGED <<clears, seen>>

\* Mutant: what follows the last match is not written.
ReturnMaskedWithoutTail(h) ==
    LET H == handler[h] IN
    /\ H.pc = "mask" /\ H.matches = {}
    /\ seen' = seen \cup {[original |-> H.text, spans |-> H.spans, masked |-> H.output]}
    /\ handler' = [handler EXCEPT ![h] = Idle]
    /\ UNCHANGED vault

ReturnMasked(h) ==
    LET H == handler[h] IN
    /\ H.pc = "mask" /\ H.matches = {}
    /\ seen' = seen \cup {[original |-> H.text, spans |-> H.spans,
                           masked |-> H.output \o SubSeq(H.text, H.index, Len(H.text))]}
    /\ handler' = [handler EXCEPT ![h] = Idle]
    /\ UNCHANGED vault

-------------------------------------------------------------------------------
TokensFrom(t, i) == {j \in i .. Len(t) : t[j] \in Token}

\* UnmaskText: an argument of a request, with tokens the agent has seen.
\* When the vault is empty the text is returned as it is.
UnmaskText(h, t) ==
    /\ handler[h].pc \in {"idle", "restored"}
    /\ handler' = [handler EXCEPT ![h] = [Idle EXCEPT !.text = t,
          !.pc = IF \A k \in Token : tokenToValue[k] = None THEN "restored" ELSE "get",
          !.output = IF \A k \in Token : tokenToValue[k] = None THEN t ELSE <<>>]]
    /\ UNCHANGED <<vault, seen>>

\* The first of the tokens.
FirstToken(t, i) == {j \in TokensFrom(t, i) : \A k \in TokensFrom(t, i) : j <= k}

\* Vault.Get, under the lock: the ciphertext is not copied.  A token that is
\* not there stays in the text, and its error hides an earlier one.
GetToken(h) ==
    LET H == handler[h] IN
    /\ H.pc = "get"
    /\ \E i \in FirstToken(H.text, H.index) :
          LET before == H.output \o SubSeq(H.text, H.index, i - 1) IN
          handler' = [handler EXCEPT ![h] =
             IF tokenToValue[H.text[i]] = None
             THEN [H EXCEPT !.output = Append(before, H.text[i]), !.index = i + 1, !.failed = FALSE]
             ELSE [H EXCEPT !.output = before, !.index = i, !.pc = "open", !.read = clears,
                            !.ciphertext = tokenToValue[H.text[i]]]]
    /\ UNCHANGED <<vault, seen>>

\* Mutant: the error is not looked at, and the text becomes empty.
OpenIgnoringErrors(h) ==
    LET H == handler[h] IN
    /\ H.pc = "open"
    /\ handler' = [handler EXCEPT ![h] = [H EXCEPT !.pc = "get", !.ciphertext = None,
          !.index = @ + 1,
          !.output = @ \o (IF H.read = clears THEN H.ciphertext ELSE <<>>)]]
    /\ UNCHANGED <<vault, seen>>

\* Vault.Get, after the lock: a ciphertext that was zeroed does not decrypt, and
\* the token stays in the text.
OpenCiphertext(h) ==
    LET H == handler[h] IN
    /\ H.pc = "open"
    /\ handler' = [handler EXCEPT ![h] = [H EXCEPT !.pc = "get", !.ciphertext = None,
          !.index = @ + 1,
          !.output = @ \o (IF H.read = clears THEN H.ciphertext ELSE <<H.text[H.index]>>),
          !.failed = @ \/ H.read # clears]]
    /\ UNCHANGED <<vault, seen>>

\* The request keeps its text when UnmaskText returns an error.
ReturnRestored(h) ==
    LET H == handler[h] IN
    /\ H.pc = "get" /\ TokensFrom(H.text, H.index) = {}
    /\ handler' = [handler EXCEPT ![h] = [H EXCEPT !.pc = "restored",
          !.output = IF H.failed THEN H.text ELSE @ \o SubSeq(H.text, H.index, Len(H.text))]]
    /\ UNCHANGED <<vault, seen>>

\* Mutant: the tokens of the values are kept.
ClearTokensOnly ==
    /\ clears < MaxClears
    /\ clears' = clears + 1
    /\ tokenToValue' = [t \in Token |-> None]
    /\ UNCHANGED <<valueToToken, handler, seen>>

\* Clear: both maps are emptied, the keys and the ciphertexts zeroed.
Clear ==
    /\ clears < MaxClears
    /\ clears' = clears + 1
    /\ tokenToValue' = [t \in Token |-> None]
    /\ valueToToken' = [v \in Value |-> None]
    /\ UNCHANGED <<handler, seen>>

-------------------------------------------------------------------------------
Handle(h) ==
    \/ \E t \in Text : MaskText(h, t)
    \/ ReplaceMatch(h) \/ ReturnMasked(h)
    \/ \E x \in seen : UnmaskText(h, x.masked)
    \/ GetToken(h) \/ OpenCiphertext(h) \/ ReturnRestored(h)

Next == Clear \/ \E h \in Handler : Handle(h)

Spec == Init /\ [][Next]_vars

-------------------------------------------------------------------------------
Match == [rule: Rule, start: Nat \ {0}, end: Nat, value: Value]

\* The types of the variables; no handler is past a match it has yet to replace.
TypeOK ==
    /\ tokenToValue \in [Token -> Value \cup {None}]
    /\ valueToToken \in [Value -> Token \cup {None}]
    /\ clears \in 0 .. MaxClears
    /\ \A h \in Handler : LET H == handler[h] IN
          /\ DOMAIN H = DOMAIN Idle
          /\ H.pc \in {"idle", "mask", "get", "open", "restored"}
          /\ H.text \in Seq(Element) /\ H.output \in Seq(Element)
          /\ H.index \in 1 .. Len(H.text) + 1
          /\ H.matches \subseteq Match /\ H.spans \subseteq Match
          /\ \A m \in H.matches : m.start >= H.index
          /\ H.read \in 0 .. clears /\ H.failed \in BOOLEAN
          /\ H.ciphertext \in (IF H.pc = "open" THEN Value ELSE {None})
    /\ \A x \in seen : x.original \in Text /\ x.spans \subseteq Match /\ x.masked \in Seq(Element)

\* A key under which no two values get the same token suffix.
NoCollision == \A zeroed \in BOOLEAN, v, w \in Value : Hash[zeroed][v] = Hash[zeroed][w] => v = w

\* The tokens in the texts that tools answer are those of other sessions: a token
\* of this one would come back as its value.
TokensAreForeign ==
    \A t \in Text : \A i \in TokensFrom(t, 1) :
        \A zeroed \in BOOLEAN, v \in Value : Hash[zeroed][v] # t[i].ref

\* The two maps of the vault agree: every value that has a token is what Get
\* returns for it, and every token in the vault is the one its value has, under
\* concurrent Puts of any rules and across a Clear.
MapsAgree ==
    \A v \in Value, t \in Token : valueToToken[v] = t <=> tokenToValue[t] = v

\* Whatever Scan found, no match leaves MaskText whole: dropping the overlapping
\* ones leaves each of them at least one letter short, and no text is replaced
\* twice.
NoMatchLeavesWhole ==
    \A x \in seen :
        /\ \A m \in Scan(x.original) :
              \E s \in x.spans : s.start < m.end /\ m.start < s.end
        /\ \A s, u \in x.spans : s = u \/ s.end <= u.start \/ u.end <= s.start

\* Masking is deterministic for a session: the agent can tell that two answers
\* are about the same data, whichever handlers masked them and which of two rules
\* found a value first.
SameTextSameMask ==
    clears = 0 => \A x, y \in seen : x.original = y.original => x.masked = y.masked

\* Detokenization gives back what was masked.
RoundTrip ==
    \A h \in Handler, x \in seen :
        clears = 0 /\ handler[h].pc = "restored" /\ handler[h].text = x.masked
            => handler[h].output = x.original

\* No two values get the same token suffix, under one key or under two.
OneValueEach ==
    \A y, z \in BOOLEAN, v, w \in Value : Hash[y][v] = Hash[z][w] => v = w

\* The value whose tokens end in ref, and a text with the tokens at S opened.
Named(ref) == {v \in Value : \E zeroed \in BOOLEAN : Hash[zeroed][v] = ref}

Opened(t, S) ==
    FlattenSeq([i \in DOMAIN t |-> IF i \in S THEN CHOOSE v \in Named(t[i].ref) : TRUE ELSE <<t[i]>>])

\* When Clear comes between the steps of a request, tokens may stay, but none is
\* replaced by anything but the value it was made for.
NoWrongValue ==
    \A h \in Handler : handler[h].pc = "restored" =>
        \E S \in SUBSET {i \in TokensFrom(handler[h].text, 1) : Named(handler[h].text[i].ref) # {}} :
            handler[h].output = Opened(handler[h].text, S)

===============================================================================
