--------------------------- MODULE InjectionDetector ---------------------------
(***************************************************************************)
(* The scoring of pkg/guardrails/injection.go.  A text stands for the      *)
(* rules its normalised form matches and for its Base64 words, each the    *)
(* rules that match it when it is decoded; regular expressions and         *)
(* decoding are not modelled.                                              *)
(***************************************************************************)
EXTENDS Integers, Sequences

\* initRules, with weights in hundredths.
Rules == <<
    [category |-> "INSTRUCTION_OVERRIDE",  severity |-> "CRITICAL", weight |-> 95],
    [category |-> "INSTRUCTION_OVERRIDE",  severity |-> "CRITICAL", weight |-> 90],
    [category |-> "INSTRUCTION_OVERRIDE",  severity |-> "HIGH",     weight |-> 80],
    [category |-> "PROMPT_EXTRACTION",     severity |-> "HIGH",     weight |-> 85],
    [category |-> "PROMPT_EXTRACTION",     severity |-> "MEDIUM",   weight |-> 70],
    [category |-> "PERSONA_HIJACK",        severity |-> "HIGH",     weight |-> 80],
    [category |-> "DELIMITER_INJECTION",   severity |-> "CRITICAL", weight |-> 95],
    [category |-> "DESTRUCTIVE_COMMAND",   severity |-> "CRITICAL", weight |-> 90],
    [category |-> "DESTRUCTIVE_COMMAND",   severity |-> "HIGH",     weight |-> 85]>>

Rule == DOMAIN Rules

\* words: of each Base64 word the rules that match it, none when it does not
\* decode or is short.
Text == [matches: SUBSET Rule, words: Seq(SUBSET Rule)]

Clean == [matches |-> {}, words |-> <<>>]

\* The threshold of NewInjectionDetector; a mutant asks for more.
HigherThreshold == 75

Threshold == 65

Nothing == [score |-> 0, severity |-> "LOW", category |-> ""]

\* The rule with the greatest weight decides, the first of them on a tie.
PatternReport(matches) ==
    IF matches = {} THEN Nothing
    ELSE LET worst == CHOOSE r \in matches :
                        \A q \in matches : \/ Rules[q].weight < Rules[r].weight
                                           \/ Rules[q].weight = Rules[r].weight /\ r <= q
         IN  [score |-> Rules[worst].weight, severity |-> Rules[worst].severity,
              category |-> Rules[worst].category]

\* Only so many words are decoded.
MaxWords == 10

Base64Report(words) ==
    IF \A i \in DOMAIN words : i <= MaxWords => words[i] = {} THEN Nothing
    ELSE [score |-> 90, severity |-> "CRITICAL", category |-> "OBFUSCATED_PAYLOAD"]

ScanText(text) ==
    LET plain == PatternReport(text.matches)
        base64 == Base64Report(text.words)
    IN  IF base64.score > plain.score THEN base64 ELSE plain

Detected(text) == ScanText(text).score >= Threshold

\* ScanArguments: the values of the arguments, however deep; never the keys.
ScanArguments(values) == \E text \in values : Detected(text)

===============================================================================
