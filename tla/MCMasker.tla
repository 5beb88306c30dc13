-------------------------------- MODULE MCMasker --------------------------------
(* Small instances of Masker for TLC: texts of up to five letters. *)
EXTENDS Masker

CONSTANTS a, b, c, email, phone, x1, x2, x3, x4, y1, y2, y3, foreign

ab == <<a, b>>
bc == <<b, c>>
bb == <<b, b>>
cc == <<c, c>>

\* Two rules that find the same word, and words of them that overlap.  The
\* pattern of phone also matches "cc", which its validator rejects.
Words == {ab, bc, bb, cc}
TwoPatterns == (email :> {ab, bc} @@ phone :> {ab, bb, cc})
TwoValid == (email :> {ab, bc} @@ phone :> {ab, bb})

\* No two values have the same suffix, with the key or without.
GoodHash == (FALSE :> (ab :> x1 @@ bc :> x2 @@ bb :> x3 @@ cc :> x4)
             @@ TRUE :> (ab :> y1 @@ bc :> y2 @@ bb :> y3 @@ cc :> x4))
\* Words that overlap, a word the validator rejects and a token of somebody
\* else; words that touch, one of which two rules find.
Texts == {<<b, b, c, c, [rule |-> email, ref |-> foreign]>>, <<a, b, b, b>>}

\* What the theorems suppose holds of these constants.
ASSUME Hypotheses == OneValueEach /\ TokensAreForeign

MaskerSymmetry == Permutations(Handler)

===============================================================================
